----------------------------- MODULE ModelStreams -----------------------------
(***************************************************************************)
(* The provider adapters' stream decoders: what each makes of the events   *)
(* that its service sends.  OpenAI's stands for xAI's Responses dialect    *)
(* too, whose code is the same; "xai" is xAI's chat dialect, "compat" the  *)
(* adapter for OpenAI-compatible servers, which do not stream.             *)
(*                                                                         *)
(* A response is a sequence of items: text, thoughts, client tool calls    *)
(* and uses of hosted tools.  An item has `size' fragments, of which       *)
(* `sent' were produced (fewer when the token limit cut the response       *)
(* short).  XxxWire(r, whole) is the service's side: the events that carry *)
(* the response r, each fragment in an event of its own or every item      *)
(* whole.                                                                  *)
(***************************************************************************)
EXTENDS StepCollector

ItemTypes == {"text", "thought", "call", "search"}
DataOf(r, i) == SubSeq(Document(i, r.items[i].size), 1, r.items[i].sent)
IsCut(r) == \E i \in DOMAIN r.items : r.items[i].sent # r.items[i].size
Places(r, type) == {i \in DOMAIN r.items : r.items[i].type = type}
Of(r, type) == Within([i \in DOMAIN r.items |-> i], Places(r, type))
TextOf(r) == FlattenSeq([k \in DOMAIN Of(r, "text") |-> DataOf(r, Of(r, "text")[k])])
\* The arguments in a complete response: {} for a call without any.
ArgumentsOf(r, i) == IF r.items[i].size = 0 THEN EmptyObject ELSE DataOf(r, i)
Fragments(r, i, whole) ==
  IF whole \/ r.items[i].sent = 0
  THEN IF DataOf(r, i) = << >> THEN << >> ELSE <<DataOf(r, i)>>
  ELSE [k \in 1..r.items[i].sent |-> <<DataOf(r, i)[k]>>]

(***************************************************************************)
(* What a decoder makes of one event: its next state, the events it        *)
(* yields, whether the step is over, or that the event is an error.        *)
(***************************************************************************)
Outcome(d, events) == [state |-> d, events |-> events, finished |-> FALSE, error |-> FALSE]
Over(d, events) == [Outcome(d, events) EXCEPT !.finished = TRUE]
Broken(d) == [Outcome(d, << >>) EXCEPT !.error = TRUE]

\* The kind of a step, from the calls and the text of the whole response.
Kind(hasCalls, hasText) ==
  IF hasCalls THEN "ClientTools" ELSE IF hasText THEN "Final" ELSE "Continue"

\* What every terminal event ends with.
Closing(step, r, kind) ==
  (IF r.items = << >> THEN << >> ELSE <<Continuation(step)>>)
    \o [k \in DOMAIN Of(r, "search") |-> ServerToolUse(step)]
    \o <<Usage(step), Finished(kind)>>

\* Reasoning that was not streamed is taken from the continuation.
LateReasoning(r) ==
  [k \in DOMAIN Of(r, "thought") |->
     ReasoningDelta(<<"reasoning", k>>, DataOf(r, Of(r, "thought")[k]))]

(***************************************************************************)
(* OpenAI.  Text, reasoning and arguments are streamed by item; calls are  *)
(* announced, and the terminal event repeats the whole response, from      *)
(* which the decoder adds what it has not streamed.                        *)
(***************************************************************************)
OpenAiStart == [text |-> FALSE, reasoning |-> FALSE, calls |-> {}, streamed |-> {}]

OpenAiItemWire(r, i) ==
  LET of(type) == [k \in DOMAIN Fragments(r, i, FALSE) |->
                     [type |-> type, at |-> i, data |-> Fragments(r, i, FALSE)[k]]]
  IN CASE r.items[i].type = "text" -> of("textDelta")
       [] r.items[i].type = "thought" -> of("reasoningDelta")
       [] r.items[i].type = "call" -> <<[type |-> "itemAdded", at |-> i]>> \o of("argumentsDelta")
       [] OTHER -> << >>
OpenAiWire(r, whole) ==
  (IF whole THEN << >> ELSE FlattenSeq([i \in DOMAIN r.items |-> OpenAiItemWire(r, i)]))
    \o <<[type |-> "completed"]>>

\* A call's arguments in the terminal event: null if they do not parse.
TerminalArguments(r, i) ==
  IF Parses(ArgumentsOf(r, i)) THEN ArgumentsOf(r, i) ELSE Null

OpenAiTerminal(d, step, r) ==
  LET late == Within(Of(r, "call"), Places(r, "call") \ d.streamed)
  IN (IF d.text \/ TextOf(r) = << >> THEN << >> ELSE <<TextDelta(<<"terminal text", 0>>, TextOf(r))>>)
       \o [k \in DOMAIN late |->
             CallDelta(<<"tool", k>>, <<step, late[k]>>, r.items[late[k]].tool,
                       TerminalArguments(r, late[k]))]
       \o (IF d.reasoning THEN << >> ELSE LateReasoning(r))
       \o Closing(step, r, Kind(Of(r, "call") # << >>, TextOf(r) # << >>))

OpenAiEvent(d, w, step, r) ==
  CASE w.type = "textDelta" ->
         Outcome([d EXCEPT !.text = TRUE], <<TextDelta(<<"item", w.at>>, w.data)>>)
    [] w.type = "reasoningDelta" ->
         Outcome([d EXCEPT !.reasoning = TRUE], <<ReasoningDelta(<<"item", w.at>>, w.data)>>)
    [] w.type = "itemAdded" ->
         Outcome([d EXCEPT !.calls = @ \cup {w.at}], << >>)
    [] w.type = "argumentsDelta" ->
         IF w.at \notin d.calls THEN Outcome(d, << >>)
         ELSE Outcome([d EXCEPT !.streamed = @ \cup {w.at}],
                      <<CallDelta(<<"item", w.at>>, <<step, w.at>>, r.items[w.at].tool, w.data)>>)
    [] w.type = "completed" -> Over(d, OpenAiTerminal(d, step, r))

(***************************************************************************)
(* Anthropic.  Content blocks start, grow and stop; what the terminal      *)
(* event says of the step is read from the blocks the decoder assembled.   *)
(***************************************************************************)
AnthropicStart == [text |-> FALSE, reasoning |-> FALSE, blocks |-> << >>, paused |-> FALSE]

AnthropicItemWire(r, i, whole) ==
  LET start == [type |-> "blockStart", at |-> i,
                data |-> IF whole THEN IF r.items[i].type = "call" THEN ArgumentsOf(r, i) ELSE DataOf(r, i)
                         ELSE IF r.items[i].type = "call" THEN EmptyObject ELSE << >>]
      grow == [k \in DOMAIN Fragments(r, i, FALSE) |->
                 [type |-> "blockDelta", at |-> i, data |-> Fragments(r, i, FALSE)[k]]]
  IN <<start>> \o (IF whole \/ r.items[i].type = "search" THEN << >> ELSE grow)
       \o <<[type |-> "blockStop", at |-> i]>>
AnthropicWire(r, whole) ==
  FlattenSeq([i \in DOMAIN r.items |-> AnthropicItemWire(r, i, whole)])
    \o <<[type |-> "messageDelta"], [type |-> "messageStop"]>>

AnthropicTerminal(d, step, r) ==
  LET blocks(type) == Only(d.blocks, {type})
      text == FlattenSeq([k \in DOMAIN blocks("text") |-> blocks("text")[k].data])
  IN (IF d.text \/ text = << >> THEN << >> ELSE <<TextDelta(<<"terminal text", 0>>, text)>>)
       \o (IF d.reasoning THEN << >> ELSE LateReasoning(r))
       \o Closing(step, r, Kind(blocks("call") # << >>, text # << >> /\ ~d.paused))

AnthropicCall(step, r, i, data) ==
  CallDelta(<<"tool", i>>, <<step, i>>, r.items[i].tool, data)

\* content_block_delta, by the type of the block it belongs to.
AnthropicDelta(d, w, step, r) ==
  LET grown == [d EXCEPT !.blocks[w.at].data = @ \o w.data]
  IN CASE d.blocks[w.at].type = "text" ->
            Outcome([grown EXCEPT !.text = TRUE], <<TextDelta(<<"item", w.at>>, w.data)>>)
       [] d.blocks[w.at].type = "thought" ->
            Outcome([grown EXCEPT !.reasoning = TRUE], <<ReasoningDelta(<<"item", w.at>>, w.data)>>)
       [] d.blocks[w.at].type = "call" ->
            Outcome([d EXCEPT !.blocks[w.at].json = @ \o w.data, !.blocks[w.at].told = TRUE],
                    <<AnthropicCall(step, r, w.at, w.data)>>)

\* Mutant: a call that was streamed is repeated.
AnthropicStopRepeats(d, w, step, r) ==
  LET block == d.blocks[w.at]
  IN Outcome(d, IF block.type = "call"
                THEN <<AnthropicCall(step, r, w.at, block.data \o block.json)>> ELSE << >>)

\* finish_anthropic_block: the accumulated input must parse, and a call that
\* sent no input is made known here.
AnthropicStop(d, w, step, r) ==
  LET block == d.blocks[w.at]
      data == IF block.json = << >> THEN block.data ELSE block.json
  IN IF block.json # << >> /\ ~Parses(block.json) THEN Broken(d)
     ELSE Outcome([d EXCEPT !.blocks[w.at].data = data],
                  IF block.type = "call" /\ ~block.told
                  THEN <<AnthropicCall(step, r, w.at, data)>> ELSE << >>)

AnthropicEvent(d, w, step, r) ==
  CASE w.type = "blockStart" ->
         LET starts == r.items[w.at].type = "text" /\ w.data # << >>
         IN Outcome([d EXCEPT !.blocks = Append(@, [type |-> r.items[w.at].type, data |-> w.data,
                                                    json |-> << >>, told |-> FALSE]),
                              !.text = @ \/ starts],
                    IF starts THEN <<TextDelta(<<"item", w.at>>, w.data)>> ELSE << >>)
    [] w.type = "blockDelta" -> AnthropicDelta(d, w, step, r)
    [] w.type = "blockStop" -> AnthropicStop(d, w, step, r)
    [] w.type = "messageDelta" -> Outcome([d EXCEPT !.paused = r.paused], << >>)
    [] w.type = "messageStop" -> Over(d, AnthropicTerminal(d, step, r))

(***************************************************************************)
(* Gemini.  Every chunk is a candidate with some of the parts; nothing     *)
(* marks the last one but the end of the stream.  A call's item id is its  *)
(* index among the calls of its chunk; calls have no ids but their name.   *)
(***************************************************************************)
GeminiStart == [text |-> FALSE, call |-> FALSE, candidate |-> FALSE]

GeminiWire(r, whole) ==
  LET chunk(is) == [type |-> "chunk", parts |-> is]
      all == [i \in DOMAIN r.items |-> i]
  IN IF whole THEN <<chunk(all)>> ELSE [i \in DOMAIN r.items |-> chunk(<<i>>)] \o <<chunk(<< >>)>>

GeminiEvent(d, w, step, r) ==
  LET of(type) == Within(w.parts, Places(r, type))
      text == FlattenSeq([k \in DOMAIN of("text") |-> DataOf(r, of("text")[k])])
      calls == of("call")
  IN Outcome([text |-> d.text \/ text # << >>, call |-> d.call \/ calls # << >>, candidate |-> TRUE],
             (IF text = << >> THEN << >> ELSE <<TextDelta(<<"text", 0>>, text)>>)
               \o [k \in DOMAIN calls |->
                     CallDelta(<<"tool", k>>, <<r.items[calls[k]].tool>>, r.items[calls[k]].tool,
                               ArgumentsOf(r, calls[k]))]
               \o [k \in DOMAIN of("search") |-> ServerToolUse(step)])

\* state.finish, at the end of the stream.
GeminiEnd(d, step, r) ==
  IF ~d.candidate THEN Broken(d)
  ELSE Over(d, (IF r.items = << >> THEN << >> ELSE <<Continuation(step)>>)
                 \o <<Usage(step), Finished(Kind(d.call, d.text))>>)

(***************************************************************************)
(* xAI's chat dialect: text and reasoning deltas, no client tools.  The    *)
(* step is over at a finish reason or at the [DONE] marker.                *)
(***************************************************************************)
XaiChatStart == [text |-> FALSE]
XaiChatWire(r, whole) ==
  FlattenSeq([i \in DOMAIN r.items |->
    [k \in DOMAIN Fragments(r, i, whole) |->
       [type |-> r.items[i].type, data |-> Fragments(r, i, whole)[k]]]])
    \o <<[type |-> IF whole THEN "done" ELSE "finishReason"]>>

XaiChatEvent(d, w, step, r) ==
  CASE w.type = "text" -> Outcome([text |-> TRUE], <<TextDelta(<<"text", 0>>, w.data)>>)
    [] w.type = "thought" -> Outcome(d, <<ReasoningDelta(<<"reasoning", 0>>, w.data)>>)
    [] OTHER -> Over(d, <<Usage(step), Finished(Kind(FALSE, d.text))>>)

(***************************************************************************)
(* OpenAI-compatible servers answer with one message.  A step without      *)
(* calls is final, with or without text.                                   *)
(***************************************************************************)
CompatEvent(d, w, step, r) ==
  LET calls == Of(r, "call")
  IN Over(d,
       (IF TextOf(r) = << >> THEN << >> ELSE <<TextDelta(<<"text", 0>>, TextOf(r))>>)
         \o [k \in DOMAIN calls |->
               CallDelta(<<"tool", k>>, <<step, calls[k]>>, r.items[calls[k]].tool,
                         TerminalArguments(r, calls[k]))]
         \o LateReasoning(r)
         \o (IF LateReasoning(r) = << >> THEN << >> ELSE <<Continuation(step)>>)
         \o <<Usage(step), Finished(IF calls = << >> THEN "Final" ELSE "ClientTools")>>)

(***************************************************************************)
(* By provider: the wire, the decoder, and what the end of the service's   *)
(* stream means while no event has ended the step.                         *)
(***************************************************************************)
Adapters == {"openai", "anthropic", "gemini", "xai", "compat"}

Wire(provider, r, whole) ==
  CASE provider = "openai" -> OpenAiWire(r, whole)
    [] provider = "anthropic" -> AnthropicWire(r, whole)
    [] provider = "gemini" -> GeminiWire(r, whole)
    [] provider = "xai" -> XaiChatWire(r, whole)
    [] provider = "compat" -> <<[type |-> "message"]>>

\* The chat dialects have no hosted tools, xAI's no client tools; Gemini does
\* not cut calls short, and only Anthropic pauses a turn.
MayServe(provider, r) ==
  /\ provider \in {"xai", "compat"} => Of(r, "search") = << >>
  /\ provider = "xai" => Of(r, "call") = << >>
  /\ provider = "gemini" => ~IsCut(r)
  /\ r.paused => provider = "anthropic"

StartOf(provider) ==
  CASE provider = "openai" -> OpenAiStart
    [] provider = "anthropic" -> AnthropicStart
    [] provider = "gemini" -> GeminiStart
    [] provider = "xai" -> XaiChatStart
    [] provider = "compat" -> << >>

Decode(provider, d, w, step, r) ==
  CASE provider = "openai" -> OpenAiEvent(d, w, step, r)
    [] provider = "anthropic" -> AnthropicEvent(d, w, step, r)
    [] provider = "gemini" -> GeminiEvent(d, w, step, r)
    [] provider = "xai" -> XaiChatEvent(d, w, step, r)
    [] provider = "compat" -> CompatEvent(d, w, step, r)

AtEnd(provider, d, step, r) ==
  IF provider = "gemini" THEN GeminiEnd(d, step, r) ELSE Broken(d)
=============================================================================
