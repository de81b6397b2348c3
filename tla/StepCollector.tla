---------------------------- MODULE StepCollector ----------------------------
(***************************************************************************)
(* The reducer of one model step (chudbot-api/src/collector.rs): the       *)
(* events that a provider's stream yields are folded into slots, a slot    *)
(* per item, and a finished stream becomes the step that the agent loop    *)
(* acts on.                                                                *)
(*                                                                         *)
(* Text, reasoning and JSON arguments are sequences of fragments.  A       *)
(* fragment names the document it is a part of, its place in it and the    *)
(* number of the document's fragments, which is all that is needed to say  *)
(* whether an accumulated string parses.                                   *)
(***************************************************************************)
EXTENDS Naturals, Sequences, SequencesExt

\* The elements of a sequence that are in a set.
Within(s, S) == FlattenSeq([n \in DOMAIN s |-> IF s[n] \in S THEN <<s[n]>> ELSE << >>])

\* The items of some types.
Only(items, types) ==
  FlattenSeq([n \in DOMAIN items |-> IF items[n].type \in types THEN <<items[n]>> ELSE << >>])

Document(owner, n) == [k \in 1..n |-> <<owner, k, n>>]
EmptyObject == Document("object", 1)   \* the string {}
Null == Document("null", 1)            \* the string null

\* A string is one whole JSON document, or not JSON at all.
Parses(data) == Len(data) > 0 /\ data = Document(data[1][1], data[1][3])

(***************************************************************************)
(* Events, ModelStepEvent of llm.rs.  Deltas belong to an item; the others *)
(* are complete when they arrive.                                          *)
(***************************************************************************)
Delta(type, item, data) == [type |-> type, item |-> item, data |-> data]
TextDelta(item, data) == Delta("Text", item, data)
ReasoningDelta(item, data) == Delta("Reasoning", item, data)
NoName == "no name"
CallDelta(item, id, name, data) ==
  [type |-> "Call", item |-> item, id |-> id, name |-> name, data |-> data]
Continuation(of) == [type |-> "Continuation", of |-> of]
ServerToolUse(of) == [type |-> "ServerToolUse", of |-> of]
Usage(of) == [type |-> "Usage", of |-> of]
Finished(kind) == [type |-> "Finished", kind |-> kind]

IsDelta(event) == event.type \in {"Text", "Reasoning", "Call"}

Unfinished == "unfinished"
NoError == "none"
EmptyCollector == [slots |-> << >>, finished |-> Unfinished, error |-> NoError]

\* A slot's id has been used for another kind of delta, or for another call.
Inconsistent(slot, delta) ==
  \/ slot.type # delta.type
  \/ slot.type = "Call" /\ slot.id # delta.id
  \/ slot.type = "Call" /\ NoName \notin {slot.name, delta.name} /\ slot.name # delta.name

Extend(slot, delta) ==
  IF slot.type = "Call" /\ slot.name = NoName
  THEN [slot EXCEPT !.data = @ \o delta.data, !.name = delta.name]
  ELSE [slot EXCEPT !.data = @ \o delta.data]

PushDelta(collector, delta) ==
  LET pending == {i \in DOMAIN collector.slots :
                    /\ IsDelta(collector.slots[i])
                    /\ collector.slots[i].item = delta.item}
  IN IF pending = {}
     THEN [collector EXCEPT !.slots = Append(@, delta)]
     ELSE LET i == CHOOSE i \in pending : TRUE
          IN IF Inconsistent(collector.slots[i], delta)
             THEN [collector EXCEPT !.error = "InconsistentItem"]
             ELSE [collector EXCEPT !.slots[i] = Extend(@, delta)]

Push(collector, event) ==
  CASE event.type = "Finished" ->
         IF collector.finished # Unfinished
         THEN [collector EXCEPT !.error = "DuplicateFinished"]
         ELSE [collector EXCEPT !.finished = event.kind]
    [] collector.finished # Unfinished ->
         [collector EXCEPT !.error = "EventAfterFinished"]
    [] IsDelta(event) -> PushDelta(collector, event)
    [] OTHER -> [collector EXCEPT !.slots = Append(@, event)]

\* The caller pushes events in turn and stops at the first error.
PushAll(collector, events) ==
  LET after[n \in 0..Len(events)] ==
        IF n = 0 THEN collector
        ELSE LET before == after[n - 1]
             IN IF before.error = NoError THEN Push(before, events[n]) ELSE before
  IN after[Len(events)]

(***************************************************************************)
(* finish: the slots become items in the order in which they were opened,  *)
(* usage apart.                                                            *)
(***************************************************************************)
StepItemTypes == {"Text", "Reasoning", "Call", "Continuation", "ServerToolUse"}

BadCall(slot) ==
  slot.type = "Call" /\ (slot.name = NoName \/ (slot.data # << >> /\ ~Parses(slot.data)))

FinishError(collector) ==
  CASE collector.finished = Unfinished -> "MissingFinished"
    [] \E i \in DOMAIN collector.slots : BadCall(collector.slots[i]) -> "BadCall"
    [] OTHER -> NoError

ItemOf(slot) ==
  IF slot.type = "Call" /\ slot.data = << >> THEN [slot EXCEPT !.data = EmptyObject] ELSE slot

StepOf(collector) ==
  [kind |-> collector.finished,
   items |-> LET items == Only(collector.slots, StepItemTypes)
             IN [i \in DOMAIN items |-> ItemOf(items[i])],
   usage |-> Only(collector.slots, {"Usage"})]
=============================================================================
