----------------------------- MODULE TurnInput -----------------------------
(***************************************************************************)
(* What the model is given for a turn of TurnHistory, beside the replies:  *)
(* the agent's instructions and the memory notes of the people in the      *)
(* conversation.                                                           *)
(*                                                                         *)
(* Both are written once and inherited.  The instructions are parts with a *)
(* key; an attempt's saved input holds a marker for each part that differs *)
(* from the state the earlier turns left, and storage folds the markers of *)
(* ALL attempts, in the order of the turns, into the state of each turn.   *)
(* The transcript replays COMPLETED turns only, in the order of their      *)
(* replies, with a marker wherever the state differs from the last one     *)
(* replayed.  A person gets a memory note where no stored context has one, *)
(* and the note is replayed with the turn that holds it.  So what is       *)
(* written is measured on one order and what is told on another.           *)
(*                                                                         *)
(* A text stands for a part's text and for its shorter update text, which  *)
(* matches_persisted_text takes for the same.  Prompts of before the parts *)
(* (LegacyText), quoted messages and media are left out, and every agent   *)
(* has memory enabled.                                                     *)
(***************************************************************************)
EXTENDS TurnHistory, SequencesExt

CONSTANTS
  Keys,       \* the part keys, in the order of the parts
  Prompts,    \* what the agents and configurations at hand compose
  NoText,     \* the empty text of a part
  Users,
  People      \* the people of each turn's message: author, quoted, mentioned

ASSUME KeysAssumption == Keys \in Seq(ToSet(Keys))
ASSUME PeopleAssumption ==
  /\ People \in [Turns -> SUBSET Users]
  /\ \A t \in Turns : IsFiniteSet(People[t])

VARIABLES
  draft,      \* the attempt assembled last: its parts, its notes, its transcript
  unsaved,    \* turns whose draft save_turn_input has still to store
  stored,     \* turns with a stored attempt
  saved,      \* the marker texts of a turn's stored attempts, the latest of each key
  context     \* users noted in a turn's stored context

inputVars == <<draft, unsaved, stored, saved, context>>
allVars == <<vars, inputVars>>

PartKeys == ToSet(Keys)
Texts == {NoText} \cup {p[k] : p \in Prompts, k \in PartKeys}
States == UNION {[K -> Texts] : K \in SUBSET PartKeys}
NoState == [k \in {} |-> NoText]

\* Every composition has all parts, and texts for the version and the operational
\* context at least (compose_agent_instruction_parts).
ASSUME PromptsAssumption ==
  /\ Prompts \subseteq [PartKeys -> Texts]
  /\ \A p \in Prompts : \E k \in PartKeys : p[k] # NoText

Marker(k, text) == [item |-> "marker", key |-> k, text |-> text]
Note(u) == [item |-> "note", user |-> u]
Message(t) == [item |-> "turn", turn |-> t]
IsMarker(i) == i.item = "marker"

Items ==
  {Marker(k, text) : k \in PartKeys, text \in Texts}
    \cup {Note(u) : u \in Users} \cup {Message(t) : t \in Turns}

NoDraft == [parts |-> NoState, notes |-> {}, input |-> <<>>]

InputTypeOK ==
  /\ TypeOK
  /\ \A t \in Turns : /\ draft[t].parts \in States
                      /\ draft[t].notes \subseteq Users
                      /\ draft[t].input \in Seq(Items)
  /\ saved \in [Turns -> States]
  /\ context \in [Turns -> SUBSET Users]
  /\ unsaved \subseteq ready
  /\ stored \subseteq Turns

InputInit ==
  /\ Init
  /\ draft = [t \in Turns |-> NoDraft]
  /\ unsaved = {}
  /\ stored = {}
  /\ saved = [t \in Turns |-> NoState]
  /\ context = [t \in Turns |-> {}]

-----------------------------------------------------------------------------
(* The state of the instructions that storage gives each turn. *)

\* The latest marker of each key in the attempts of the turns S, by the order
\* of the turns; a later attempt of a turn follows its earlier ones.
FoldMarkers(S) ==
  LET Writers(k) == {u \in S : k \in DOMAIN saved[u]}
      Latest(k) == CHOOSE u \in Writers(k) : \A v \in Writers(k) : ordinal[v] <= ordinal[u]
  IN [k \in {k \in PartKeys : Writers(k) # {}} |-> saved[Latest(k)][k]]

Earlier(t) == {u \in Turns : ordinal[u] # NoOrdinal /\ ordinal[u] < ordinal[t]}
StateBefore(t) == FoldMarkers(Earlier(t))
StateOf(t) == FoldMarkers(Earlier(t) \cup {t})

\* Mutant: a part that is there already counts as unchanged, whatever its text.
MissingParts(old, new) == {k \in DOMAIN new : k \notin DOMAIN old /\ new[k] # NoText}

\* Nothing to inherit: every part with a text.  Otherwise the parts that are
\* new or differ, empty ones included.
ChangedParts(old, new) ==
  IF old = NoState THEN {k \in DOMAIN new : new[k] # NoText}
  ELSE {k \in DOMAIN new : k \notin DOMAIN old \/ old[k] # new[k]}

\* The markers of the changed parts, in the order of the parts.
Markers(old, new) ==
  FlattenSeq([i \in DOMAIN Keys |->
    IF Keys[i] \in ChangedParts(old, new) THEN <<Marker(Keys[i], new[Keys[i]])>> ELSE <<>>])

-----------------------------------------------------------------------------
(* The transcript of one attempt. *)

NotesOf(S) == SetToSeq({Note(u) : u \in S})

\* A turn's context: its notes, then the message.
ContextItems(t, notes) == NotesOf(notes) \o <<Message(t)>>

\* The state of the turn replayed before the i-th, which the walk remembers.
ReplayedState(turns, i) == IF i = 1 THEN NoState ELSE StateOf(turns[i - 1])

InReplyOrder(S) ==
  CHOOSE turns \in [1 .. Cardinality(S) -> S] :
    /\ IsInjective(turns)
    /\ \A i, j \in DOMAIN turns : i < j => response[turns[i]] <= response[turns[j]]

\* A replayed turn comes after the markers that lead from the state replayed last.
Replayed(turns, i) ==
  Markers(ReplayedState(turns, i), StateOf(turns[i]))
    \o ContextItems(turns[i], context[turns[i]])

\* The replayed turns in the order of their replies.
History(t) ==
  LET turns == InReplyOrder(Replay(t))
  IN FlattenSeq([i \in DOMAIN turns |-> Replayed(turns, i)])

\* The changes of the current turn go between the history and its context.
Transcript(t, parts, notes) ==
  History(t) \o Markers(StateBefore(t), parts) \o ContextItems(t, notes)

\* Mutant: a note for everybody in every turn.
NotesForAll(t) == People[t]

\* People of the message whom no stored context of the conversation notes yet.
NewNotes(t) == People[t] \ UNION {context[u] : u \in Turns}

\* Mutant: a retry takes the instructions that are configured now.
CurrentInstructions(t) == Prompts

\* A retry runs under the instructions recorded with the turn.
RetryInstructions(t) == IF StateOf(t) = NoState THEN Prompts ELSE {StateOf(t)}

AssembleWith(t, choices, notes) ==
  /\ AssemblePrompt(t)
  /\ \E parts \in choices :
       draft' = [draft EXCEPT ![t] = [parts |-> parts, notes |-> notes,
                                      input |-> Transcript(t, parts, notes)]]
  /\ unsaved' = unsaved \cup {t}
  /\ UNCHANGED <<stored, saved, context>>

\* The agent is selected per turn, by conversation, user, channel, guild or
\* platform, and its configuration may have changed.
AssembleInput(t) == t \notin stored /\ AssembleWith(t, Prompts, NewNotes(t))

\* A retry takes over the context of its latest attempt, notes included.
AssembleRetry(t) == t \in stored /\ AssembleWith(t, RetryInstructions(t), context[t])

\* The last marker of each key in a transcript, of those with one of the texts.
LastMarkers(input, texts) ==
  LET At(k) == {i \in DOMAIN input :
                  IsMarker(input[i]) /\ input[i].key = k /\ input[i].text \in texts}
      Latest(k) == CHOOSE i \in At(k) : \A j \in At(k) : j <= i
  IN [k \in {k \in PartKeys : At(k) # {}} |-> input[Latest(k)].text]

\* save_turn_input stores the attempt with the whole transcript, the markers
\* of the replay included.
SaveTurnInput(t) ==
  /\ t \in unsaved
  /\ unsaved' = unsaved \ {t}
  /\ stored' = stored \cup {t}
  /\ LET new == LastMarkers(draft[t].input, Texts)
     IN saved' = [saved EXCEPT ![t] =
          [k \in DOMAIN new \cup DOMAIN saved[t] |->
             IF k \in DOMAIN new THEN new[k] ELSE saved[t][k]]]
  /\ context' = [context EXCEPT ![t] = draft[t].notes]
  /\ UNCHANGED <<vars, draft>>

-----------------------------------------------------------------------------

\* Mutant: the model runs before the input is stored.
RunUnsaved(t) ==
  \/ StartCompletion(t)
  \/ FinishWithout(t, "failed")
  \/ FinishWithout(t, "cancelled")

\* A turn runs once its input is stored.
Run(t) ==
  /\ t \notin unsaved
  /\ \/ StartCompletion(t)
     \/ FinishWithout(t, "failed")
     \/ FinishWithout(t, "cancelled")

Untouched(A) == A /\ UNCHANGED inputVars

InputStep(t) ==
  \/ Untouched(SendMessage(t))
  \/ Untouched(BeginTurn(t))
  \/ AssembleInput(t)
  \/ AssembleRetry(t)
  \/ SaveTurnInput(t)
  \/ Untouched(Run(t))
  \/ Untouched(CommitCompletion(t))
  \/ Untouched(PrepareRetry(t))

InputNext == Untouched(Tick) \/ \E t \in Turns : InputStep(t)

InputSpec == InputInit /\ [][InputNext]_allVars

-----------------------------------------------------------------------------
(* Properties. *)

\* What the model is told: Agent::run adds the attempt's parts where the
\* transcript has no marker at all; an empty marker says nothing.
Spoken(parts) == [k \in {k \in DOMAIN parts : parts[k] # NoText} |-> parts[k]]

Told(t) ==
  LET input == draft[t].input
  IN IF \E i \in DOMAIN input : IsMarker(input[i])
     THEN LastMarkers(input, Texts \ {NoText})
     ELSE Spoken(draft[t].parts)

Assembled == {t \in Turns : prompt[t] # NoPrompt}

\* The messages of the conversation waited for the answers to those before:
\* every prompt replays all earlier turns.
MessagesWait == \A t \in Assembled : prompt[t] = Earlier(t)

\* The turn before t is the last one that t's prompt replays, or there is none.
FollowsLastReply(t) ==
  \A u \in Earlier(t) :
    \/ \E v \in Earlier(t) : ordinal[u] < ordinal[v]
    \/ u \in prompt[t] /\ \A v \in prompt[t] : response[v] <= response[u]

\* Where a turn follows the last reply it replays, every part its agent has a
\* text for is told in that text, however many agents took turns before and
\* whatever failed or was retried (append_stored_agent_instruction_changes).
InstructionsFollowTheReplay ==
  \A t \in Assembled : FollowsLastReply(t) =>
    \A k \in DOMAIN draft[t].parts :
      draft[t].parts[k] # NoText => k \in DOMAIN Told(t) /\ Told(t)[k] = draft[t].parts[k]

\* In a conversation whose messages wait for their answers, everybody in the
\* message has exactly one memory note in the prompt, from the turn where they
\* first appear (participant_memory_context_items, "each user is noted only on
\* their first appearance").
EverybodyIsNotedOnce ==
  MessagesWait => \A t \in Assembled :
    \A u \in People[t] :
      Cardinality({i \in DOMAIN draft[t].input : draft[t].input[i] = Note(u)}) = 1

\* In such a conversation a turn's input begins with the whole input of the
\* turn before, so that a provider's prompt cache keeps it: storing, folding
\* and replaying the markers gives them back unchanged
\* (append_stored_agent_instruction_changes: the "prefix stable across turns").
InputsExtendEachOther ==
  MessagesWait => \A t \in Assembled : \A u \in prompt[t] :
    IsPrefix(draft[u].input, draft[t].input)

\* In such a conversation a retry is given the input of the first attempt,
\* whatever the configuration says by then and whoever wrote meanwhile
\* (retry_from_message, effective_agent_instruction_parts_from_snapshot).
RetryRepeatsTheInput ==
  [][MessagesWait => \A t \in Assembled : draft'[t].input = draft[t].input]_allVars

\* The instructions that storage records as "used for this attempt/turn"
\* (TurnSnapshot::agent_instructions) are those the model was told.
EffectiveInstructionsAreUsed ==
  \A t \in Turns \ unsaved : t \in ready => Told(t) = Spoken(StateOf(t))

=============================================================================
