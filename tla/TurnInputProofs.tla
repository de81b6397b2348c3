--------------------------- MODULE TurnInputProofs ---------------------------
(***************************************************************************)
(* Proofs about TurnHistory and TurnInput, for every set of turns, clock   *)
(* bound, set of parts, texts and people.                                  *)
(*                                                                         *)
(* The history: response ordinals are handed out in increasing order and   *)
(* never taken back, and a cutoff is an ordinal already handed out when    *)
(* the turn begins.  So the set of replies at or below a cutoff is         *)
(* complete when the cutoff is captured, and no later step can change it.  *)
(*                                                                         *)
(* The instructions: whatever the markers, a transcript tells the state    *)
(* of the turn it replayed last, so the changes from there lead to the     *)
(* attempt's own.  Where the messages of a conversation wait for their     *)
(* answers, a turn replays just the turns before it, what it stored is     *)
(* what it told, and its history is the input of the turn before.          *)
(***************************************************************************)
EXTENDS TurnInput, SequenceLemmas

-----------------------------------------------------------------------------
(* The history of a turn.                                                  *)

\* A cutoff is an ordinal already handed out, and only a turn has one.
CutoffIsStored ==
  \A t \in Turns : /\ status[t] = "absent" => cutoff[t] = NoOrdinal
                   /\ cutoff[t] # NoOrdinal => cutoff[t] \in 0 .. (nextResponse - 1)

\* Only a pending turn has a completion in flight.
OnlyPendingFinishes == \A t \in Turns : finishing[t] # NoTime => status[t] = "pending"

\* What was assembled is what the same query would assemble now.
PromptIsReplay ==
  \A t \in Turns : prompt[t] # NoPrompt => /\ prompt[t] = Replay(t)
                                           /\ status[t] # "absent"

IInv ==
  /\ TypeOK
  /\ ResponseOrdinalsDense
  /\ CutoffIsStored
  /\ OnlyPendingFinishes
  /\ PromptIsReplay

-----------------------------------------------------------------------------
(* A step that leaves the replayed columns of completed turns alone, and   *)
(* only hands out fresh ordinals, changes no begun turn's replay.          *)
LEMMA ReplayFrozen ==
  ASSUME IInv, TypeOK', NEW t \in Turns, status[t] # "absent",
         cutoff'[t] = cutoff[t],
         \A u \in Turns : \/ /\ status'[u] = "completed" <=> status[u] = "completed"
                             /\ response'[u] = response[u]
                          \/ /\ status[u] # "completed"
                             /\ response'[u] = nextResponse
  PROVE  Replay(t)' = Replay(t)
<1>1. ASSUME NEW u \in Turns
      PROVE  (status'[u] = "completed" /\ cutoff'[t] # NoOrdinal /\ response'[u] <= cutoff'[t])
             <=> (status[u] = "completed" /\ cutoff[t] # NoOrdinal /\ response[u] <= cutoff[t])
  BY <1>1 DEF IInv, TypeOK, ResponseOrdinalsDense, CutoffIsStored, NoOrdinal, Ordinals
<1>2. QED  BY <1>1 DEF Replay

\* Type correctness (one half of the invariant, kept apart for the provers).
LEMMA TypeStep == TypeOK /\ [Next]_vars => TypeOK'
<1> SUFFICES ASSUME TypeOK, [Next]_vars PROVE TypeOK'
  OBVIOUS
<1> USE DEF TypeOK, Ordinals, Times, Statuses, NoOrdinal, NoTime
<1>1. CASE Tick  BY <1>1 DEF Tick, columns
<1>2. ASSUME NEW t \in Turns, SendMessage(t) PROVE TypeOK'
  BY <1>2 DEF SendMessage, columns
<1>3. ASSUME NEW t \in Turns, BeginTurn(t) PROVE TypeOK'
  <2>1. RepliesBefore(t) \subseteq Nat \cup {-1}
    BY DEF RepliesBefore
  <2>2. cutoff' \in [Turns -> Nat \cup {-1}]
    BY <1>3, <2>1 DEF BeginTurn, BeginTurnWith, IsMaxOf
  <2>3. QED  BY <1>3, <2>2 DEF BeginTurn, BeginTurnWith
<1>4. ASSUME NEW t \in Turns, AssemblePrompt(t) PROVE TypeOK'
  <2>1. Replay(t) \in SUBSET Turns  BY DEF Replay
  <2>2. QED  BY <1>4, <2>1 DEF AssemblePrompt, columns
<1>5. ASSUME NEW t \in Turns, StartCompletion(t) PROVE TypeOK'
  BY <1>5 DEF StartCompletion, columns
<1>6. ASSUME NEW t \in Turns, CommitCompletion(t) PROVE TypeOK'
  BY <1>6 DEF CommitCompletion, CommitNumbering
<1>7. ASSUME NEW t \in Turns, NEW o \in {"failed", "cancelled"}, FinishWithout(t, o)
      PROVE TypeOK'
  BY <1>7 DEF FinishWithout
<1>8. ASSUME NEW t \in Turns, PrepareRetry(t) PROVE TypeOK'
  BY <1>8 DEF PrepareRetry
<1>9. CASE UNCHANGED vars  BY <1>9 DEF vars
<1>10. QED
  BY <1>1, <1>2, <1>3, <1>4, <1>5, <1>6, <1>7, <1>8, <1>9 DEF Next, TurnStep

LEMMA InitInv == Init => IInv
BY DEF Init, IInv, TypeOK, ResponseOrdinalsDense, CutoffIsStored, OnlyPendingFinishes,
       PromptIsReplay, Ordinals, Times, Statuses, NoOrdinal, NoTime

-----------------------------------------------------------------------------
(* The invariant is inductive: one step per action, one leaf per conjunct  *)
(* the action can disturb.                                                 *)

LEMMA OrdinalsStep ==
  ASSUME IInv, [Next]_vars
  PROVE  ResponseOrdinalsDense' /\ CutoffIsStored' /\ OnlyPendingFinishes'
<1> USE DEF IInv, TypeOK, ResponseOrdinalsDense, CutoffIsStored, OnlyPendingFinishes,
            Ordinals, Times, Statuses, NoOrdinal, NoTime
<1>1. CASE Tick  BY <1>1 DEF Tick, columns
<1>2. ASSUME NEW t \in Turns, SendMessage(t)
      PROVE  ResponseOrdinalsDense' /\ CutoffIsStored' /\ OnlyPendingFinishes'
  BY <1>2 DEF SendMessage, columns
<1>3. ASSUME NEW t \in Turns, BeginTurn(t)
      PROVE  ResponseOrdinalsDense' /\ CutoffIsStored' /\ OnlyPendingFinishes'
  <2>1. RepliesBefore(t) \subseteq 0 .. (nextResponse - 1)
    BY DEF RepliesBefore
  <2>2. ResponseOrdinalsDense' /\ OnlyPendingFinishes'
    BY <1>3 DEF BeginTurn, BeginTurnWith
  <2>3. PICK c \in RepliesBefore(t) \cup {NoOrdinal} :
          /\ c \in 0 .. (nextResponse - 1) \/ c = NoOrdinal
          /\ cutoff' = [cutoff EXCEPT ![t] = c]
    BY <1>3, <2>1 DEF BeginTurn, BeginTurnWith, IsMaxOf
  <2>4. CutoffIsStored'
    BY <1>3, <2>3 DEF BeginTurn, BeginTurnWith
  <2>5. QED  BY <2>2, <2>4
<1>4. ASSUME NEW t \in Turns, AssemblePrompt(t)
      PROVE  ResponseOrdinalsDense' /\ CutoffIsStored' /\ OnlyPendingFinishes'
  BY <1>4 DEF AssemblePrompt, columns
<1>5. ASSUME NEW t \in Turns, StartCompletion(t)
      PROVE  ResponseOrdinalsDense' /\ CutoffIsStored' /\ OnlyPendingFinishes'
  BY <1>5 DEF StartCompletion, columns
<1>6. ASSUME NEW t \in Turns, CommitCompletion(t)
      PROVE  ResponseOrdinalsDense' /\ CutoffIsStored' /\ OnlyPendingFinishes'
  <2>1. status[t] = "pending"
    BY <1>6 DEF CommitCompletion, CommitNumbering
  <2>2. \A n \in 0 .. (nextResponse' - 1) :
           \E u \in Turns : status'[u] = "completed" /\ response'[u] = n
    <3>1. ASSUME NEW n \in 0 .. (nextResponse - 1)
          PROVE  \E u \in Turns : status'[u] = "completed" /\ response'[u] = n
      <4>1. PICK u \in Turns : status[u] = "completed" /\ response[u] = n
        BY <3>1
      <4>2. status'[u] = "completed" /\ response'[u] = n
        BY <1>6, <2>1, <4>1 DEF CommitCompletion, CommitNumbering
      <4>3. QED  BY <4>2
    <3>2. status'[t] = "completed" /\ response'[t] = nextResponse
      BY <1>6 DEF CommitCompletion, CommitNumbering
    <3>3. \A n \in 0 .. (nextResponse' - 1) : n \in 0 .. (nextResponse - 1) \/ n = nextResponse
      BY <1>6 DEF CommitCompletion, CommitNumbering
    <3>4. QED  BY <3>1, <3>2, <3>3
  <2>3. ResponseOrdinalsDense'
    BY <1>6, <2>1, <2>2 DEF CommitCompletion, CommitNumbering
  <2>4. CutoffIsStored' /\ OnlyPendingFinishes'
    BY <1>6 DEF CommitCompletion, CommitNumbering
  <2>5. QED  BY <2>3, <2>4
<1>7. ASSUME NEW t \in Turns, NEW o \in {"failed", "cancelled"}, FinishWithout(t, o)
      PROVE  ResponseOrdinalsDense' /\ CutoffIsStored' /\ OnlyPendingFinishes'
  BY <1>7 DEF FinishWithout
<1>8. ASSUME NEW t \in Turns, PrepareRetry(t)
      PROVE  ResponseOrdinalsDense' /\ CutoffIsStored' /\ OnlyPendingFinishes'
  BY <1>8 DEF PrepareRetry
<1>9. CASE UNCHANGED vars  BY <1>9 DEF vars
<1>10. QED
  BY <1>1, <1>2, <1>3, <1>4, <1>5, <1>6, <1>7, <1>8, <1>9 DEF Next, TurnStep

\* What a step may do to the columns a replay reads: keep them, or complete a
\* turn that was not complete under a fresh ordinal.
LEMMA StepKeepsReplies ==
  ASSUME IInv, [Next]_vars
  PROVE  \A u \in Turns :
           /\ status[u] # "absent" => cutoff'[u] = cutoff[u] /\ status'[u] # "absent"
           /\ \/ /\ status'[u] = "completed" <=> status[u] = "completed"
                 /\ response'[u] = response[u]
              \/ /\ status[u] # "completed"
                 /\ response'[u] = nextResponse
<1> USE DEF IInv, TypeOK, OnlyPendingFinishes, Ordinals, Times, Statuses, NoOrdinal, NoTime
<1>1. CASE Tick  BY <1>1 DEF Tick, columns
<1>2. CASE \E t \in Turns : SendMessage(t)  BY <1>2 DEF SendMessage, columns
<1>3. CASE \E t \in Turns : BeginTurn(t)  BY <1>3 DEF BeginTurn, BeginTurnWith
<1>4. CASE \E t \in Turns : AssemblePrompt(t)  BY <1>4 DEF AssemblePrompt, columns
<1>5. CASE \E t \in Turns : StartCompletion(t)  BY <1>5 DEF StartCompletion, columns
<1>6. CASE \E t \in Turns : CommitCompletion(t)  BY <1>6 DEF CommitCompletion, CommitNumbering
<1>7. CASE \E t \in Turns, o \in {"failed", "cancelled"} : FinishWithout(t, o)
  BY <1>7 DEF FinishWithout
<1>8. CASE \E t \in Turns : PrepareRetry(t)  BY <1>8 DEF PrepareRetry
<1>9. CASE UNCHANGED vars  BY <1>9 DEF vars
<1>10. QED
  BY <1>1, <1>2, <1>3, <1>4, <1>5, <1>6, <1>7, <1>8, <1>9 DEF Next, TurnStep

LEMMA ReplayKept ==
  ASSUME IInv, [Next]_vars
  PROVE  \A t \in Turns : status[t] # "absent" => Replay(t)' = Replay(t)
<1>1. TypeOK'  BY TypeStep DEF IInv
<1>2. QED  BY <1>1, ReplayFrozen, StepKeepsReplies

LEMMA PromptStep == ASSUME IInv, [Next]_vars PROVE PromptIsReplay'
<1>1. ASSUME NEW t \in Turns, prompt'[t] # NoPrompt
      PROVE  prompt'[t] = Replay(t)' /\ status'[t] # "absent"
  <2>1. CASE prompt'[t] = prompt[t]
    BY <1>1, <2>1, ReplayKept, StepKeepsReplies DEF IInv, PromptIsReplay
  <2>2. CASE AssemblePrompt(t)
    <3>1. status[t] = "pending" /\ prompt'[t] = Replay(t)
      BY <2>2 DEF AssemblePrompt, IInv, TypeOK
    <3>2. QED  BY <3>1, ReplayKept, StepKeepsReplies
  <2>3. prompt'[t] = prompt[t] \/ AssemblePrompt(t)
    BY DEF IInv, TypeOK, Next, TurnStep, vars, columns, Tick, SendMessage, BeginTurn,
           BeginTurnWith, AssemblePrompt, StartCompletion, CommitCompletion, CommitNumbering,
           FinishWithout, PrepareRetry
  <2>4. QED  BY <2>1, <2>2, <2>3
<1>2. QED  BY <1>1 DEF PromptIsReplay

THEOREM InvariantHolds == Spec => []IInv
<1>1. IInv /\ [Next]_vars => IInv'
  BY TypeStep, OrdinalsStep, PromptStep DEF IInv
<1>2. QED  BY InitInv, <1>1, PTL DEF Spec

-----------------------------------------------------------------------------
(* The theorems a reader of the code should know. *)

\* Type correctness of the columns.
THEOREM TypesHold == Spec => []TypeOK
BY InvariantHolds, PTL DEF IInv

\* Replies are numbered without a gap or a repetition.
THEOREM OrdinalsAreDense == Spec => []ResponseOrdinalsDense
BY InvariantHolds, PTL DEF IInv

\* A retry rebuilds the history of the first attempt.
THEOREM RetryRebuilds == Spec => RetryRebuildsThePrompt
<1>1. IInv /\ [Next]_vars
      => [\A t \in Turns : prompt[t] # NoPrompt => prompt'[t] = prompt[t]]_vars
  <2> SUFFICES ASSUME IInv, [Next]_vars, NEW t \in Turns, prompt[t] # NoPrompt
               PROVE  prompt'[t] = prompt[t]
    OBVIOUS
  <2>1. CASE AssemblePrompt(t)
    BY <2>1 DEF AssemblePrompt, IInv, TypeOK, PromptIsReplay
  <2>2. prompt'[t] = prompt[t] \/ AssemblePrompt(t)
    BY DEF IInv, TypeOK, Next, TurnStep, vars, columns, Tick, SendMessage, BeginTurn,
           BeginTurnWith, AssemblePrompt, StartCompletion, CommitCompletion, CommitNumbering,
           FinishWithout, PrepareRetry
  <2>3. QED  BY <2>1, <2>2
<1>2. QED  BY InvariantHolds, <1>1, PTL DEF Spec, RetryRebuildsThePrompt

\* A turn that has begun answers a message that was sent.
MessageSent == \A t \in Turns : status[t] # "absent" => sentAt[t] # NoTime

LEMMA StepKeepsTimes ==
  ASSUME IInv, MessageSent, [Next]_vars
  PROVE  /\ MessageSent'
         /\ \A t \in Turns : status[t] # "absent" => sentAt'[t] = sentAt[t]
         /\ \A u \in Turns : status[u] = "completed" =>
              /\ status'[u] = "completed"
              /\ response'[u] = response[u]
              /\ completedAt'[u] = completedAt[u]
<1> USE DEF IInv, TypeOK, MessageSent, OnlyPendingFinishes, Ordinals, Times, Statuses,
            NoOrdinal, NoTime
<1>1. CASE Tick  BY <1>1 DEF Tick, columns
<1>2. CASE \E t \in Turns : SendMessage(t)  BY <1>2 DEF SendMessage, columns
<1>3. CASE \E t \in Turns : BeginTurn(t)  BY <1>3 DEF BeginTurn, BeginTurnWith
<1>4. CASE \E t \in Turns : AssemblePrompt(t)  BY <1>4 DEF AssemblePrompt, columns
<1>5. CASE \E t \in Turns : StartCompletion(t)  BY <1>5 DEF StartCompletion, columns
<1>6. CASE \E t \in Turns : CommitCompletion(t)  BY <1>6 DEF CommitCompletion, CommitNumbering
<1>7. CASE \E t \in Turns, o \in {"failed", "cancelled"} : FinishWithout(t, o)
  BY <1>7 DEF FinishWithout
<1>8. CASE \E t \in Turns : PrepareRetry(t)  BY <1>8 DEF PrepareRetry
<1>9. CASE UNCHANGED vars  BY <1>9 DEF vars
<1>10. QED
  BY <1>1, <1>2, <1>3, <1>4, <1>5, <1>6, <1>7, <1>8, <1>9 DEF Next, TurnStep

\* The reply a cutoff names was stored before the user wrote the message.
THEOREM CutoffIsEarlier == Spec => []CutoffNamesAnEarlierReply
<1> DEFINE CInv == IInv /\ MessageSent /\ CutoffNamesAnEarlierReply
<1>1. Init => CInv
  BY InitInv DEF Init, MessageSent, CutoffNamesAnEarlierReply
<1>2. CInv /\ [Next]_vars => CutoffNamesAnEarlierReply'
  <2> SUFFICES ASSUME CInv, [Next]_vars, NEW t \in Turns, cutoff'[t] # NoOrdinal
               PROVE  \E u \in Turns : /\ status'[u] = "completed"
                                       /\ response'[u] = cutoff'[t]
                                       /\ completedAt'[u] <= sentAt'[t]
    BY DEF CutoffNamesAnEarlierReply
  <2>1. CASE BeginTurn(t)
    <3>1. cutoff'[t] \in RepliesBefore(t) /\ sentAt' = sentAt
      BY <2>1 DEF BeginTurn, BeginTurnWith, IInv, TypeOK, IsMaxOf
    <3>2. PICK u \in Turns : /\ status[u] = "completed"
                             /\ completedAt[u] <= sentAt[t]
                             /\ response[u] = cutoff'[t]
      BY <3>1 DEF RepliesBefore
    <3>3. QED  BY <3>1, <3>2, StepKeepsTimes
  <2>2. CASE cutoff'[t] = cutoff[t]
    <3>1. status[t] # "absent"
      BY <2>2 DEF IInv, CutoffIsStored
    <3>2. PICK u \in Turns : /\ status[u] = "completed"
                             /\ response[u] = cutoff[t]
                             /\ completedAt[u] <= sentAt[t]
      BY <2>2 DEF CutoffNamesAnEarlierReply
    <3>3. QED  BY <2>2, <3>1, <3>2, StepKeepsTimes
  <2>3. BeginTurn(t) \/ cutoff'[t] = cutoff[t]
    BY DEF IInv, TypeOK, Next, TurnStep, vars, columns, Tick, SendMessage, BeginTurn,
           BeginTurnWith, AssemblePrompt, StartCompletion, CommitCompletion, CommitNumbering,
           FinishWithout, PrepareRetry
  <2>4. QED  BY <2>1, <2>2, <2>3
<1>3. IInv /\ MessageSent /\ [Next]_vars => MessageSent'
  BY StepKeepsTimes
<1>4. QED  BY InvariantHolds, <1>1, <1>2, <1>3, PTL DEF Spec

-----------------------------------------------------------------------------
(* What a transcript says of a part: its last marker with one of the texts.  *)

Speaks(e, T, k) == IsMarker(e) /\ e.key = k /\ e.text \in T
Silent(s, T, k) == \A i \in DOMAIN s : ~Speaks(s[i], T, k)
Tells(s, T, k, x) ==
  \E i \in DOMAIN s : /\ Speaks(s[i], T, k) /\ s[i].text = x
                      /\ \A j \in DOMAIN s : Speaks(s[j], T, k) => j <= i

LEMMA ItemFacts ==
  /\ \A k, text : Marker(k, text).item = "marker" /\ Marker(k, text).key = k /\ Marker(k, text).text = text
  /\ \A k, text, u : Marker(k, text) # Note(u)
  /\ \A u, t : Message(t) # Note(u)
  /\ \A u, v : Note(u) = Note(v) => u = v
  /\ \A k, text, T : Speaks(Marker(k, text), T, k) <=> text \in T
  /\ \A k, T, u : ~Speaks(Note(u), T, k)
  /\ \A k, T, t : ~Speaks(Message(t), T, k)
  BY DEF Marker, Note, Message, Speaks, IsMarker

LEMMA SilentOrTells ==
  ASSUME NEW s \in Seq(Items), NEW T, NEW k, ~Silent(s, T, k)
  PROVE  \E x \in T : Tells(s, T, k, x)
<1> DEFINE A == {i \in DOMAIN s : Speaks(s[i], T, k)}
<1>1. Len(s) \in Nat /\ A \in SUBSET (1 .. Len(s)) /\ A # {}
  BY DEF Silent
<1>2. PICK i \in A : \A j \in A : j <= i
  <2> HIDE DEF A
  <2> QED BY <1>1, GreatestNumber
<1>3. s[i].text \in T
  BY DEF Speaks
<1>4. Tells(s, T, k, s[i].text)
  BY <1>2 DEF Tells
<1> QED BY <1>3, <1>4

LEMMA TellsOne ==
  ASSUME NEW s \in Seq(Items), NEW T, NEW k, NEW x, NEW y, Tells(s, T, k, x)
  PROVE  /\ Tells(s, T, k, y) => x = y
         /\ ~Silent(s, T, k)
         /\ x \in T
<1>1. PICK i \in DOMAIN s : /\ Speaks(s[i], T, k) /\ s[i].text = x
                            /\ \A j \in DOMAIN s : Speaks(s[j], T, k) => j <= i
  BY DEF Tells
<1>2. ASSUME Tells(s, T, k, y) PROVE x = y
  <2>1. PICK j \in DOMAIN s : /\ Speaks(s[j], T, k) /\ s[j].text = y
                              /\ \A l \in DOMAIN s : Speaks(s[l], T, k) => l <= j
    BY <1>2 DEF Tells
  <2>2. i \in Int /\ j \in Int /\ i <= j /\ j <= i
    BY <1>1, <2>1
  <2> QED BY <1>1, <2>1, <2>2
<1> QED BY <1>1, <1>2 DEF Silent, Speaks

LEMMA LastMarkersTell ==
  ASSUME NEW s \in Seq(Items), NEW T, NEW k \in PartKeys
  PROVE  /\ k \in DOMAIN LastMarkers(s, T) <=> ~Silent(s, T, k)
         /\ k \in DOMAIN LastMarkers(s, T) => Tells(s, T, k, LastMarkers(s, T)[k])
         /\ \A x : Tells(s, T, k, x) => /\ k \in DOMAIN LastMarkers(s, T)
                                        /\ LastMarkers(s, T)[k] = x
<1> DEFINE At(l) == {i \in DOMAIN s : IsMarker(s[i]) /\ s[i].key = l /\ s[i].text \in T}
           Latest(l) == CHOOSE i \in At(l) : \A j \in At(l) : j <= i
<1>1. LastMarkers(s, T) = [l \in {l \in PartKeys : At(l) # {}} |-> s[Latest(l)].text]
  BY DEF LastMarkers
<1>2. \A i \in DOMAIN s : Speaks(s[i], T, k) <=> i \in At(k)
  BY DEF Speaks
<1>3. ASSUME At(k) # {} PROVE Tells(s, T, k, s[Latest(k)].text)
  <2>1. ~Silent(s, T, k)
    BY <1>2, <1>3 DEF Silent
  <2>2. PICK x \in T : Tells(s, T, k, x)
    BY <2>1, SilentOrTells
  <2>3. \E i \in At(k) : \A j \in At(k) : j <= i
    BY <1>2, <2>2 DEF Tells
  <2>4. Latest(k) \in At(k) /\ \A j \in At(k) : j <= Latest(k)
    BY <2>3
  <2> HIDE DEF Latest
  <2> QED BY <1>2, <2>4 DEF Tells
<1>4. At(k) # {} <=> ~Silent(s, T, k)
  BY <1>2 DEF Silent
<1>5. k \in DOMAIN LastMarkers(s, T) <=> At(k) # {}
  BY <1>1
<1>6. At(k) # {} => LastMarkers(s, T)[k] = s[Latest(k)].text
  BY <1>1
<1> HIDE DEF At, Latest
<1> QED BY <1>3, <1>4, <1>5, <1>6, TellsOne

\* What is said last counts.
LEMMA ConcatTells ==
  ASSUME NEW s \in Seq(Items), NEW t \in Seq(Items), NEW T, NEW k
  PROVE  /\ Silent(s \o t, T, k) <=> Silent(s, T, k) /\ Silent(t, T, k)
         /\ \A x : Tells(t, T, k, x) => Tells(s \o t, T, k, x)
         /\ \A x : Tells(s, T, k, x) /\ Silent(t, T, k) => Tells(s \o t, T, k, x)
<1>1. /\ Len(s) \in Nat /\ Len(t) \in Nat
      /\ DOMAIN (s \o t) = 1 .. Len(s) + Len(t)
      /\ DOMAIN s = 1 .. Len(s) /\ DOMAIN t = 1 .. Len(t)
      /\ \A i \in 1 .. Len(s) : (s \o t)[i] = s[i]
      /\ \A i \in 1 .. Len(t) : (s \o t)[i + Len(s)] = t[i]
      /\ \A i \in 1 .. Len(s) + Len(t) : i \in 1 .. Len(s) \/ \E j \in 1 .. Len(t) : i = j + Len(s)
  <2>1. ASSUME NEW i \in 1 .. Len(s) + Len(t), i \notin 1 .. Len(s)
        PROVE  \E j \in 1 .. Len(t) : i = j + Len(s)
    <3>1. i - Len(s) \in 1 .. Len(t) /\ i = i - Len(s) + Len(s)
      BY <2>1
    <3> QED BY <3>1
  <2> QED BY <2>1, ConcatProperties, LenProperties
<1>2. Silent(s \o t, T, k) <=> Silent(s, T, k) /\ Silent(t, T, k)
  <2>1. ASSUME Silent(s \o t, T, k) PROVE Silent(s, T, k) /\ Silent(t, T, k)
    <3>1. ASSUME NEW i \in DOMAIN s PROVE ~Speaks(s[i], T, k)
      <4>1. i \in DOMAIN (s \o t) /\ (s \o t)[i] = s[i]
        BY <1>1
      <4> QED BY <2>1, <4>1 DEF Silent
    <3>2. ASSUME NEW i \in DOMAIN t PROVE ~Speaks(t[i], T, k)
      <4>1. i + Len(s) \in DOMAIN (s \o t) /\ (s \o t)[i + Len(s)] = t[i]
        BY <1>1
      <4> QED BY <2>1, <4>1 DEF Silent
    <3> QED BY <3>1, <3>2 DEF Silent
  <2>2. ASSUME Silent(s, T, k), Silent(t, T, k) PROVE Silent(s \o t, T, k)
    BY <1>1, <2>2 DEF Silent
  <2> QED BY <2>1, <2>2
<1>3. ASSUME NEW x, Tells(t, T, k, x) PROVE Tells(s \o t, T, k, x)
  <2>1. PICK i \in DOMAIN t : /\ Speaks(t[i], T, k) /\ t[i].text = x
                              /\ \A j \in DOMAIN t : Speaks(t[j], T, k) => j <= i
    BY <1>3 DEF Tells
  <2>2. i + Len(s) \in DOMAIN (s \o t) /\ (s \o t)[i + Len(s)] = t[i]
    BY <1>1
  <2>3. ASSUME NEW l \in DOMAIN (s \o t), Speaks((s \o t)[l], T, k) PROVE l <= i + Len(s)
    <3>1. CASE l \in 1 .. Len(s)
      BY <1>1, <3>1
    <3>2. ASSUME NEW j \in 1 .. Len(t), l = j + Len(s) PROVE l <= i + Len(s)
      <4>1. j <= i
        BY <1>1, <2>1, <2>3, <3>2
      <4> QED BY <1>1, <3>2, <4>1
    <3> QED BY <1>1, <3>1, <3>2
  <2> QED BY <2>1, <2>2, <2>3 DEF Tells
<1>4. ASSUME NEW x, Tells(s, T, k, x), Silent(t, T, k) PROVE Tells(s \o t, T, k, x)
  <2>1. PICK i \in DOMAIN s : /\ Speaks(s[i], T, k) /\ s[i].text = x
                              /\ \A j \in DOMAIN s : Speaks(s[j], T, k) => j <= i
    BY <1>4 DEF Tells
  <2>2. i \in DOMAIN (s \o t) /\ (s \o t)[i] = s[i]
    BY <1>1
  <2>3. ASSUME NEW l \in DOMAIN (s \o t), Speaks((s \o t)[l], T, k) PROVE l <= i
    <3>1. CASE l \in 1 .. Len(s)
      BY <1>1, <2>1, <2>3, <3>1
    <3>2. ASSUME NEW j \in 1 .. Len(t), l = j + Len(s) PROVE FALSE
      BY <1>1, <1>4, <2>3, <3>2 DEF Silent
    <3> QED BY <1>1, <3>1, <3>2
  <2> QED BY <2>1, <2>2, <2>3 DEF Tells
<1> QED BY <1>2, <1>3, <1>4

-----------------------------------------------------------------------------
(* The markers of a change, and the items of a turn's context.             *)

LEMMA StateTypes ==
  ASSUME NEW st \in States
  PROVE  /\ DOMAIN st \subseteq PartKeys
         /\ \A k \in DOMAIN st : st[k] \in Texts
         /\ st = [k \in DOMAIN st |-> st[k]]
  BY DEF States

LEMMA StateIntro ==
  ASSUME NEW K \in SUBSET PartKeys, NEW st \in [K -> Texts]
  PROVE  st \in States
  BY DEF States

LEMMA KeysAreParts ==
  /\ Len(Keys) \in Nat /\ DOMAIN Keys = 1 .. Len(Keys)
  /\ \A i \in 1 .. Len(Keys) : Keys[i] \in PartKeys
  /\ \A k \in PartKeys : \E i \in 1 .. Len(Keys) : Keys[i] = k
<1>1. Len(Keys) \in Nat /\ DOMAIN Keys = 1 .. Len(Keys)
  BY KeysAssumption
<1> QED BY <1>1 DEF PartKeys, ToSet

\* A marker for each changed part, and nothing else.
LEMMA MarkerElements ==
  ASSUME NEW old \in States, NEW new \in States
  PROVE  /\ Markers(old, new) \in Seq(Items)
         /\ \A x : x \in ToSet(Markers(old, new))
                     <=> \E k \in ChangedParts(old, new) : x = Marker(k, new[k])
<1> DEFINE e(i) == IF Keys[i] \in ChangedParts(old, new)
                     THEN <<Marker(Keys[i], new[Keys[i]])>> ELSE <<>>
           n == Len(Keys)
           ss == [i \in 1 .. n |-> e(i)]
<1>1. ChangedParts(old, new) \subseteq DOMAIN new /\ DOMAIN new \subseteq PartKeys
      /\ \A k \in DOMAIN new : new[k] \in Texts
  BY StateTypes DEF ChangedParts
<1>2. \A k \in ChangedParts(old, new) : Marker(k, new[k]) \in Items
  BY <1>1 DEF Items
<1>3. \A i \in 1 .. n : ss[i] = e(i) /\ e(i) \in Seq(Items)
  <2> SUFFICES ASSUME NEW i \in 1 .. n PROVE e(i) \in Seq(Items)
    OBVIOUS
  <2>1. CASE Keys[i] \in ChangedParts(old, new)
    BY <1>2, <2>1
  <2>2. CASE Keys[i] \notin ChangedParts(old, new)
    BY <2>2
  <2> QED BY <2>1, <2>2
<1>4. Markers(old, new) = FlattenSeq(Prefix(ss, n))
  <2>1. Markers(old, new) = FlattenSeq(ss)
    BY KeysAreParts DEF Markers
  <2>2. Prefix(ss, n) = ss
    BY DEF Prefix
  <2> QED BY <2>1, <2>2
<1>5. n \in Nat /\ n \in 0 .. n
  BY KeysAreParts
<1>6. \A i \in 1 .. n : ss[i] \in Seq(Items)
  BY <1>3
<1>7. ASSUME NEW x
      PROVE  (\E i \in 1 .. n : x \in ToSet(ss[i]))
               <=> \E k \in ChangedParts(old, new) : x = Marker(k, new[k])
  <2>1. ASSUME NEW i \in 1 .. n, Keys[i] \in ChangedParts(old, new)
        PROVE  x \in ToSet(ss[i]) <=> x = Marker(Keys[i], new[Keys[i]])
    <3>1. ss[i] = <<Marker(Keys[i], new[Keys[i]])>>
      BY <2>1
    <3> HIDE DEF ss
    <3> QED BY <3>1 DEF ToSet
  <2>2. ASSUME NEW i \in 1 .. n, Keys[i] \notin ChangedParts(old, new)
        PROVE  x \notin ToSet(ss[i])
    <3>1. ss[i] = << >>
      BY <2>2
    <3> HIDE DEF ss
    <3> QED BY <3>1 DEF ToSet
  <2> HIDE DEF ss, n
  <2>3. \A k \in ChangedParts(old, new) : \E i \in 1 .. n : Keys[i] = k
    BY <1>1, KeysAreParts DEF n
  <2> QED BY <2>1, <2>2, <2>3
<1> HIDE DEF ss, n
<1>8. FlattenSeq(Prefix(ss, n)) \in Seq(Items)
  BY <1>5, <1>6, FlattenType
<1>9. \A x : x \in ToSet(FlattenSeq(Prefix(ss, n))) <=> \E i \in 1 .. n : x \in ToSet(ss[i])
  BY <1>5, <1>6, FlattenElements
<1> QED BY <1>4, <1>7, <1>8, <1>9

\* So a marker tells each changed part, in the new text.
LEMMA MarkersTell ==
  ASSUME NEW old \in States, NEW new \in States, NEW T, NEW k
  PROVE  /\ k \in ChangedParts(old, new) /\ new[k] \in T => Tells(Markers(old, new), T, k, new[k])
         /\ k \notin ChangedParts(old, new) \/ new[k] \notin T => Silent(Markers(old, new), T, k)
<1> DEFINE m == Markers(old, new)
<1>1. m \in Seq(Items)
  BY MarkerElements
<1>2. \A i \in DOMAIN m : \E l \in ChangedParts(old, new) : m[i] = Marker(l, new[l])
  <2>1. \A i \in DOMAIN m : m[i] \in ToSet(m)
    BY DEF ToSet
  <2> QED BY <2>1, MarkerElements
<1>3. \A l \in ChangedParts(old, new) : \E i \in DOMAIN m : m[i] = Marker(l, new[l])
  <2>1. \A l \in ChangedParts(old, new) : Marker(l, new[l]) \in ToSet(m)
    BY MarkerElements
  <2> QED BY <2>1 DEF ToSet
<1>4. \A i \in DOMAIN m : Speaks(m[i], T, k) => /\ k \in ChangedParts(old, new)
                                                /\ new[k] \in T /\ m[i].text = new[k]
  BY <1>2, ItemFacts DEF Speaks
<1> HIDE DEF m
<1>5. ASSUME k \in ChangedParts(old, new), new[k] \in T PROVE Tells(m, T, k, new[k])
  <2>1. ~Silent(m, T, k)
    BY <1>3, <1>5, ItemFacts DEF Silent
  <2>2. PICK x \in T : Tells(m, T, k, x)
    BY <1>1, <2>1, SilentOrTells
  <2>3. x = new[k]
    BY <1>4, <2>2 DEF Tells
  <2> QED BY <2>2, <2>3
<1>6. ASSUME k \notin ChangedParts(old, new) \/ new[k] \notin T PROVE Silent(m, T, k)
  BY <1>4, <1>6 DEF Silent
<1> QED BY <1>5, <1>6 DEF m

LEMMA SetSequence ==
  ASSUME NEW N, IsFiniteSet(N)
  PROVE  /\ Cardinality(N) \in Nat
         /\ SetToSeq(N) \in [1 .. Cardinality(N) -> N]
         /\ \A x \in N : \E i \in 1 .. Cardinality(N) : SetToSeq(N)[i] = x
         /\ \A i, j \in 1 .. Cardinality(N) : SetToSeq(N)[i] = SetToSeq(N)[j] => i = j
<1> DEFINE n == Cardinality(N)
           f == SetToSeq(N)
<1>1. n \in Nat /\ \E g : g \in Bijection(1 .. n, N)
  BY FS_CardinalityType DEF ExistsBijection
<1>2. f \in [1 .. n -> N] /\ IsInjective(f)
  <2>1. \E g \in [1 .. n -> N] : IsInjective(g)
    BY <1>1 DEF Bijection, Injection
  <2> QED BY <2>1 DEF SetToSeq
<1>3. f \in Surjection(1 .. n, N)
  <2>1. f \in Injection(1 .. n, N)
    BY <1>2 DEF Injection
  <2>2. Cardinality(1 .. n) = n
    <3>1. 1 \in Int /\ n \in Int
      BY <1>1
    <3>2. Cardinality(1 .. n) = IF 1 > n THEN 0 ELSE n - 1 + 1
      BY ONLY <3>1, FS_Interval
    <3> QED BY <1>1, <3>2
  <2> HIDE DEF n, f
  <2> QED BY <2>1, <2>2, FS_Injection DEF n
<1> QED BY <1>1, <1>2, <1>3 DEF Surjection, IsInjective

LEMMA NoteSequence ==
  ASSUME NEW S \in SUBSET Users, IsFiniteSet(S)
  PROVE  /\ NotesOf(S) \in Seq(Items)
         /\ \A i \in DOMAIN NotesOf(S) : \E u \in S : NotesOf(S)[i] = Note(u)
         /\ \A u \in S : \E i \in DOMAIN NotesOf(S) : NotesOf(S)[i] = Note(u)
         /\ \A i, j \in DOMAIN NotesOf(S) : NotesOf(S)[i] = NotesOf(S)[j] => i = j
<1> DEFINE N == {Note(u) : u \in S}
<1>1. IsFiniteSet(N)
  <2> DEFINE f == [u \in S |-> Note(u)]
  <2>1. f \in Surjection(S, N)
    BY DEF Surjection
  <2> HIDE DEF f, N
  <2> QED BY <2>1, FS_Surjection
<1>2. N \subseteq Items
  BY DEF Items
<1>3. NotesOf(S) = SetToSeq(N)
  BY DEF NotesOf
<1>4. \A x \in N : \E u \in S : x = Note(u)
  OBVIOUS
<1>5. \A u \in S : Note(u) \in N
  OBVIOUS
<1> DEFINE n == Cardinality(N)
           f == NotesOf(S)
<1> HIDE DEF N
<1>6. /\ n \in Nat /\ f \in [1 .. n -> N]
      /\ \A x \in N : \E i \in 1 .. n : f[i] = x
      /\ \A i, j \in 1 .. n : f[i] = f[j] => i = j
  BY <1>1, <1>3, SetSequence
<1> HIDE DEF n, f
<1>7. f \in [1 .. n -> Items]
  BY <1>2, <1>6
<1>8. f \in Seq(Items) /\ DOMAIN f = 1 .. n
  BY <1>6, <1>7
<1>9. \A i \in DOMAIN f : \E u \in S : f[i] = Note(u)
  BY <1>4, <1>6
<1>10. \A u \in S : \E i \in DOMAIN f : f[i] = Note(u)
  BY <1>5, <1>6
<1> QED BY <1>6, <1>8, <1>9, <1>10 DEF f

\* The items of a turn are its notes, each once, and its message: they say nothing of a part.
LEMMA ContextElements ==
  ASSUME NEW t \in Turns, NEW S \in SUBSET Users, IsFiniteSet(S)
  PROVE  /\ ContextItems(t, S) \in Seq(Items)
         /\ \A T, k : Silent(ContextItems(t, S), T, k)
         /\ \A u \in Users : u \in S <=> \E i \in DOMAIN ContextItems(t, S) : ContextItems(t, S)[i] = Note(u)
         /\ \A u \in Users : \A i, j \in DOMAIN ContextItems(t, S) :
              ContextItems(t, S)[i] = Note(u) /\ ContextItems(t, S)[j] = Note(u) => i = j
<1> DEFINE notes == NotesOf(S)
           items == notes \o <<Message(t)>>
<1>1. notes \in Seq(Items) /\ <<Message(t)>> \in Seq(Items) /\ Len(notes) \in Nat
      /\ DOMAIN notes = 1 .. Len(notes)
  <2>1. notes \in Seq(Items)
    BY NoteSequence
  <2>2. Message(t) \in Items
    BY DEF Items
  <2> HIDE DEF notes
  <2> QED BY <2>1, <2>2
<1>2. /\ items \in Seq(Items)
      /\ DOMAIN items = 1 .. Len(notes) + 1
      /\ \A i \in DOMAIN notes : items[i] = notes[i]
      /\ items[Len(notes) + 1] = Message(t)
      /\ \A i \in DOMAIN items : i \in DOMAIN notes \/ i = Len(notes) + 1
      /\ \A i \in DOMAIN notes : i \in DOMAIN items
  <2> HIDE DEF notes
  <2> QED BY <1>1
<1>3. \A i \in DOMAIN items : (\E u \in S : items[i] = Note(u)) \/ items[i] = Message(t)
  BY <1>2, NoteSequence
<1>4. \A u \in S : \E i \in DOMAIN items : items[i] = Note(u)
  BY <1>2, NoteSequence
<1>5. ASSUME NEW u \in Users, NEW i \in DOMAIN items, NEW j \in DOMAIN items,
             items[i] = Note(u), items[j] = Note(u)
      PROVE  i = j
  <2>1. i \in DOMAIN notes /\ j \in DOMAIN notes
    BY <1>2, <1>5, ItemFacts
  <2> QED BY <1>2, <1>5, <2>1, NoteSequence
<1>6. ContextItems(t, S) = items
  BY DEF ContextItems
<1> HIDE DEF notes, items
<1>7. \A T, k : Silent(items, T, k)
  BY <1>3, ItemFacts DEF Silent
<1>8. \A u \in Users : (\E i \in DOMAIN items : items[i] = Note(u)) => u \in S
  BY <1>3, ItemFacts
<1> QED BY <1>2, <1>4, <1>5, <1>6, <1>7, <1>8

-----------------------------------------------------------------------------
(* Where notes are. *)

PlacesOf(u, input) == {i \in DOMAIN input : input[i] = Note(u)}
AtMostOnce(u, input) == \A i, j \in PlacesOf(u, input) : i = j

LEMMA ConcatNotes ==
  ASSUME NEW s \in Seq(Items), NEW t \in Seq(Items), NEW u
  PROVE  /\ PlacesOf(u, s \o t) # {} <=> PlacesOf(u, s) # {} \/ PlacesOf(u, t) # {}
         /\ AtMostOnce(u, s) /\ AtMostOnce(u, t) /\ (PlacesOf(u, s) = {} \/ PlacesOf(u, t) = {})
              => AtMostOnce(u, s \o t)
<1>1. /\ Len(s) \in Nat /\ Len(t) \in Nat
      /\ DOMAIN (s \o t) = 1 .. Len(s) + Len(t)
      /\ DOMAIN s = 1 .. Len(s) /\ DOMAIN t = 1 .. Len(t)
      /\ \A i \in 1 .. Len(s) + Len(t) :
           (s \o t)[i] = IF i <= Len(s) THEN s[i] ELSE t[i - Len(s)]
  BY ConcatProperties, LenProperties
<1>2. \A v : PlacesOf(v, s) # {} <=> Note(v) \in ToSet(s)
  BY DEF PlacesOf, ToSet
<1>3. PlacesOf(u, t) # {} <=> Note(u) \in ToSet(t)
  BY DEF PlacesOf, ToSet
<1>4. PlacesOf(u, s \o t) # {} <=> Note(u) \in ToSet(s \o t)
  BY DEF PlacesOf, ToSet
<1>5. ASSUME NEW i \in PlacesOf(u, s \o t)
      PROVE  \/ i \in PlacesOf(u, s)
             \/ i > Len(s) /\ i \in Int /\ i - Len(s) \in PlacesOf(u, t)
  <2>1. CASE i <= Len(s)
    BY <1>1, <2>1 DEF PlacesOf
  <2>2. CASE i > Len(s)
    <3>1. i - Len(s) \in DOMAIN t /\ (s \o t)[i] = t[i - Len(s)]
      BY <1>1, <2>2 DEF PlacesOf
    <3> QED BY <1>1, <2>2, <3>1 DEF PlacesOf
  <2> QED BY <1>1, <2>1, <2>2 DEF PlacesOf
<1>6. ASSUME AtMostOnce(u, s), AtMostOnce(u, t), PlacesOf(u, s) = {} \/ PlacesOf(u, t) = {},
             NEW i \in PlacesOf(u, s \o t), NEW j \in PlacesOf(u, s \o t)
      PROVE  i = j
  <2>1. CASE PlacesOf(u, s) = {}
    <3>1. /\ i \in Int /\ i - Len(s) \in PlacesOf(u, t)
          /\ j \in Int /\ j - Len(s) \in PlacesOf(u, t)
      BY <1>5, <2>1
    <3>2. i - Len(s) = j - Len(s)
      BY <1>6, <3>1 DEF AtMostOnce
    <3> QED BY <1>1, <3>1, <3>2
  <2>2. CASE PlacesOf(u, t) = {}
    BY <1>5, <1>6, <2>2 DEF AtMostOnce
  <2> QED BY <1>6, <2>1, <2>2
<1> QED BY <1>2, <1>3, <1>4, <1>6, ConcatElements DEF AtMostOnce

LEMMA MarkersNoteNobody ==
  ASSUME NEW old \in States, NEW new \in States, NEW u
  PROVE  PlacesOf(u, Markers(old, new)) = {}
<1>1. \A i \in DOMAIN Markers(old, new) : Markers(old, new)[i] \in ToSet(Markers(old, new))
  BY DEF ToSet
<1> QED BY <1>1, MarkerElements, ItemFacts DEF PlacesOf

LEMMA ContextNotes ==
  ASSUME NEW t \in Turns, NEW S \in SUBSET Users, IsFiniteSet(S), NEW u \in Users
  PROVE  /\ PlacesOf(u, ContextItems(t, S)) # {} <=> u \in S
         /\ AtMostOnce(u, ContextItems(t, S))
  BY ContextElements DEF PlacesOf, AtMostOnce

-----------------------------------------------------------------------------
(* Prefixes. *)

LEMMA PrefixPointwise ==
  ASSUME NEW s \in Seq(Items), NEW t \in Seq(Items)
  PROVE  IsPrefix(s, t) <=> Len(s) <= Len(t) /\ \A i \in 1 .. Len(s) : s[i] = t[i]
<1>1. Len(s) \in Nat /\ Len(t) \in Nat /\ DOMAIN s = 1 .. Len(s) /\ DOMAIN t = 1 .. Len(t)
  OBVIOUS
<1>2. SubSeq(s, 1, Len(s)) = s
  OBVIOUS
<1>3. ASSUME Len(s) <= Len(t)
      PROVE  /\ SubSeq(t, 1, Len(s)) \in Seq(Items) /\ Len(SubSeq(t, 1, Len(s))) = Len(s)
             /\ \A i \in 1 .. Len(s) : SubSeq(t, 1, Len(s))[i] = t[i]
  BY <1>1, <1>3
<1>4. ASSUME Len(s) <= Len(t), \A i \in 1 .. Len(s) : s[i] = t[i]
      PROVE  SubSeq(t, 1, Len(s)) = s
  <2> DEFINE r == SubSeq(t, 1, Len(s))
  <2>1. r \in Seq(Items) /\ Len(r) = Len(s) /\ \A i \in 1 .. Len(s) : r[i] = s[i]
    BY <1>3, <1>4
  <2> HIDE DEF r
  <2>2. r = s
    BY <2>1, SeqEqual
  <2> QED BY <2>2 DEF r
<1> QED BY <1>2, <1>3, <1>4 DEF IsPrefix

LEMMA PrefixOfConcat ==
  ASSUME NEW s \in Seq(Items), NEW t \in Seq(Items)
  PROVE  IsPrefix(s, s \o t)
<1>1. s \o t \in Seq(Items) /\ Len(s) <= Len(s \o t) /\ \A i \in 1 .. Len(s) : s[i] = (s \o t)[i]
  BY ConcatProperties
<1> QED BY <1>1, PrefixPointwise

LEMMA PrefixTransitive ==
  ASSUME NEW r \in Seq(Items), NEW s \in Seq(Items), NEW t \in Seq(Items),
         IsPrefix(r, s), IsPrefix(s, t)
  PROVE  IsPrefix(r, t)
<1>1. Len(r) \in Nat /\ Len(s) \in Nat /\ Len(t) \in Nat
  OBVIOUS
<1> QED BY <1>1, PrefixPointwise

-----------------------------------------------------------------------------
(* The orders of the turns, and where a turn is in its life. *)

Orders ==
  /\ \A t \in Turns : /\ ordinal[t] = NoOrdinal <=> status[t] = "absent"
                      /\ ordinal[t] < nextTurn
                      /\ status[t] = "completed" => cutoff[t] < response[t]
  /\ \A t, u \in Turns : ordinal[t] = ordinal[u] /\ ordinal[t] # NoOrdinal => t = u

Lifecycle ==
  \A t \in Turns :
    /\ t \in unsaved => t \in ready /\ status[t] = "pending" /\ finishing[t] = NoTime
    /\ t \in ready => t \in stored \cup unsaved
    /\ finishing[t] # NoTime => t \in stored /\ t \in ready
    /\ status[t] \in {"completed", "failed", "cancelled"} => t \in stored
    /\ prompt[t] = NoPrompt <=> t \notin stored \cup unsaved
    /\ t \in stored => context[t] = draft[t].notes
    /\ t \notin stored => context[t] = {} /\ saved[t] = NoState
    /\ IsFiniteSet(draft[t].notes)

LEMMA OrdersStep ==
  ASSUME IInv, IInv', Orders, [Next]_vars
  PROVE  Orders'
<1>0. TypeOK /\ TypeOK' /\ CutoffIsStored
  BY DEF IInv
<1> USE DEF TypeOK, Orders, Ordinals, Times, Statuses, NoOrdinal, NoTime
<1>1. CASE Tick  BY <1>0, <1>1 DEF Tick, columns
<1>2. ASSUME NEW t \in Turns, SendMessage(t) PROVE Orders'
  BY <1>0, <1>2 DEF SendMessage, columns
<1>3. ASSUME NEW t \in Turns, BeginTurn(t) PROVE Orders'
  BY <1>0, <1>3 DEF BeginTurn, BeginTurnWith
<1>4. ASSUME NEW t \in Turns, AssemblePrompt(t) PROVE Orders'
  BY <1>0, <1>4 DEF AssemblePrompt, columns
<1>5. ASSUME NEW t \in Turns, StartCompletion(t) PROVE Orders'
  BY <1>0, <1>5 DEF StartCompletion, columns
<1>6. ASSUME NEW t \in Turns, CommitCompletion(t) PROVE Orders'
  <2>1. status[t] = "pending"
    BY <1>6 DEF IInv, OnlyPendingFinishes, CommitCompletion, CommitNumbering
  <2> QED BY <1>0, <1>6, <2>1 DEF CommitCompletion, CommitNumbering, CutoffIsStored
<1>7. ASSUME NEW t \in Turns, NEW o \in {"failed", "cancelled"}, FinishWithout(t, o) PROVE Orders'
  BY <1>0, <1>7 DEF FinishWithout
<1>8. ASSUME NEW t \in Turns, PrepareRetry(t) PROVE Orders'
  BY <1>0, <1>8 DEF PrepareRetry
<1>9. CASE UNCHANGED vars  BY <1>9 DEF vars
<1> QED
  BY <1>1, <1>2, <1>3, <1>4, <1>5, <1>6, <1>7, <1>8, <1>9 DEF Next, TurnStep

\* Every step of the inputs is a step of the turns or none.
LEMMA InputRefines == [InputNext]_allVars => [Next]_vars
<1>1. \A t \in Turns : AssembleInput(t) \/ AssembleRetry(t) => AssemblePrompt(t)
  BY DEF AssembleInput, AssembleRetry, AssembleWith
<1>2. \A t \in Turns : SaveTurnInput(t) => UNCHANGED vars
  BY DEF SaveTurnInput
<1>3. \A t \in Turns : Run(t) => StartCompletion(t) \/ FinishWithout(t, "failed") \/ FinishWithout(t, "cancelled")
  BY DEF Run
<1>4. UNCHANGED allVars => UNCHANGED vars
  BY DEF allVars
<1> QED BY <1>1, <1>2, <1>3, <1>4 DEF InputNext, InputStep, Untouched, Next, TurnStep

\* A turn's replies were numbered before it began, by turns that began before.
RepliesPrecede ==
  \A t, u \in Turns :
    status[u] = "completed" /\ response[u] <= cutoff[t] => ordinal[u] < ordinal[t]

LEMMA RepliesPrecedeStep ==
  ASSUME IInv, IInv', Orders, Orders', RepliesPrecede, [Next]_vars
  PROVE  RepliesPrecede'
<1>0. TypeOK /\ TypeOK' /\ CutoffIsStored /\ OnlyPendingFinishes /\ ResponseOrdinalsDense
  BY DEF IInv
<1> USE DEF TypeOK, RepliesPrecede, Orders, Ordinals, Times, Statuses, NoOrdinal, NoTime
<1>1. CASE Tick  BY <1>0, <1>1 DEF Tick, columns
<1>2. ASSUME NEW t \in Turns, SendMessage(t) PROVE RepliesPrecede'
  BY <1>0, <1>2 DEF SendMessage, columns
<1>3. ASSUME NEW t \in Turns, BeginTurn(t) PROVE RepliesPrecede'
  BY <1>0, <1>3 DEF BeginTurn, BeginTurnWith
<1>4. ASSUME NEW t \in Turns, AssemblePrompt(t) PROVE RepliesPrecede'
  BY <1>0, <1>4 DEF AssemblePrompt, columns
<1>5. ASSUME NEW t \in Turns, StartCompletion(t) PROVE RepliesPrecede'
  BY <1>0, <1>5 DEF StartCompletion, columns
<1>6. ASSUME NEW t \in Turns, CommitCompletion(t) PROVE RepliesPrecede'
  BY <1>0, <1>6 DEF CommitCompletion, CommitNumbering, CutoffIsStored
<1>7. ASSUME NEW t \in Turns, NEW o \in {"failed", "cancelled"}, FinishWithout(t, o)
      PROVE  RepliesPrecede'
  BY <1>0, <1>7 DEF FinishWithout
<1>8. ASSUME NEW t \in Turns, PrepareRetry(t) PROVE RepliesPrecede'
  BY <1>0, <1>8 DEF PrepareRetry
<1>9. CASE UNCHANGED vars  BY <1>9 DEF vars
<1> QED
  BY <1>1, <1>2, <1>3, <1>4, <1>5, <1>6, <1>7, <1>8, <1>9 DEF Next, TurnStep

\* The attempts have the shape of functions.
Shape ==
  /\ draft = [t \in Turns |-> draft[t]]
  /\ saved = [t \in Turns |-> saved[t]]
  /\ context = [t \in Turns |-> context[t]]
  /\ unsaved \subseteq Turns
  /\ stored \subseteq Turns

LEMMA ShapeStep == ASSUME Shape, [InputNext]_allVars PROVE Shape'
<1>1. UNCHANGED inputVars => Shape'
  BY DEF Shape, inputVars
<1>2. ASSUME NEW t \in Turns, AssembleInput(t) \/ AssembleRetry(t) PROVE Shape'
  BY <1>2 DEF Shape, AssembleInput, AssembleRetry, AssembleWith
<1>3. ASSUME NEW t \in Turns, SaveTurnInput(t) PROVE Shape'
  BY <1>3 DEF Shape, SaveTurnInput
<1> QED BY <1>1, <1>2, <1>3 DEF InputNext, InputStep, Untouched, allVars

LEMMA NoPromptIsNoSet == \A t \in Turns : Replay(t) # NoPrompt
<1>1. \A t \in Turns : Replay(t) \in SUBSET Turns
  BY DEF Replay
<1> QED BY <1>1, NoPromptAssumption

\* The steps of a turn's life that touch no input.
LEMMA LifecycleOutside ==
  ASSUME IInv, Shape, Lifecycle, UNCHANGED inputVars,
         Tick \/ \E t \in Turns : \/ SendMessage(t) \/ BeginTurn(t) \/ Run(t)
                                  \/ CommitCompletion(t) \/ PrepareRetry(t)
  PROVE  Lifecycle'
<1>0. TypeOK /\ OnlyPendingFinishes /\ PromptIsReplay
  BY DEF IInv
<1> USE <1>0 DEF TypeOK, Lifecycle, Shape, Statuses, Times, Ordinals, NoTime, NoOrdinal, inputVars
<1>1. CASE Tick  BY <1>1 DEF Tick, columns
<1>2. ASSUME NEW t \in Turns, SendMessage(t) PROVE Lifecycle'
  BY <1>2 DEF SendMessage, columns
<1>3. ASSUME NEW t \in Turns, BeginTurn(t) PROVE Lifecycle'
  BY <1>3 DEF BeginTurn, BeginTurnWith
<1>4. ASSUME NEW t \in Turns, Run(t) PROVE Lifecycle'
  BY <1>4 DEF Run, StartCompletion, FinishWithout, columns
<1>5. ASSUME NEW t \in Turns, CommitCompletion(t) PROVE Lifecycle'
  BY <1>5 DEF CommitCompletion, CommitNumbering
<1>6. ASSUME NEW t \in Turns, PrepareRetry(t) PROVE Lifecycle'
  BY <1>6 DEF PrepareRetry, OnlyPendingFinishes
<1> QED BY <1>1, <1>2, <1>3, <1>4, <1>5, <1>6

\* Notes are of people of the message, or those noted before.
LEMMA AttemptNotes ==
  ASSUME Lifecycle, NEW t \in Turns
  PROVE  /\ IsFiniteSet(NewNotes(t))
         /\ t \in stored => IsFiniteSet(context[t])
<1>1. IsFiniteSet(NewNotes(t))
  BY PeopleAssumption, FS_Subset DEF NewNotes
<1> QED BY <1>1 DEF Lifecycle

LEMMA LifecycleAssembled ==
  ASSUME IInv, Shape, Lifecycle, NEW t \in Turns, AssembleInput(t) \/ AssembleRetry(t)
  PROVE  Lifecycle'
<1>1. PICK parts, notes :
        /\ draft' = [draft EXCEPT ![t] = [parts |-> parts, notes |-> notes,
                                          input |-> Transcript(t, parts, notes)]]
        /\ IsFiniteSet(notes)
        /\ t \in stored => notes = context[t]
  <2>1. CASE AssembleInput(t)
    BY <2>1, AttemptNotes DEF AssembleInput, AssembleWith
  <2>2. CASE AssembleRetry(t)
    BY <2>2, AttemptNotes DEF AssembleRetry, AssembleWith
  <2> QED BY <2>1, <2>2
<1>2. /\ AssemblePrompt(t)
      /\ unsaved' = unsaved \cup {t}
      /\ UNCHANGED <<stored, saved, context>>
  BY DEF AssembleInput, AssembleRetry, AssembleWith
<1>3. draft'[t].notes = notes /\ \A u \in Turns : u # t => draft'[u] = draft[u]
  BY <1>1 DEF Shape
<1>4. status[t] = "pending" /\ t \notin ready /\ prompt'[t] = Replay(t) /\ Replay(t) # NoPrompt
  BY <1>2, NoPromptIsNoSet DEF AssemblePrompt, IInv, TypeOK
<1>5. finishing[t] = NoTime
  BY <1>4 DEF Lifecycle
<1> QED BY <1>1, <1>2, <1>3, <1>4, <1>5 DEF AssemblePrompt, Lifecycle, IInv, TypeOK, columns

LEMMA LifecycleSaved ==
  ASSUME IInv, Shape, Lifecycle, NEW t \in Turns, SaveTurnInput(t)
  PROVE  Lifecycle'
<1>1. /\ t \in unsaved /\ unsaved' = unsaved \ {t} /\ stored' = stored \cup {t}
      /\ context' = [context EXCEPT ![t] = draft[t].notes]
      /\ \A u \in Turns : u # t => saved'[u] = saved[u]
      /\ UNCHANGED <<status, finishing, prompt, ready, draft>>
  BY DEF SaveTurnInput, vars, Shape
<1> QED BY <1>1 DEF Lifecycle, Shape

LEMMA LifecycleStep ==
  ASSUME IInv, Shape, Lifecycle, [InputNext]_allVars
  PROVE  Lifecycle'
<1>1. CASE UNCHANGED allVars
  BY <1>1 DEF allVars, vars, inputVars, Lifecycle
<1>2. CASE \E t \in Turns : AssembleInput(t) \/ AssembleRetry(t)
  BY <1>2, LifecycleAssembled
<1>3. CASE \E t \in Turns : SaveTurnInput(t)
  BY <1>3, LifecycleSaved
<1>4. CASE /\ UNCHANGED inputVars
           /\ Tick \/ \E t \in Turns : \/ SendMessage(t) \/ BeginTurn(t) \/ Run(t)
                                       \/ CommitCompletion(t) \/ PrepareRetry(t)
  BY <1>4, LifecycleOutside
<1> QED BY <1>1, <1>2, <1>3, <1>4 DEF InputNext, InputStep, Untouched

-----------------------------------------------------------------------------
(* The state of the instructions that the stored markers give.             *)

LEMMA LatestTurn ==
  ASSUME TypeOK, Orders, NEW S \in SUBSET Turns, S # {}
  PROVE  \E u \in S : \A v \in S : ordinal[v] <= ordinal[u]
<1> DEFINE T == {ordinal[u] + 2 : u \in S}
<1>1. /\ nextTurn \in Nat
      /\ \A u \in S : ordinal[u] \in Int /\ ordinal[u] + 2 \in 1 .. nextTurn + 2
  BY DEF TypeOK, Orders, Ordinals, NoOrdinal
<1>2. T \in SUBSET (1 .. nextTurn + 2) /\ T # {} /\ nextTurn + 2 \in Nat
  BY <1>1
<1>3. PICK x \in T : \A y \in T : y <= x
  <2> HIDE DEF T
  <2> QED BY <1>2, GreatestNumber
<1>4. PICK u \in S : x = ordinal[u] + 2
  OBVIOUS
<1>5. ASSUME NEW v \in S PROVE ordinal[v] <= ordinal[u]
  <2>1. ordinal[v] + 2 <= ordinal[u] + 2
    BY <1>3, <1>4
  <2> QED BY <1>1, <2>1
<1> QED BY <1>5

SavedOK == saved \in [Turns -> States]

LEMMA FoldFacts ==
  ASSUME TypeOK, Orders, SavedOK, NEW S \in SUBSET Turns
  PROVE  /\ FoldMarkers(S) \in States
         /\ DOMAIN FoldMarkers(S) \subseteq PartKeys
         /\ \A k \in PartKeys : k \in DOMAIN FoldMarkers(S) <=> \E u \in S : k \in DOMAIN saved[u]
         /\ \A k \in DOMAIN FoldMarkers(S) :
              \E u \in S : /\ k \in DOMAIN saved[u]
                           /\ FoldMarkers(S)[k] = saved[u][k]
                           /\ \A v \in S : k \in DOMAIN saved[v] => ordinal[v] <= ordinal[u]
<1> DEFINE Writers(k) == {u \in S : k \in DOMAIN saved[u]}
           Latest(k) == CHOOSE u \in Writers(k) : \A v \in Writers(k) : ordinal[v] <= ordinal[u]
           K == {k \in PartKeys : Writers(k) # {}}
           F == [k \in K |-> saved[Latest(k)][k]]
<1>1. FoldMarkers(S) = F
  BY DEF FoldMarkers
<1>2. ASSUME NEW k \in K
      PROVE  Latest(k) \in Writers(k) /\ \A v \in Writers(k) : ordinal[v] <= ordinal[Latest(k)]
  <2>1. Writers(k) \in SUBSET Turns /\ Writers(k) # {}
    BY <1>2
  <2>2. \E u \in Writers(k) : \A v \in Writers(k) : ordinal[v] <= ordinal[u]
    <3> HIDE DEF Writers
    <3> QED BY <2>1, LatestTurn
  <2> HIDE DEF Writers
  <2> QED BY <2>2
<1> HIDE DEF Latest
<1>3. ASSUME NEW k \in K PROVE F[k] \in Texts
  <2>1. Latest(k) \in Turns /\ k \in DOMAIN saved[Latest(k)] /\ saved[Latest(k)] \in States
    BY <1>2, <1>3 DEF SavedOK
  <2>2. saved[Latest(k)][k] \in Texts
    BY <2>1, StateTypes
  <2> QED BY <2>2
<1>4. F \in [K -> Texts] /\ K \in SUBSET PartKeys
  BY <1>3
<1>5. F \in States
  <2> HIDE DEF F, K
  <2> QED BY <1>4, StateIntro
<1>6. \A k \in PartKeys : k \in DOMAIN F <=> \E u \in S : k \in DOMAIN saved[u]
  OBVIOUS
<1>7. \A k \in DOMAIN F :
        \E u \in S : /\ k \in DOMAIN saved[u]
                     /\ F[k] = saved[u][k]
                     /\ \A v \in S : k \in DOMAIN saved[v] => ordinal[v] <= ordinal[u]
  <2> SUFFICES ASSUME NEW k \in K
      PROVE  \E u \in S : /\ k \in DOMAIN saved[u]
                     /\ F[k] = saved[u][k]
                     /\ \A v \in S : k \in DOMAIN saved[v] => ordinal[v] <= ordinal[u]
    OBVIOUS
  <2>1. F[k] = saved[Latest(k)][k]
    OBVIOUS
  <2> QED BY <1>2, <2>1
<1> HIDE DEF F
<1> QED BY <1>1, <1>4, <1>5, <1>6, <1>7

LEMMA EqualStates ==
  ASSUME NEW a \in States, NEW b \in States,
         \A k \in PartKeys : k \in DOMAIN a <=> k \in DOMAIN b,
         \A k \in PartKeys : k \in DOMAIN a => a[k] = b[k]
  PROVE  a = b
<1>1. DOMAIN a = DOMAIN b /\ \A k \in DOMAIN a : a[k] = b[k]
  BY StateTypes
<1>2. a = [k \in DOMAIN a |-> a[k]] /\ b = [k \in DOMAIN b |-> b[k]]
  BY StateTypes
<1> QED BY <1>1, <1>2

LEMMA NoStateIsState == NoState \in States /\ DOMAIN NoState = {}
<1>1. NoState \in [{} -> Texts] /\ {} \in SUBSET PartKeys
  BY DEF NoState
<1> QED BY <1>1, StateIntro DEF NoState

LEMMA EmptyState == ASSUME NEW a \in States, DOMAIN a = {} PROVE a = NoState
<1>1. a = [k \in DOMAIN a |-> a[k]]
  BY StateTypes
<1> QED BY <1>1 DEF NoState

LEMMA LastMarkersState ==
  ASSUME NEW s \in Seq(Items), NEW T \in SUBSET Texts
  PROVE  LastMarkers(s, T) \in States
<1> DEFINE F == LastMarkers(s, T)
<1>1. DOMAIN F \subseteq PartKeys /\ F = [k \in DOMAIN F |-> F[k]]
  BY DEF LastMarkers
<1>2. \A k \in DOMAIN F : F[k] \in T
  <2> SUFFICES ASSUME NEW k \in DOMAIN F PROVE F[k] \in T
    OBVIOUS
  <2>1. Tells(s, T, k, F[k])
    BY <1>1, LastMarkersTell
  <2> HIDE DEF F
  <2> QED BY <2>1 DEF Tells, Speaks
<1> HIDE DEF F
<1>3. F \in [DOMAIN F -> Texts] /\ DOMAIN F \in SUBSET PartKeys
  BY <1>1, <1>2
<1> QED BY <1>3, StateIntro DEF F

-----------------------------------------------------------------------------
(* The order of the replies.                                               *)

\* Increasing numbers without room between them.
LEMMA OnlyCounting ==
  ASSUME NEW N \in Nat, NEW g \in [1 .. N -> 0 .. N - 1],
         \A i, j \in 1 .. N : i < j => g[i] < g[j]
  PROVE  \A n \in 1 .. N : g[n] = n - 1
<1>1. \A n \in 1 .. N : g[n] \in Int /\ g[n] >= 0 /\ g[n] <= N - 1
  OBVIOUS
<1> DEFINE P == {n \in Nat : n + 1 \in 1 .. N => g[n + 1] >= n}
           Q == {m \in Nat : N - m \in 1 .. N => g[N - m] <= N - m - 1}
<1>2. P = Nat
  <2>1. 0 \in P
    BY <1>1
  <2>2. ASSUME NEW n \in P PROVE n + 1 \in P
    <3> SUFFICES ASSUME (n + 1) + 1 \in 1 .. N PROVE g[(n + 1) + 1] >= n + 1
      OBVIOUS
    <3>1. n + 1 \in 1 .. N /\ g[n + 1] >= n /\ g[n + 1] < g[(n + 1) + 1]
      OBVIOUS
    <3> QED BY <1>1, <3>1
  <2>3. P \in SUBSET Nat
    OBVIOUS
  <2> HIDE DEF P
  <2> QED BY <2>1, <2>2, <2>3, Induct
<1>3. Q = Nat
  <2>1. 0 \in Q
    BY <1>1
  <2>2. ASSUME NEW m \in Q PROVE m + 1 \in Q
    <3> SUFFICES ASSUME N - (m + 1) \in 1 .. N PROVE g[N - (m + 1)] <= N - (m + 1) - 1
      OBVIOUS
    <3>1. N - m \in 1 .. N /\ g[N - m] <= N - m - 1 /\ g[N - (m + 1)] < g[N - m]
      OBVIOUS
    <3> QED BY <1>1, <3>1
  <2>3. Q \in SUBSET Nat
    OBVIOUS
  <2> HIDE DEF Q
  <2> QED BY <2>1, <2>2, <2>3, Induct
<1>4. ASSUME NEW n \in 1 .. N PROVE g[n] = n - 1
  <2>1. n - 1 \in P /\ N - n \in Q
    <3>1. n - 1 \in Nat /\ N - n \in Nat
      OBVIOUS
    <3> HIDE DEF P, Q
    <3> QED BY <1>2, <1>3, <3>1
  <2>2. n - 1 + 1 = n /\ N - (N - n) = n
    OBVIOUS
  <2>3. g[n] >= n - 1
    BY <2>1, <2>2
  <2>4. g[n] <= n - 1
    <3>1. N - n \in Q /\ N - (N - n) \in 1 .. N
      BY <2>1, <2>2
    <3>2. g[N - (N - n)] <= N - (N - n) - 1
      BY <3>1
    <3> QED BY <2>2, <3>2
  <2> HIDE DEF P, Q
  <2> QED BY <1>1, <2>3, <2>4
<1> QED BY <1>4

\* The replies of a replay are 0, 1, ... up to the cutoff.
LEMMA ReplayCounts ==
  ASSUME IInv, NEW t \in Turns
  PROVE  /\ cutoff[t] + 1 \in Nat /\ cutoff[t] \in Int
         /\ Replay(t) \subseteq Turns
         /\ \A u \in Replay(t) : status[u] = "completed" /\ response[u] \in 0 .. cutoff[t]
         /\ \A u \in Turns : status[u] = "completed" /\ response[u] <= cutoff[t] => u \in Replay(t)
         /\ \A n \in 0 .. cutoff[t] : \E u \in Replay(t) : response[u] = n
         /\ \A u, v \in Replay(t) : response[u] = response[v] => u = v
<1> USE DEF IInv, TypeOK, CutoffIsStored, ResponseOrdinalsDense, Ordinals, NoOrdinal, Replay
<1>1. cutoff[t] + 1 \in Nat /\ cutoff[t] \in Int /\ Replay(t) \subseteq Turns
  OBVIOUS
<1>2. \A u \in Replay(t) : status[u] = "completed" /\ response[u] \in 0 .. cutoff[t]
  OBVIOUS
<1>3. ASSUME NEW u \in Turns, status[u] = "completed", response[u] <= cutoff[t]
      PROVE  u \in Replay(t)
  BY <1>3
<1>4. ASSUME NEW n \in 0 .. cutoff[t] PROVE \E u \in Replay(t) : response[u] = n
  <2>1. n \in 0 .. nextResponse - 1
    BY <1>1
  <2>2. PICK u \in Turns : status[u] = "completed" /\ response[u] = n
    BY <2>1
  <2> QED BY <1>1, <1>3, <2>2
<1>5. \A u, v \in Replay(t) : response[u] = response[v] => u = v
  OBVIOUS
<1> QED BY <1>1, <1>2, <1>3, <1>4, <1>5

LEMMA ReplyOrder ==
  ASSUME IInv, NEW t \in Turns
  PROVE  /\ InReplyOrder(Replay(t)) \in [1 .. cutoff[t] + 1 -> Replay(t)]
         /\ \A n \in 1 .. cutoff[t] + 1 : response[InReplyOrder(Replay(t))[n]] = n - 1
<1> DEFINE N == cutoff[t] + 1
           R == Replay(t)
           r == [u \in R |-> response[u]]
           Sorted(f) == /\ IsInjective(f)
                        /\ \A i, j \in DOMAIN f : i < j => r[f[i]] <= r[f[j]]
           h == CHOOSE f \in [1 .. Cardinality(R) -> R] : Sorted(f)
<1>1. /\ N \in Nat /\ cutoff[t] = N - 1
      /\ r \in [R -> 0 .. N - 1]
      /\ \A n \in 0 .. N - 1 : \E u \in R : r[u] = n
      /\ \A u, v \in R : r[u] = r[v] => u = v
  <2>1. N \in Nat /\ cutoff[t] = N - 1
    BY ReplayCounts
  <2>2. \A u \in R : r[u] \in 0 .. N - 1
    BY <2>1, ReplayCounts
  <2>3. \A n \in 0 .. N - 1 : \E u \in R : r[u] = n
    <3> SUFFICES ASSUME NEW n \in 0 .. N - 1 PROVE \E u \in R : r[u] = n
      OBVIOUS
    <3>1. n \in 0 .. cutoff[t]
      BY <2>1
    <3> QED BY <3>1, ReplayCounts
  <2>4. \A u, v \in R : r[u] = r[v] => u = v
    BY ReplayCounts
  <2> QED BY <2>1, <2>2, <2>3, <2>4
<1>2. InReplyOrder(R) = h
  <2>1. \A f \in [1 .. Cardinality(R) -> R] :
          (/\ IsInjective(f)
           /\ \A i, j \in DOMAIN f : i < j => response[f[i]] <= response[f[j]]) <=> Sorted(f)
    OBVIOUS
  <2> QED BY <2>1 DEF InReplyOrder
<1>3. \A n \in 1 .. N : response[h[n]] = r[h[n]] \/ h[n] \notin R
  OBVIOUS
<1> HIDE DEF N, R, r
<1> DEFINE f == [n \in 1 .. N |-> CHOOSE u \in R : r[u] = n - 1]
<1>4. f \in [1 .. N -> R] /\ \A n \in 1 .. N : r[f[n]] = n - 1
  <2> SUFFICES ASSUME NEW n \in 1 .. N PROVE f[n] \in R /\ r[f[n]] = n - 1
    OBVIOUS
  <2>1. \E u \in R : r[u] = n - 1
    BY <1>1
  <2> QED BY <2>1
<1> HIDE DEF f
<1>5. Sorted(f)
  <2>1. \A i, j \in 1 .. N : f[i] = f[j] => i = j
    BY <1>1, <1>4
  <2>2. \A i, j \in 1 .. N : i < j => r[f[i]] <= r[f[j]]
    BY <1>1, <1>4
  <2> QED BY <1>4, <2>1, <2>2 DEF IsInjective
<1>6. Cardinality(R) = N
  <2>1. \A u \in R : \E n \in 1 .. N : f[n] = u
    <3> SUFFICES ASSUME NEW u \in R PROVE \E n \in 1 .. N : f[n] = u
      OBVIOUS
    <3>1. r[u] \in 0 .. N - 1 /\ r[u] + 1 \in 1 .. N /\ r[u] + 1 - 1 = r[u]
      BY <1>1
    <3>2. f[r[u] + 1] \in R /\ r[f[r[u] + 1]] = r[u]
      BY <1>4, <3>1
    <3> QED BY <1>1, <3>1, <3>2
  <2>2. f \in Bijection(1 .. N, R)
    BY <1>4, <1>5, <2>1 DEF Bijection, Injection, Surjection, IsInjective
  <2> QED BY <1>1, <2>2, FS_CountingElements DEF ExistsBijection
<1>7. h \in [1 .. N -> R] /\ Sorted(h)
  BY <1>4, <1>5, <1>6
<1> HIDE DEF h
<1>8. \A n \in 1 .. N : r[h[n]] = n - 1
  <2> DEFINE g == [n \in 1 .. N |-> r[h[n]]]
  <2>1. g \in [1 .. N -> 0 .. N - 1]
    BY <1>1, <1>7
  <2>2. ASSUME NEW i \in 1 .. N, NEW j \in 1 .. N, i < j PROVE g[i] < g[j]
    <3>1. h[i] \in R /\ h[j] \in R /\ h[i] # h[j] /\ r[h[i]] <= r[h[j]]
      BY <1>7, <2>2 DEF IsInjective
    <3> QED BY <1>1, <3>1
  <2>3. \A n \in 1 .. N : g[n] = n - 1
    <3> HIDE DEF g
    <3> QED BY <1>1, <2>1, <2>2, OnlyCounting
  <2> QED BY <2>3
<1>9. \A n \in 1 .. N : response[h[n]] = n - 1
  BY <1>3, <1>7, <1>8
<1> QED BY <1>2, <1>7, <1>9 DEF N, R

-----------------------------------------------------------------------------
(* A turn's history is the replayed turns one after the other.             *)

Basics ==
  /\ IInv
  /\ Orders
  /\ RepliesPrecede
  /\ Lifecycle
  /\ Shape
  /\ InputTypeOK

LEMMA BasicTypes ==
  ASSUME Basics
  PROVE  /\ TypeOK /\ Orders /\ SavedOK
         /\ \A t \in Turns : /\ StateOf(t) \in States /\ StateBefore(t) \in States
                             /\ context[t] \in SUBSET Users /\ IsFiniteSet(context[t])
                             /\ draft[t].parts \in States /\ draft[t].input \in Seq(Items)
                             /\ draft[t].notes \in SUBSET Users /\ IsFiniteSet(draft[t].notes)
<1>1. TypeOK /\ Orders /\ SavedOK
  BY DEF Basics, IInv, InputTypeOK, SavedOK
<1>2. ASSUME NEW t \in Turns PROVE StateOf(t) \in States /\ StateBefore(t) \in States
  <2>1. Earlier(t) \in SUBSET Turns /\ Earlier(t) \cup {t} \in SUBSET Turns
    BY DEF Earlier
  <2> QED BY <1>1, <2>1, FoldFacts DEF StateOf, StateBefore
<1>3. ASSUME NEW t \in Turns PROVE context[t] \in SUBSET Users /\ IsFiniteSet(context[t])
  <2>1. context[t] \in SUBSET Users
    BY DEF Basics, InputTypeOK
  <2>2. CASE t \in stored
    BY <2>1, <2>2 DEF Basics, Lifecycle
  <2>3. CASE t \notin stored
    BY <2>1, <2>3, FS_EmptySet DEF Basics, Lifecycle
  <2> QED BY <2>1, <2>2, <2>3
<1> QED BY <1>1, <1>2, <1>3 DEF Basics, InputTypeOK, Lifecycle

TurnsOf(t) == InReplyOrder(Replay(t))
Replays(t) == [i \in DOMAIN TurnsOf(t) |-> Replayed(TurnsOf(t), i)]
Replies(t) == cutoff[t] + 1

\* The history up to the n-th reply.
HistoryTo(t, n) == FlattenSeq(Prefix(Replays(t), n))

LEMMA TurnsOfFacts ==
  ASSUME Basics, NEW t \in Turns
  PROVE  /\ Replies(t) \in Nat
         /\ DOMAIN TurnsOf(t) = 1 .. Replies(t)
         /\ \A i \in 1 .. Replies(t) : /\ TurnsOf(t)[i] \in Turns
                                       /\ TurnsOf(t)[i] \in Replay(t)
                                       /\ response[TurnsOf(t)[i]] = i - 1
         /\ \A u \in Replay(t) : /\ u \in Turns /\ response[u] + 1 \in 1 .. Replies(t)
                                 /\ response[u] \in Int
                                 /\ TurnsOf(t)[response[u] + 1] = u
<1>0. IInv
  BY DEF Basics
<1> DEFINE f == TurnsOf(t)
           R == Replay(t)
           N == Replies(t)
<1>1. /\ N \in Nat /\ R \subseteq Turns /\ cutoff[t] = N - 1
      /\ \A u \in R : response[u] \in 0 .. cutoff[t]
      /\ \A u, v \in R : response[u] = response[v] => u = v
  BY <1>0, ReplayCounts DEF Replies
<1>2. f \in [1 .. N -> R] /\ \A n \in 1 .. N : response[f[n]] = n - 1
  BY <1>0, ReplyOrder DEF Replies, TurnsOf
<1> HIDE DEF f, R, N
<1>3. ASSUME NEW u \in R
      PROVE  u \in Turns /\ response[u] + 1 \in 1 .. N /\ response[u] \in Int /\ f[response[u] + 1] = u
  <2>1. response[u] \in 0 .. N - 1 /\ response[u] + 1 \in 1 .. N /\ response[u] + 1 - 1 = response[u]
    BY <1>1
  <2>2. f[response[u] + 1] \in R /\ response[f[response[u] + 1]] = response[u]
    BY <1>2, <2>1
  <2> QED BY <1>1, <2>1, <2>2
<1> QED BY <1>1, <1>2, <1>3 DEF f, R, N

LEMMA ReplaysType ==
  ASSUME Basics, NEW t \in Turns
  PROVE  /\ \A i \in 1 .. Replies(t) : /\ Replays(t)[i] = Replayed(TurnsOf(t), i)
                                       /\ ReplayedState(TurnsOf(t), i) \in States
                                       /\ Replays(t)[i] \in Seq(Items)
         /\ Replays(t) = Prefix(Replays(t), Replies(t))
         /\ \A n \in 0 .. Replies(t) : HistoryTo(t, n) \in Seq(Items)
         /\ History(t) = HistoryTo(t, Replies(t))
         /\ History(t) \in Seq(Items)
<1>1. /\ Replies(t) \in Nat
      /\ DOMAIN TurnsOf(t) = 1 .. Replies(t)
      /\ \A i \in 1 .. Replies(t) : TurnsOf(t)[i] \in Turns
  BY TurnsOfFacts
<1>2. ASSUME NEW i \in 1 .. Replies(t)
      PROVE  /\ Replays(t)[i] = Replayed(TurnsOf(t), i)
             /\ ReplayedState(TurnsOf(t), i) \in States
             /\ Replays(t)[i] \in Seq(Items)
  <2>1. ReplayedState(TurnsOf(t), i) \in States
    <3>1. i # 1 => i - 1 \in 1 .. Replies(t)
      BY <1>1
    <3> QED BY <1>1, <3>1, BasicTypes, NoStateIsState DEF ReplayedState
  <2>2. Markers(ReplayedState(TurnsOf(t), i), StateOf(TurnsOf(t)[i])) \in Seq(Items)
    BY <1>1, <2>1, BasicTypes, MarkerElements
  <2>3. ContextItems(TurnsOf(t)[i], context[TurnsOf(t)[i]]) \in Seq(Items)
    BY <1>1, BasicTypes, ContextElements
  <2>4. Replays(t)[i] = Replayed(TurnsOf(t), i)
    BY <1>1 DEF Replays
  <2> QED BY <2>1, <2>2, <2>3, <2>4, ConcatProperties DEF Replayed
<1>3. Replays(t) = Prefix(Replays(t), Replies(t))
  BY <1>1 DEF Prefix, Replays
<1>4. ASSUME NEW n \in 0 .. Replies(t) PROVE HistoryTo(t, n) \in Seq(Items)
  BY <1>1, <1>2, FlattenType DEF HistoryTo
<1>5. History(t) = HistoryTo(t, Replies(t))
  BY <1>3 DEF History, HistoryTo, Replays, TurnsOf
<1> QED BY <1>1, <1>2, <1>3, <1>4, <1>5

LEMMA HistoryGrows ==
  ASSUME Basics, NEW t \in Turns, NEW n \in Nat, n + 1 \in 1 .. Replies(t)
  PROVE  /\ HistoryTo(t, 0) = << >>
         /\ HistoryTo(t, n + 1) = HistoryTo(t, n) \o Replayed(TurnsOf(t), n + 1)
<1>1. /\ \A i \in 1 .. n + 1 : Replays(t)[i] \in Seq(Items)
      /\ HistoryTo(t, n) \in Seq(Items)
      /\ Replays(t)[n + 1] = Replayed(TurnsOf(t), n + 1)
  BY ReplaysType, TurnsOfFacts
<1>2. HistoryTo(t, n + 1) = HistoryTo(t, n) \o Replays(t)[n + 1]
  BY <1>1, FlattenStep DEF HistoryTo
<1>3. Prefix(Replays(t), 0) = << >>
  BY DEF Prefix
<1> QED BY <1>1, <1>2, <1>3, FlattenEmpty DEF HistoryTo

LEMMA NoHistory ==
  ASSUME Basics, NEW t \in Turns, Replies(t) = 0
  PROVE  History(t) = << >>
<1>1. Prefix(Replays(t), 0) = << >>
  BY DEF Prefix
<1> QED BY <1>1, ReplaysType, FlattenEmpty DEF HistoryTo

LEMMA TranscriptType ==
  ASSUME Basics, NEW t \in Turns, NEW parts \in States,
         NEW notes \in SUBSET Users, IsFiniteSet(notes)
  PROVE  /\ Transcript(t, parts, notes) \in Seq(Items)
         /\ History(t) \in Seq(Items) /\ Markers(StateBefore(t), parts) \in Seq(Items)
         /\ ContextItems(t, notes) \in Seq(Items)
         /\ History(t) \o Markers(StateBefore(t), parts) \in Seq(Items)
<1>1. /\ History(t) \in Seq(Items) /\ Markers(StateBefore(t), parts) \in Seq(Items)
      /\ ContextItems(t, notes) \in Seq(Items)
  BY ReplaysType, BasicTypes, MarkerElements, ContextElements
<1> QED BY <1>1, ConcatProperties DEF Transcript

-----------------------------------------------------------------------------
(* Types.                                                                  *)

LEMMA Attempt ==
  ASSUME Basics, NEW t \in Turns, AssembleInput(t) \/ AssembleRetry(t)
  PROVE  \E parts \in States, notes \in SUBSET Users :
           /\ IsFiniteSet(notes)
           /\ draft' = [draft EXCEPT ![t] = [parts |-> parts, notes |-> notes,
                                             input |-> Transcript(t, parts, notes)]]
           /\ AssembleInput(t) => parts \in Prompts /\ notes = NewNotes(t)
           /\ AssembleRetry(t) => parts \in RetryInstructions(t) /\ notes = context[t]
<1>1. Prompts \subseteq States
  BY PromptsAssumption, StateIntro
<1>2. RetryInstructions(t) \subseteq States
  BY <1>1, BasicTypes DEF RetryInstructions
<1>3. NewNotes(t) \in SUBSET Users /\ IsFiniteSet(NewNotes(t))
  BY PeopleAssumption, AttemptNotes DEF NewNotes, Basics
<1>4. CASE AssembleInput(t)
  BY <1>1, <1>3, <1>4 DEF AssembleInput, AssembleRetry, AssembleWith
<1>5. CASE AssembleRetry(t)
  BY <1>2, <1>5, BasicTypes DEF AssembleInput, AssembleRetry, AssembleWith
<1> QED BY <1>4, <1>5

LEMMA MergedState ==
  ASSUME NEW new \in States, NEW old \in States
  PROVE  [k \in DOMAIN new \cup DOMAIN old |-> IF k \in DOMAIN new THEN new[k] ELSE old[k]]
           \in States
<1> DEFINE m == [k \in DOMAIN new \cup DOMAIN old |-> IF k \in DOMAIN new THEN new[k] ELSE old[k]]
           K == DOMAIN new \cup DOMAIN old
<1>1. K \in SUBSET PartKeys
  BY StateTypes
<1>2. \A k \in K : m[k] \in Texts
  BY StateTypes
<1>3. m \in [K -> Texts]
  BY <1>2
<1> HIDE DEF m, K
<1> QED BY <1>1, <1>3, StateIntro DEF m, K

LEMMA InputTypeStep ==
  ASSUME Basics, TypeOK', Lifecycle', [InputNext]_allVars
  PROVE  InputTypeOK'
<1>0. unsaved' \subseteq ready'
  BY ShapeStep DEF Basics, Lifecycle, Shape
<1> USE DEF InputTypeOK
<1>1. CASE UNCHANGED inputVars
  BY <1>0, <1>1 DEF Basics, inputVars
<1>2. ASSUME NEW t \in Turns, AssembleInput(t) \/ AssembleRetry(t) PROVE InputTypeOK'
  <2>1. PICK parts \in States, notes \in SUBSET Users :
           /\ IsFiniteSet(notes)
           /\ draft' = [draft EXCEPT ![t] = [parts |-> parts, notes |-> notes,
                                             input |-> Transcript(t, parts, notes)]]
    BY <1>2, Attempt
  <2>2. Transcript(t, parts, notes) \in Seq(Items)
    BY <2>1, TranscriptType
  <2>3. ASSUME NEW u \in Turns
        PROVE  /\ draft'[u].parts \in States
               /\ draft'[u].notes \subseteq Users
               /\ draft'[u].input \in Seq(Items)
    <3>1. CASE u = t
      BY <2>1, <2>2, <3>1 DEF Basics, Shape
    <3>2. CASE u # t
      BY <2>1, <3>2 DEF Basics, Shape
    <3> QED BY <3>1, <3>2
  <2>4. UNCHANGED <<stored, saved, context>>
    BY <1>2 DEF AssembleInput, AssembleRetry, AssembleWith
  <2> QED BY <1>0, <2>3, <2>4 DEF Basics
<1>3. ASSUME NEW t \in Turns, SaveTurnInput(t) PROVE InputTypeOK'
  <2> DEFINE new == LastMarkers(draft[t].input, Texts)
             both == [k \in DOMAIN new \cup DOMAIN saved[t] |->
                        IF k \in DOMAIN new THEN new[k] ELSE saved[t][k]]
  <2>1. /\ saved' = [saved EXCEPT ![t] = both]
        /\ context' = [context EXCEPT ![t] = draft[t].notes]
        /\ stored' = stored \cup {t} /\ draft' = draft
    BY <1>3 DEF SaveTurnInput
  <2>2. new \in States /\ saved[t] \in States
    BY BasicTypes, LastMarkersState DEF SavedOK
  <2> HIDE DEF new
  <2>3. both \in States
    BY <2>2, MergedState
  <2> HIDE DEF both
  <2> QED BY <1>0, <2>1, <2>3 DEF Basics
<1> QED BY <1>1, <1>2, <1>3 DEF InputNext, InputStep, Untouched, allVars

LEMMA InputInitInv == InputInit => Basics
<1> SUFFICES ASSUME InputInit PROVE Basics
  OBVIOUS
<1>1. Init
  BY DEF InputInit
<1>2. IInv
  BY <1>1, InitInv
<1>3. InputTypeOK
  <2>1. <<>> \in Seq(Items)
    OBVIOUS
  <2> QED BY <1>2, <2>1, NoStateIsState DEF InputInit, InputTypeOK, IInv, NoDraft
<1>4. Shape
  BY DEF InputInit, Shape
<1>5. Lifecycle
  BY <1>1, FS_EmptySet DEF InputInit, Init, Lifecycle, NoDraft
<1>6. Orders /\ RepliesPrecede
  BY <1>1 DEF Init, Orders, RepliesPrecede, NoOrdinal
<1> QED BY <1>2, <1>3, <1>4, <1>5, <1>6 DEF Basics

LEMMA BasicsStep == ASSUME Basics, [InputNext]_allVars PROVE Basics'
<1>1. [Next]_vars
  BY InputRefines
<1>2. IInv'
  BY <1>1, TypeStep, OrdinalsStep, PromptStep DEF Basics, IInv
<1>3. Orders' /\ RepliesPrecede'
  BY <1>1, <1>2, OrdersStep, RepliesPrecedeStep DEF Basics
<1>4. Shape' /\ Lifecycle'
  BY ShapeStep, LifecycleStep DEF Basics
<1>5. InputTypeOK'
  BY <1>2, <1>4, InputTypeStep DEF IInv
<1> QED BY <1>2, <1>3, <1>4, <1>5 DEF Basics

\* The columns, the attempts, and what is stored of them have their types.
THEOREM InputTypesHold == InputSpec => []InputTypeOK
<1>1. Basics => InputTypeOK
  BY DEF Basics
<1> QED BY <1>1, InputInitInv, BasicsStep, PTL DEF InputSpec

-----------------------------------------------------------------------------
(* What the replay tells of the instructions.                              *)

Text == Texts \ {NoText}

\* Markers lead from one state to the next: what a part says then is told by
\* the marker, or was told before.
LEMMA MarkersLead ==
  ASSUME NEW before \in Seq(Items), NEW rest \in Seq(Items), NEW old \in States, NEW new \in States,
         NEW k \in DOMAIN new, new[k] # NoText,
         Silent(rest, Text, k),
         k \in DOMAIN old /\ old[k] # NoText => Tells(before, Text, k, old[k])
  PROVE  Tells(before \o (Markers(old, new) \o rest), Text, k, new[k])
<1> DEFINE m == Markers(old, new)
<1>1. m \in Seq(Items) /\ m \o rest \in Seq(Items)
  BY MarkerElements, ConcatProperties
<1>2. new[k] \in Text
  BY StateTypes DEF Text
<1>3. CASE k \in ChangedParts(old, new)
  <2>1. Tells(m, Text, k, new[k])
    BY <1>2, <1>3, MarkersTell
  <2> HIDE DEF m
  <2>2. Tells(m \o rest, Text, k, new[k])
    BY <1>1, <2>1, ConcatTells
  <2> QED BY <1>1, <2>2, ConcatTells DEF m
<1>4. CASE k \notin ChangedParts(old, new)
  <2>1. k \in DOMAIN old /\ old[k] = new[k]
    BY <1>4 DEF ChangedParts
  <2>2. Silent(m, Text, k)
    BY <1>4, MarkersTell
  <2> HIDE DEF m
  <2>3. Silent(m \o rest, Text, k)
    BY <1>1, <2>2, ConcatTells
  <2> QED BY <1>1, <2>1, <2>3, ConcatTells DEF m
<1> QED BY <1>3, <1>4

\* After the n-th replayed turn, the transcript tells that turn's state.
LEMMA HistoryTells ==
  ASSUME Basics, NEW t \in Turns, NEW n \in Nat, n + 1 \in 1 .. Replies(t)
  PROVE  \A k \in DOMAIN StateOf(TurnsOf(t)[n + 1]) :
           StateOf(TurnsOf(t)[n + 1])[k] # NoText
             => Tells(HistoryTo(t, n + 1), Text, k, StateOf(TurnsOf(t)[n + 1])[k])
<1> DEFINE turns == TurnsOf(t)
           N == Replies(t)
           st(i) == StateOf(turns[i])
           Tell(i) == \A k \in DOMAIN st(i) : st(i)[k] # NoText => Tells(HistoryTo(t, i), Text, k, st(i)[k])
           P == {i \in Nat : i + 1 \in 1 .. N => Tell(i + 1)}
<1>1. N \in Nat /\ \A i \in 1 .. N : turns[i] \in Turns
  BY TurnsOfFacts
<1>2. ASSUME NEW i \in Nat, i + 1 \in 1 .. N, i # 0 => Tell(i) PROVE Tell(i + 1)
  <2> SUFFICES ASSUME NEW k \in DOMAIN st(i + 1), st(i + 1)[k] # NoText
               PROVE  Tells(HistoryTo(t, i + 1), Text, k, st(i + 1)[k])
    OBVIOUS
  <2> DEFINE old == ReplayedState(turns, i + 1)
             rest == ContextItems(turns[i + 1], context[turns[i + 1]])
             before == HistoryTo(t, i)
  <2>1. /\ old \in States /\ st(i + 1) \in States
        /\ HistoryTo(t, i + 1) = before \o (Markers(old, st(i + 1)) \o rest)
        /\ before \in Seq(Items)
    <3>1. old \in States /\ st(i + 1) \in States
      BY <1>1, <1>2, ReplaysType, BasicTypes
    <3>2. HistoryTo(t, i + 1) = before \o (Markers(old, st(i + 1)) \o rest)
      <4>1. HistoryTo(t, i + 1) = HistoryTo(t, i) \o Replayed(TurnsOf(t), i + 1)
        BY <1>2, HistoryGrows
      <4> QED BY <4>1 DEF Replayed
    <3>3. before \in Seq(Items)
      <4>1. i \in 0 .. N
        BY <1>1, <1>2
      <4> QED BY <4>1, ReplaysType
    <3> QED BY <3>1, <3>2, <3>3
  <2>2. rest \in Seq(Items) /\ Silent(rest, Text, k)
    BY <1>1, <1>2, BasicTypes, ContextElements
  <2>3. k \in DOMAIN old /\ old[k] # NoText => Tells(before, Text, k, old[k])
    <3>1. CASE i = 0
      <4>1. old = NoState
        BY <3>1 DEF ReplayedState
      <4> HIDE DEF old
      <4> QED BY <4>1, NoStateIsState
    <3>2. CASE i # 0
      <4>1. old = st(i)
        <5>1. i + 1 # 1 /\ (i + 1) - 1 = i
          BY <3>2
        <5> QED BY <5>1 DEF ReplayedState
      <4> QED BY <1>2, <3>2, <4>1
    <3> QED BY <3>1, <3>2
  <2> DEFINE new == st(i + 1)
  <2>4. k \in DOMAIN new /\ new[k] # NoText /\ new \in States
    BY <2>1
  <2>5. HistoryTo(t, i + 1) = before \o (Markers(old, new) \o rest)
    BY <2>1
  <2>6. Tells(before \o (Markers(old, new) \o rest), Text, k, new[k])
    <3> HIDE DEF old, rest, before, new
    <3> QED BY <2>1, <2>2, <2>3, <2>4, MarkersLead
  <2> QED BY <2>5, <2>6
<1> HIDE DEF Tell
<1>3. 0 \in P
  BY <1>2
<1>4. ASSUME NEW i \in P PROVE i + 1 \in P
  BY <1>1, <1>2
<1>5. n \in P
  <2>1. P \in SUBSET Nat
    OBVIOUS
  <2> HIDE DEF P
  <2> QED BY <1>3, <1>4, <2>1, Induct
<1>6. Tell(n + 1)
  BY <1>5
<1> QED BY <1>6 DEF Tell

\* FollowsLastReply for the replay of an attempt still to be assembled.
FollowsItsReplay(t) ==
  \A u \in Earlier(t) :
    \/ \E v \in Earlier(t) : ordinal[u] < ordinal[v]
    \/ u \in Replay(t) /\ \A v \in Replay(t) : response[v] <= response[u]

LEMMA ReplayIsEarlier ==
  ASSUME Basics, NEW t \in Turns
  PROVE  /\ Replay(t) \subseteq Earlier(t)
         /\ Earlier(t) \subseteq Turns
<1>1. ASSUME NEW u \in Replay(t) PROVE u \in Earlier(t)
  <2>1. /\ u \in Turns /\ status[u] = "completed" /\ response[u] <= cutoff[t]
    BY DEF Replay
  <2>2. ordinal[u] < ordinal[t] /\ ordinal[u] # NoOrdinal
    BY <2>1 DEF Basics, RepliesPrecede, Orders
  <2> QED BY <2>1, <2>2 DEF Earlier
<1> QED BY <1>1 DEF Earlier

\* The turns before t are the last of them and the turns before that.
LEMMA EarlierIsLatest ==
  ASSUME Basics, NEW t \in Turns, NEW u \in Earlier(t),
         \A v \in Earlier(t) : ordinal[v] <= ordinal[u]
  PROVE  Earlier(t) = Earlier(u) \cup {u} /\ StateBefore(t) = StateOf(u)
<1>1. /\ \A v \in Turns : ordinal[v] \in Int
      /\ \A v, w \in Turns : ordinal[v] = ordinal[w] /\ ordinal[v] # NoOrdinal => v = w
  BY DEF Basics, IInv, TypeOK, Orders, Ordinals, NoOrdinal
<1>2. ASSUME NEW v \in Earlier(t), v # u PROVE v \in Earlier(u)
  BY <1>1, <1>2 DEF Earlier
<1>3. ASSUME NEW v \in Earlier(u) PROVE v \in Earlier(t)
  BY <1>1, <1>3 DEF Earlier
<1>4. Earlier(t) = Earlier(u) \cup {u}
  BY <1>2, <1>3
<1> QED BY <1>4 DEF StateBefore, StateOf

LEMMA NobodyEarlier ==
  ASSUME Basics, NEW t \in Turns, Earlier(t) = {}
  PROVE  /\ StateBefore(t) = NoState
         /\ Replies(t) = 0
         /\ History(t) = << >>
<1>1. StateBefore(t) = NoState
  <2>1. TypeOK /\ Orders /\ SavedOK /\ {} \in SUBSET Turns
    BY BasicTypes
  <2>2. FoldMarkers({}) \in States /\ DOMAIN FoldMarkers({}) = {}
    BY <2>1, FoldFacts
  <2> QED BY <2>2, EmptyState DEF StateBefore
<1>2. Replies(t) = 0
  <2> SUFFICES ASSUME Replies(t) # 0 PROVE FALSE
    OBVIOUS
  <2>1. 1 \in 1 .. Replies(t)
    BY TurnsOfFacts
  <2> QED BY <2>1, TurnsOfFacts, ReplayIsEarlier
<1> QED BY <1>1, <1>2, NoHistory

\* An attempt that follows the last reply it replays tells what it asks for.
LEMMA AttemptIsTold ==
  ASSUME Basics, NEW t \in Turns, FollowsItsReplay(t), NEW parts \in States,
         NEW notes \in SUBSET Users, IsFiniteSet(notes),
         NEW k \in DOMAIN parts, parts[k] # NoText
  PROVE  Tells(Transcript(t, parts, notes), Text, k, parts[k])
<1> DEFINE old == StateBefore(t)
           rest == ContextItems(t, notes)
           before == History(t)
           m == Markers(old, parts)
<1>1. /\ old \in States /\ before \in Seq(Items) /\ m \in Seq(Items) /\ rest \in Seq(Items)
      /\ Silent(rest, Text, k)
  BY BasicTypes, TranscriptType, ContextElements
<1>2. k \in DOMAIN old /\ old[k] # NoText => Tells(before, Text, k, old[k])
  <2>1. CASE Earlier(t) = {}
    <3>1. old = NoState
      BY <2>1, NobodyEarlier
    <3> HIDE DEF old
    <3> QED BY <3>1, NoStateIsState
  <2>2. CASE Earlier(t) # {}
    <3>1. TypeOK /\ Orders /\ Earlier(t) \in SUBSET Turns
      BY BasicTypes, ReplayIsEarlier
    <3>2. PICK u \in Earlier(t) : \A v \in Earlier(t) : ordinal[v] <= ordinal[u]
      BY <2>2, <3>1, LatestTurn
    <3>3. old = StateOf(u)
      BY <3>1, <3>2, EarlierIsLatest
    <3>4. u \in Replay(t) /\ \A v \in Replay(t) : response[v] <= response[u]
      <4>1. \A v \in Earlier(t) : ~(ordinal[u] < ordinal[v])
        BY <3>1, <3>2 DEF TypeOK, Ordinals, NoOrdinal
      <4> QED BY <4>1 DEF FollowsItsReplay
    <3> DEFINE N == Replies(t)
               n == response[u]
    <3>5. /\ N \in Nat /\ n \in Int /\ n + 1 \in 1 .. N /\ TurnsOf(t)[n + 1] = u
      BY <3>4, TurnsOfFacts
    <3>6. N = n + 1
      <4>1. N \in 1 .. N
        BY <3>5
      <4>2. TurnsOf(t)[N] \in Replay(t) /\ response[TurnsOf(t)[N]] = N - 1
        BY <4>1, TurnsOfFacts
      <4>3. N - 1 <= n
        BY <3>4, <4>2
      <4> HIDE DEF N, n
      <4> QED BY <3>5, <4>3
    <3>7. n \in Nat
      BY <3>5
    <3>8. before = HistoryTo(t, n + 1)
      BY <3>6, ReplaysType
    <3>9. \A l \in DOMAIN StateOf(u) : StateOf(u)[l] # NoText
             => Tells(HistoryTo(t, n + 1), Text, l, StateOf(u)[l])
      <4> HIDE DEF n, N
      <4> QED BY <3>5, <3>7, HistoryTells DEF N
    <3> HIDE DEF n, N, old, before
    <3> QED BY <3>3, <3>8, <3>9
  <2> QED BY <2>1, <2>2
<1>3. Tells(before \o (m \o rest), Text, k, parts[k])
  <2> HIDE DEF old, rest, before
  <2> QED BY <1>1, <1>2, MarkersLead
<1>4. before \o (m \o rest) = (before \o m) \o rest
  <2>1. IsSeq(before) /\ IsSeq(m) /\ IsSeq(rest)
    <3> HIDE DEF before, m, rest
    <3> QED BY <1>1, SeqIsSeq
  <2> HIDE DEF before, m, rest
  <2> QED BY <2>1, ConcatIsAssociative
<1>5. Transcript(t, parts, notes) = (before \o m) \o rest
  BY DEF Transcript
<1> HIDE DEF before, m, rest
<1> QED BY <1>3, <1>4, <1>5

DraftTold(t) ==
  \A k \in DOMAIN draft[t].parts :
    draft[t].parts[k] # NoText => k \in DOMAIN Told(t) /\ Told(t)[k] = draft[t].parts[k]

\* What an attempt with these parts and this transcript tells.
ToldBy(parts, input) ==
  IF \E i \in DOMAIN input : IsMarker(input[i]) THEN LastMarkers(input, Text) ELSE Spoken(parts)

LEMMA ToldByMarkers ==
  ASSUME NEW parts \in States, NEW s \in Seq(Items),
         \A k \in DOMAIN parts : parts[k] # NoText => Tells(s, Text, k, parts[k])
  PROVE  \A k \in DOMAIN parts : parts[k] # NoText
           => k \in DOMAIN ToldBy(parts, s) /\ ToldBy(parts, s)[k] = parts[k]
<1> SUFFICES ASSUME NEW k \in DOMAIN parts, parts[k] # NoText
             PROVE  k \in DOMAIN ToldBy(parts, s) /\ ToldBy(parts, s)[k] = parts[k]
  OBVIOUS
<1> DEFINE x == parts[k]
<1>1. Tells(s, Text, k, x) /\ k \in PartKeys
  BY StateTypes
<1> HIDE DEF x
<1>2. \E i \in DOMAIN s : IsMarker(s[i])
  BY <1>1 DEF Tells, Speaks
<1>3. ToldBy(parts, s) = LastMarkers(s, Text)
  BY <1>2 DEF ToldBy
<1>4. k \in DOMAIN LastMarkers(s, Text) /\ LastMarkers(s, Text)[k] = x
  BY <1>1, LastMarkersTell
<1> QED BY <1>3, <1>4 DEF x

\* The turns before a turn that has begun are always the same.
LEMMA EarlierKept ==
  ASSUME Basics, [Next]_vars, NEW t \in Turns, ordinal[t] # NoOrdinal
  PROVE  /\ Earlier(t)' = Earlier(t)
         /\ \A u \in Earlier(t) : ordinal'[u] = ordinal[u]
         /\ ordinal'[t] = ordinal[t]
<1>0. /\ TypeOK /\ Orders
  BY DEF Basics, IInv
<1>1. \/ ordinal' = ordinal
      \/ \E u \in Turns : /\ status[u] = "absent"
                          /\ ordinal' = [ordinal EXCEPT ![u] = nextTurn]
  BY DEF Next, TurnStep, vars, columns, Tick, SendMessage, BeginTurn, BeginTurnWith,
         AssemblePrompt, StartCompletion, CommitCompletion, CommitNumbering, FinishWithout,
         PrepareRetry
<1>2. CASE ordinal' = ordinal
  BY <1>2 DEF Earlier
<1>3. ASSUME NEW u \in Turns, status[u] = "absent", ordinal' = [ordinal EXCEPT ![u] = nextTurn]
      PROVE  /\ Earlier(t)' = Earlier(t)
             /\ \A v \in Earlier(t) : ordinal'[v] = ordinal[v]
             /\ ordinal'[t] = ordinal[t]
  <2>1. ordinal[u] = NoOrdinal /\ u # t /\ ordinal'[u] = nextTurn
        /\ \A v \in Turns : v # u => ordinal'[v] = ordinal[v]
    BY <1>0, <1>3 DEF TypeOK, Orders
  <2>2. ordinal[t] < nextTurn /\ nextTurn \in Nat /\ ordinal[t] \in Int
    BY <1>0 DEF TypeOK, Orders, Ordinals, NoOrdinal
  <2>3. u \notin Earlier(t) /\ ~(ordinal'[u] < ordinal'[t])
    BY <2>1, <2>2 DEF Earlier
  <2>4. \A v \in Turns : (ordinal[v] # NoOrdinal /\ ordinal[v] < ordinal[t])
                           <=> (ordinal'[v] # NoOrdinal /\ ordinal'[v] < ordinal'[t])
    <3> SUFFICES ASSUME NEW v \in Turns
                 PROVE  (ordinal[v] # NoOrdinal /\ ordinal[v] < ordinal[t])
                           <=> (ordinal'[v] # NoOrdinal /\ ordinal'[v] < ordinal'[t])
      OBVIOUS
    <3>1. CASE v = u
      BY <2>1, <2>3, <3>1
    <3>2. CASE v # u
      BY <2>1, <3>2
    <3> QED BY <3>1, <3>2
  <2>5. Earlier(t)' = Earlier(t)
    BY <2>4 DEF Earlier
  <2> QED BY <2>1, <2>3, <2>5 DEF Earlier
<1> QED BY <1>1, <1>2, <1>3

LEMMA AssembledBegan ==
  ASSUME Basics, NEW t \in Assembled
  PROVE  /\ t \in Turns /\ ordinal[t] # NoOrdinal /\ prompt[t] = Replay(t)
         /\ status[t] # "absent"
  BY DEF Assembled, Basics, IInv, PromptIsReplay, Orders

\* Following the last reply is settled once the turn has begun.
LEMMA FollowingKept ==
  ASSUME Basics, [Next]_vars, NEW t \in Assembled, prompt'[t] = prompt[t], FollowsLastReply(t)'
  PROVE  FollowsLastReply(t)
<1>1. t \in Turns /\ ordinal[t] # NoOrdinal /\ prompt[t] = Replay(t)
  BY AssembledBegan
<1>2. \A v \in prompt[t] : response'[v] = response[v]
  BY <1>1, StepKeepsReplies DEF Replay, Basics
<1>3. /\ Earlier(t)' = Earlier(t)
      /\ \A u \in Earlier(t) : ordinal'[u] = ordinal[u]
  BY <1>1, EarlierKept
<1> SUFFICES ASSUME NEW u \in Earlier(t), \A v \in Earlier(t) : ~(ordinal[u] < ordinal[v])
             PROVE  u \in prompt[t] /\ \A v \in prompt[t] : response[v] <= response[u]
  BY DEF FollowsLastReply
<1>4. u \in prompt[t] /\ \A v \in prompt[t] : response'[v] <= response'[u]
  BY <1>3 DEF FollowsLastReply
<1> QED BY <1>2, <1>4

LEMMA InstructionsStep ==
  ASSUME Basics, Basics', InstructionsFollowTheReplay, [InputNext]_allVars
  PROVE  InstructionsFollowTheReplay'
<1> SUFFICES ASSUME NEW t \in Assembled', FollowsLastReply(t)'
             PROVE  DraftTold(t)'
  BY DEF InstructionsFollowTheReplay, DraftTold
<1>0. /\ [Next]_vars /\ t \in Turns
      /\ t \in Assembled /\ FollowsLastReply(t) => DraftTold(t)
  BY InputRefines DEF InstructionsFollowTheReplay, DraftTold, Assembled
<1>1. CASE draft'[t] = draft[t] /\ prompt'[t] = prompt[t]
  <2>1. t \in Assembled
    BY <1>0, <1>1 DEF Assembled
  <2>2. DraftTold(t)
    BY <1>0, <1>1, <2>1, FollowingKept
  <2> QED BY <1>1, <2>2 DEF DraftTold, Told
<1>2. CASE AssembleInput(t) \/ AssembleRetry(t)
  <2>1. PICK parts \in States, notes \in SUBSET Users :
           /\ IsFiniteSet(notes)
           /\ draft' = [draft EXCEPT ![t] = [parts |-> parts, notes |-> notes,
                                             input |-> Transcript(t, parts, notes)]]
    BY <1>0, <1>2, Attempt
  <2>2. draft'[t].parts = parts /\ draft'[t].input = Transcript(t, parts, notes)
    BY <1>0, <2>1 DEF Basics, Shape
  <2>3. AssemblePrompt(t)
    BY <1>2 DEF AssembleInput, AssembleRetry, AssembleWith
  <2>4. /\ prompt'[t] = Replay(t) /\ ordinal' = ordinal /\ response' = response
    BY <1>0, <2>3 DEF AssemblePrompt, columns, Basics, IInv, TypeOK
  <2>5. FollowsItsReplay(t)
    BY <2>4 DEF FollowsLastReply, FollowsItsReplay, Earlier
  <2>6. \A k \in DOMAIN parts : parts[k] # NoText
           => Tells(Transcript(t, parts, notes), Text, k, parts[k])
    BY <1>0, <2>1, <2>5, AttemptIsTold
  <2>7. /\ draft'[t].parts \in States /\ draft'[t].input \in Seq(Items)
        /\ \A k \in DOMAIN draft'[t].parts : draft'[t].parts[k] # NoText
             => Tells(draft'[t].input, Text, k, draft'[t].parts[k])
    BY <1>0, <2>1, <2>2, <2>6, TranscriptType
  <2> DEFINE d == draft'[t]
             told == ToldBy(d.parts, d.input)
  <2>8. \A k \in DOMAIN d.parts : d.parts[k] # NoText
           => k \in DOMAIN told /\ told[k] = d.parts[k]
    BY <2>7, ToldByMarkers
  <2>9. Told(t)' = told
    BY DEF Told, ToldBy, Text
  <2> HIDE DEF told
  <2> QED BY <2>8, <2>9 DEF DraftTold
<1>3. \/ draft'[t] = draft[t] /\ prompt'[t] = prompt[t]
      \/ AssembleInput(t) \/ AssembleRetry(t)
  <2>1. \/ draft' = draft /\ prompt' = prompt
        \/ \E u \in Turns : AssembleInput(u) \/ AssembleRetry(u)
    BY DEF InputNext, InputStep, Untouched, allVars, inputVars, vars, SaveTurnInput, Run,
           Tick, SendMessage, BeginTurn, BeginTurnWith, StartCompletion, CommitCompletion,
           CommitNumbering, FinishWithout, PrepareRetry, columns
  <2>2. ASSUME NEW u \in Turns, AssembleInput(u) \/ AssembleRetry(u), u # t
        PROVE  draft'[t] = draft[t] /\ prompt'[t] = prompt[t]
    BY <1>0, <2>2 DEF AssembleInput, AssembleRetry, AssembleWith, AssemblePrompt, Basics, Shape,
                      IInv, TypeOK
  <2> QED BY <1>0, <2>1, <2>2
<1> QED BY <1>1, <1>2, <1>3

\* Every part of an attempt that follows the last reply is told in its text.
THEOREM InstructionsAreTold == InputSpec => []InstructionsFollowTheReplay
<1>1. InputInit => InstructionsFollowTheReplay
  BY DEF InputInit, Init, InstructionsFollowTheReplay, Assembled
<1>2. Basics /\ InstructionsFollowTheReplay /\ [InputNext]_allVars
        => Basics' /\ InstructionsFollowTheReplay'
  BY BasicsStep, InstructionsStep
<1> QED BY <1>1, <1>2, InputInitInv, PTL DEF InputSpec

-----------------------------------------------------------------------------
(* Conversations whose messages wait for the answers.                      *)

Before(t) == CHOOSE u \in Earlier(t) : \A v \in Earlier(t) : ordinal[v] <= ordinal[u]

\* The turn has begun, and all turns before it are replayed.
Waits(t) == ordinal[t] # NoOrdinal /\ Replay(t) = Earlier(t)

LEMMA LastTurn ==
  ASSUME Basics, NEW t \in Turns, Earlier(t) # {}
  PROVE  /\ Before(t) \in Earlier(t) /\ Before(t) \in Turns
         /\ \A v \in Earlier(t) : ordinal[v] <= ordinal[Before(t)]
         /\ \A u \in Earlier(t) : (\A v \in Earlier(t) : ordinal[v] <= ordinal[u]) => u = Before(t)
<1>1. TypeOK /\ Orders /\ Earlier(t) \in SUBSET Turns
  BY BasicTypes, ReplayIsEarlier
<1>2. \E u \in Earlier(t) : \A v \in Earlier(t) : ordinal[v] <= ordinal[u]
  BY <1>1, LatestTurn
<1>3. Before(t) \in Earlier(t) /\ \A v \in Earlier(t) : ordinal[v] <= ordinal[Before(t)]
  BY <1>2 DEF Before
<1>4. ASSUME NEW u \in Earlier(t), \A v \in Earlier(t) : ordinal[v] <= ordinal[u]
      PROVE  u = Before(t)
  <2>1. ordinal[u] <= ordinal[Before(t)] /\ ordinal[Before(t)] <= ordinal[u]
        /\ ordinal[u] # NoOrdinal
    BY <1>3, <1>4 DEF Earlier
  <2>2. ordinal[u] = ordinal[Before(t)]
    BY <1>1, <1>3, <2>1 DEF TypeOK, Ordinals, NoOrdinal
  <2> QED BY <1>1, <1>3, <2>1, <2>2 DEF Orders
<1> QED BY <1>1, <1>3, <1>4

LEMMA CompletedWaits ==
  ASSUME Basics, MessagesWait, NEW u \in Turns, status[u] = "completed"
  PROVE  u \in stored /\ u \in Assembled /\ Waits(u)
<1>1. u \in stored
  BY DEF Basics, Lifecycle
<1>2. u \in Assembled
  BY <1>1 DEF Basics, Lifecycle, Assembled
<1> QED BY <1>1, <1>2, AssembledBegan DEF MessagesWait, Waits

\* The turn before a waiting turn is the last one it replays.
LEMMA LastReply ==
  ASSUME Basics, MessagesWait, NEW t \in Turns, Waits(t), Earlier(t) # {}
  PROVE  /\ Before(t) \in Turns /\ status[Before(t)] = "completed"
         /\ Replies(Before(t)) \in Nat
         /\ Replies(t) = Replies(Before(t)) + 1
         /\ TurnsOf(t)[Replies(t)] = Before(t)
         /\ response[Before(t)] = Replies(Before(t))
<1> DEFINE u == Before(t)
           m == Replies(u)
           n == Replies(t)
<1>1. /\ u \in Turns /\ u \in Earlier(t) /\ \A v \in Earlier(t) : ordinal[v] <= ordinal[u]
  BY LastTurn
<1>2. u \in Replay(t) /\ Earlier(t) = Earlier(u) \cup {u}
  BY <1>1, EarlierIsLatest DEF Waits
<1>3. status[u] = "completed"
  BY <1>2 DEF Replay
<1>4. Replay(u) = Earlier(u)
  BY <1>1, <1>3, CompletedWaits DEF Waits
<1>5. /\ m \in Nat /\ n \in Nat /\ cutoff[u] = m - 1 /\ cutoff[t] = n - 1
  BY <1>1, TurnsOfFacts, ReplayCounts DEF Replies, Basics
<1>6. /\ response[u] \in 0 .. n - 1
      /\ \A v \in Replay(u) : response[v] \in 0 .. m - 1
      /\ \A k \in 0 .. n - 1 : \E v \in Replay(t) : response[v] = k
  <2>1. IInv
    BY DEF Basics
  <2>2. response[u] \in 0 .. cutoff[t] /\ \A v \in Replay(u) : response[v] \in 0 .. cutoff[u]
    BY <1>1, <1>2, <2>1, ReplayCounts
  <2>3. \A k \in 0 .. cutoff[t] : \E v \in Replay(t) : response[v] = k
    BY <2>1, ReplayCounts
  <2> HIDE DEF u, m, n
  <2> QED BY <1>5, <2>2, <2>3
<1>7. m <= response[u]
  <2>1. cutoff[u] < response[u]
    BY <1>1, <1>3 DEF Basics, Orders
  <2> HIDE DEF u, m, n
  <2> QED BY <1>5, <1>6, <2>1
<1>8. \A k \in 0 .. n - 1 : k = response[u] \/ k \in 0 .. m - 1
  <2> HIDE DEF u, m, n
  <2> QED BY <1>2, <1>4, <1>6 DEF Waits
<1>9. response[u] = m /\ n = m + 1
  <2> HIDE DEF u, m, n
  <2>1. m \in 0 .. n - 1 /\ n - 1 \in 0 .. n - 1
    BY <1>5, <1>6, <1>7
  <2>2. m = response[u]
    BY <1>5, <1>8, <2>1
  <2>3. n - 1 = response[u]
    BY <1>5, <1>6, <1>7, <1>8, <2>1
  <2> QED BY <1>5, <2>2, <2>3
<1>10. TurnsOf(t)[response[u] + 1] = u
  BY <1>2, TurnsOfFacts
<1> QED BY <1>1, <1>3, <1>5, <1>9, <1>10

\* The replays of both begin with the same turns.
LEMMA SameTurns ==
  ASSUME Basics, NEW t \in Turns, NEW u \in Turns, NEW i, i \in 1 .. Replies(t), i \in 1 .. Replies(u)
  PROVE  TurnsOf(t)[i] = TurnsOf(u)[i]
<1> DEFINE a == TurnsOf(t)[i]
           b == TurnsOf(u)[i]
<1>1. /\ a \in Turns /\ response[a] = i - 1 /\ a \in Replay(t)
      /\ b \in Turns /\ response[b] = i - 1 /\ b \in Replay(u)
  BY TurnsOfFacts
<1>2. status[a] = "completed" /\ status[b] = "completed"
  BY <1>1 DEF Replay
<1> HIDE DEF a, b
<1>3. a = b
  BY <1>1, <1>2 DEF Basics, IInv, ResponseOrdinalsDense
<1> QED BY <1>3 DEF a, b

LEMMA SameReplays ==
  ASSUME Basics, NEW t \in Turns, NEW u \in Turns, NEW n \in Nat,
         n <= Replies(t), n <= Replies(u)
  PROVE  HistoryTo(t, n) = HistoryTo(u, n)
<1>0. Replies(t) \in Nat /\ Replies(u) \in Nat
  BY TurnsOfFacts
<1>1. ASSUME NEW i \in 1 .. n PROVE Replays(t)[i] = Replays(u)[i]
  <2>1. i \in 1 .. Replies(t) /\ i \in 1 .. Replies(u)
    BY <1>0
  <2>2. TurnsOf(t)[i] = TurnsOf(u)[i]
    BY <2>1, SameTurns
  <2>3. i # 1 => TurnsOf(t)[i - 1] = TurnsOf(u)[i - 1]
    <3> SUFFICES ASSUME i # 1 PROVE TurnsOf(t)[i - 1] = TurnsOf(u)[i - 1]
      OBVIOUS
    <3>1. i - 1 \in 1 .. Replies(t) /\ i - 1 \in 1 .. Replies(u)
      BY <1>0
    <3> QED BY <3>1, SameTurns
  <2>4. Replayed(TurnsOf(t), i) = Replayed(TurnsOf(u), i)
    BY <2>2, <2>3 DEF Replayed, ReplayedState
  <2> QED BY <2>1, <2>4, ReplaysType
<1>2. Prefix(Replays(t), n) = Prefix(Replays(u), n)
  BY <1>1 DEF Prefix
<1> QED BY <1>2 DEF HistoryTo

\* The history grows by the turn before.
LEMMA HistoryNext ==
  ASSUME Basics, MessagesWait, NEW t \in Turns, Waits(t), Earlier(t) # {}
  PROVE  History(t) = History(Before(t))
           \o (Markers(StateBefore(Before(t)), StateOf(Before(t)))
                 \o ContextItems(Before(t), context[Before(t)]))
<1> DEFINE u == Before(t)
           m == Replies(u)
<1>1. /\ u \in Turns /\ status[u] = "completed" /\ m \in Nat
      /\ Replies(t) = m + 1 /\ TurnsOf(t)[m + 1] = u
  BY LastReply
<1>2. Waits(u)
  BY <1>1, CompletedWaits
<1> HIDE DEF u, m
<1>3. History(t) = HistoryTo(t, m + 1) /\ History(u) = HistoryTo(u, m)
  BY <1>1, ReplaysType DEF m
<1>4. HistoryTo(t, m + 1) = HistoryTo(t, m) \o Replayed(TurnsOf(t), m + 1)
  <2>1. m + 1 \in 1 .. Replies(t)
    BY <1>1
  <2> QED BY <1>1, <2>1, HistoryGrows
<1>5. HistoryTo(t, m) = HistoryTo(u, m)
  <2>1. m <= Replies(t) /\ m <= Replies(u)
    BY <1>1 DEF m
  <2> QED BY <1>1, <2>1, SameReplays
<1>6. ReplayedState(TurnsOf(t), m + 1) = StateBefore(u)
  <2>1. CASE m = 0
    <3>1. Replay(u) = {}
      <4>1. \A v \in Replay(u) : response[v] + 1 \in 1 .. m
        BY <1>1, TurnsOfFacts DEF m
      <4> QED BY <2>1, <4>1
    <3>2. StateBefore(u) = NoState
      BY <1>1, <1>2, <3>1, NobodyEarlier DEF Waits
    <3>3. m + 1 = 1
      BY <2>1
    <3> QED BY <3>2, <3>3 DEF ReplayedState
  <2>2. CASE m # 0
    <3>1. m \in 1 .. Replies(u) /\ m \in 1 .. Replies(t)
      BY <1>1, <2>2 DEF m
    <3>2. Earlier(u) # {}
      BY <1>1, <1>2, <3>1, TurnsOfFacts DEF Waits
    <3>3. TurnsOf(u)[m] = Before(u)
      BY <1>1, <1>2, <3>2, LastReply DEF m
    <3>4. TurnsOf(t)[m] = Before(u)
      BY <1>1, <3>1, <3>3, SameTurns
    <3>5. StateBefore(u) = StateOf(Before(u))
      BY <1>1, <3>2, LastTurn, EarlierIsLatest
    <3>6. m + 1 # 1 /\ (m + 1) - 1 = m
      BY <1>1, <2>2
    <3> QED BY <3>4, <3>5, <3>6 DEF ReplayedState
  <2> QED BY <2>1, <2>2
<1>7. Replayed(TurnsOf(t), m + 1)
        = Markers(StateBefore(u), StateOf(u)) \o ContextItems(u, context[u])
  BY <1>1, <1>6 DEF Replayed
<1>8. History(t) = History(u) \o (Markers(StateBefore(u), StateOf(u)) \o ContextItems(u, context[u]))
  BY <1>3, <1>4, <1>5, <1>7
<1> QED BY <1>8 DEF u

-----------------------------------------------------------------------------
(* What is stored of an attempt is the state it leads to.                  *)

\* The state that the changes from old to new lead to.
Apply(old, new) ==
  [k \in DOMAIN old \cup ChangedParts(old, new) |->
     IF k \in ChangedParts(old, new) THEN new[k] ELSE old[k]]

LEMMA ApplyFacts ==
  ASSUME NEW old \in States, NEW new \in States
  PROVE  /\ Apply(old, new) \in States
         /\ DOMAIN Apply(old, new) = DOMAIN old \cup ChangedParts(old, new)
         /\ ChangedParts(old, Apply(old, new)) = ChangedParts(old, new)
         /\ Markers(old, Apply(old, new)) = Markers(old, new)
<1> DEFINE C == ChangedParts(old, new)
           a == Apply(old, new)
           K == DOMAIN old \cup C
<1>1. C \subseteq DOMAIN new
  BY DEF ChangedParts
<1>2. /\ DOMAIN a = K /\ a = [k \in K |-> a[k]]
      /\ \A k \in C : a[k] = new[k]
      /\ \A k \in K : k \notin C => a[k] = old[k]
  BY DEF Apply
<1>3. ChangedParts(old, a) = C
  <2>1. CASE old = NoState
    <3>1. DOMAIN old = {}
      BY <2>1, NoStateIsState
    <3>2. \A k \in C : new[k] # NoText
      BY <2>1 DEF ChangedParts
    <3>3. ChangedParts(old, a) = {k \in DOMAIN a : a[k] # NoText}
      BY <2>1 DEF ChangedParts
    <3> HIDE DEF C, a
    <3> QED BY <1>2, <3>1, <3>2, <3>3
  <2>2. CASE old # NoState
    <3>1. \A k \in C : k \notin DOMAIN old \/ old[k] # new[k]
      BY <2>2 DEF ChangedParts
    <3>2. ChangedParts(old, a) = {k \in DOMAIN a : k \notin DOMAIN old \/ old[k] # a[k]}
      BY <2>2 DEF ChangedParts
    <3> HIDE DEF C, a
    <3> QED BY <1>2, <3>1, <3>2
  <2> QED BY <2>1, <2>2
<1>4. a \in States
  <2>1. K \in SUBSET PartKeys
    BY <1>1, StateTypes
  <2>2. \A k \in K : a[k] \in Texts
    BY <1>1, <1>2, StateTypes
  <2> HIDE DEF a, K
  <2>3. a \in [K -> Texts]
    BY <1>2, <2>2
  <2> QED BY <2>1, <2>3, StateIntro
<1>5. Markers(old, a) = Markers(old, new)
  <2> DEFINE e(n) == [i \in DOMAIN Keys |->
               IF Keys[i] \in ChangedParts(old, n) THEN <<Marker(Keys[i], n[Keys[i]])>> ELSE <<>>]
  <2>1. e(a) = e(new)
    <3>1. \A i \in DOMAIN Keys : Keys[i] \in C => a[Keys[i]] = new[Keys[i]]
      BY <1>2
    <3> HIDE DEF a
    <3> QED BY <1>3, <3>1
  <2> HIDE DEF a
  <2>2. Markers(old, a) = FlattenSeq(e(a))
    BY DEF Markers
  <2>3. Markers(old, new) = FlattenSeq(e(new))
    BY DEF Markers
  <2> HIDE DEF e
  <2> QED BY <2>1, <2>2, <2>3
<1> HIDE DEF a
<1> QED BY <1>2, <1>3, <1>4, <1>5 DEF a

\* A turn whose stored markers cover the parts before it has their state.
LEMMA StateOfSaved ==
  ASSUME Basics, NEW t \in Turns, DOMAIN StateBefore(t) \subseteq DOMAIN saved[t]
  PROVE  StateOf(t) = saved[t]
<1> DEFINE S == Earlier(t) \cup {t}
<1>1. /\ TypeOK /\ Orders /\ SavedOK /\ saved[t] \in States
      /\ Earlier(t) \in SUBSET Turns /\ S \in SUBSET Turns
  BY BasicTypes, ReplayIsEarlier DEF SavedOK
<1>2. \A v \in Earlier(t) : ~(ordinal[t] <= ordinal[v])
  <2>1. \A v \in Earlier(t) : ordinal[v] < ordinal[t] /\ v \in Turns
    BY DEF Earlier
  <2>2. \A v \in Turns : ordinal[v] \in Int
    BY <1>1 DEF TypeOK, Ordinals, NoOrdinal
  <2> SUFFICES ASSUME NEW v \in Earlier(t) PROVE ~(ordinal[t] <= ordinal[v])
    OBVIOUS
  <2>3. ordinal[v] < ordinal[t] /\ ordinal[v] \in Int /\ ordinal[t] \in Int
    BY <2>1, <2>2
  <2> QED BY ONLY <2>3
<1>3. \A k \in PartKeys : k \in DOMAIN StateBefore(t) <=> \E u \in Earlier(t) : k \in DOMAIN saved[u]
  BY <1>1, FoldFacts DEF StateBefore
<1>4. /\ StateOf(t) \in States
      /\ \A k \in PartKeys : k \in DOMAIN StateOf(t) <=> \E u \in S : k \in DOMAIN saved[u]
      /\ \A k \in DOMAIN StateOf(t) :
              \E u \in S : /\ k \in DOMAIN saved[u]
                           /\ StateOf(t)[k] = saved[u][k]
                           /\ \A v \in S : k \in DOMAIN saved[v] => ordinal[v] <= ordinal[u]
  BY <1>1, FoldFacts DEF StateOf
<1>5. ASSUME NEW k \in PartKeys
      PROVE  k \in DOMAIN StateOf(t) <=> k \in DOMAIN saved[t]
  BY <1>3, <1>4
<1>6. ASSUME NEW k \in PartKeys, k \in DOMAIN StateOf(t)
      PROVE  StateOf(t)[k] = saved[t][k]
  <2>1. PICK u \in S : /\ k \in DOMAIN saved[u]
                       /\ StateOf(t)[k] = saved[u][k]
                       /\ \A v \in S : k \in DOMAIN saved[v] => ordinal[v] <= ordinal[u]
    BY <1>4, <1>6
  <2>2. ordinal[t] <= ordinal[u]
    BY <1>5, <1>6, <2>1
  <2> QED BY <1>2, <2>1, <2>2
<1> QED BY <1>1, <1>4, <1>5, <1>6, EqualStates

-----------------------------------------------------------------------------
(* The input of a turn that waited: that of the turn before, and its own   *)
(* changes, notes and message.                                             *)

Basis(t) == IF Earlier(t) = {} THEN <<>> ELSE draft[Before(t)].input
NotedBefore(t) == UNION {context[u] : u \in Earlier(t)}

Fits(t, parts, notes, input) ==
  /\ input = (Basis(t) \o Markers(StateBefore(t), parts)) \o ContextItems(t, notes)
  /\ \E k \in DOMAIN parts : parts[k] # NoText
  /\ LastMarkers(input, Texts) = Apply(StateBefore(t), parts)
  /\ \A u \in Earlier(t) : IsPrefix(draft[u].input, input)
  /\ People[t] \subseteq notes \cup NotedBefore(t)
  /\ \A u \in Users : /\ PlacesOf(u, input) # {} <=> u \in notes \cup NotedBefore(t)
                      /\ AtMostOnce(u, input)

Waiting(t) ==
  /\ Fits(t, draft[t].parts, draft[t].notes, draft[t].input)
  /\ t \in stored => saved[t] = LastMarkers(draft[t].input, Texts)

InputWaits == MessagesWait => \A t \in Assembled : Waiting(t)

\* Markers after a transcript that tells a state make it tell the next.
LEMMA MarkersApply ==
  ASSUME NEW before \in Seq(Items), NEW rest \in Seq(Items), NEW old \in States, NEW new \in States,
         LastMarkers(before, Texts) = old,
         \A k : Silent(rest, Texts, k)
  PROVE  LastMarkers((before \o Markers(old, new)) \o rest, Texts) = Apply(old, new)
<1> DEFINE m == Markers(old, new)
           s == (before \o m) \o rest
           L == LastMarkers(s, Texts)
           C == ChangedParts(old, new)
<1>1. m \in Seq(Items) /\ before \o m \in Seq(Items) /\ s \in Seq(Items)
  BY MarkerElements, ConcatProperties
<1>2. L \in States
  <2> HIDE DEF s
  <2> QED BY <1>1, LastMarkersState
<1>3. /\ Apply(old, new) \in States
      /\ DOMAIN Apply(old, new) = DOMAIN old \cup C
      /\ \A k \in C : Apply(old, new)[k] = new[k]
      /\ \A k \in DOMAIN old : k \notin C => Apply(old, new)[k] = old[k]
  BY ApplyFacts DEF Apply
<1>4. ASSUME NEW k \in C PROVE k \in DOMAIN L /\ L[k] = new[k]
  <2>1. k \in PartKeys /\ new[k] \in Texts
    BY StateTypes DEF ChangedParts
  <2>2. Tells(m, Texts, k, new[k])
    BY <1>4, <2>1, MarkersTell
  <2> HIDE DEF m, C
  <2>3. Tells(before \o m, Texts, k, new[k])
    BY <1>1, <2>2, ConcatTells
  <2>4. Tells(s, Texts, k, new[k])
    BY <1>1, <2>3, ConcatTells
  <2> HIDE DEF s
  <2> QED BY <1>1, <2>1, <2>4, LastMarkersTell
<1>5. ASSUME NEW k \in DOMAIN old, k \notin C PROVE k \in DOMAIN L /\ L[k] = old[k]
  <2>1. k \in PartKeys
    BY StateTypes
  <2>2. Silent(m, Texts, k)
    BY <1>5, MarkersTell
  <2>3. Tells(before, Texts, k, old[k])
    BY <2>1, LastMarkersTell
  <2> HIDE DEF m, C
  <2>4. Tells(before \o m, Texts, k, old[k])
    BY <1>1, <2>2, <2>3, ConcatTells
  <2>5. Tells(s, Texts, k, old[k])
    BY <1>1, <2>4, ConcatTells
  <2> HIDE DEF s
  <2> QED BY <1>1, <2>1, <2>5, LastMarkersTell
<1>6. ASSUME NEW k \in PartKeys, k \notin DOMAIN old, k \notin C PROVE k \notin DOMAIN L
  <2>1. Silent(m, Texts, k)
    BY <1>6, MarkersTell
  <2>2. Silent(before, Texts, k)
    BY <1>6, LastMarkersTell
  <2> HIDE DEF m, C
  <2>3. Silent(before \o m, Texts, k)
    BY <1>1, <2>1, <2>2, ConcatTells
  <2>4. Silent(s, Texts, k)
    BY <1>1, <2>3, ConcatTells
  <2> HIDE DEF s
  <2> QED BY <1>1, <2>4, LastMarkersTell
<1> HIDE DEF L, C
<1>7. L = Apply(old, new)
  <2>1. \A k \in PartKeys : k \in DOMAIN L <=> k \in DOMAIN Apply(old, new)
    BY <1>3, <1>4, <1>5, <1>6
  <2>2. \A k \in PartKeys : k \in DOMAIN L => L[k] = Apply(old, new)[k]
    BY <1>3, <1>4, <1>5, <1>6
  <2> QED BY <1>2, <1>3, <2>1, <2>2, EqualStates
<1> QED BY <1>7 DEF L

\* The state after a completed turn is what its attempt led to.
LEMMA WaitingState ==
  ASSUME Basics, MessagesWait, InputWaits, NEW u \in Turns, status[u] = "completed"
  PROVE  /\ Waiting(u)
         /\ context[u] = draft[u].notes
         /\ StateOf(u) = Apply(StateBefore(u), draft[u].parts)
         /\ StateOf(u) = LastMarkers(draft[u].input, Texts)
<1>1. u \in stored /\ Waiting(u)
  BY CompletedWaits DEF InputWaits
<1>2. /\ saved[u] = LastMarkers(draft[u].input, Texts)
      /\ LastMarkers(draft[u].input, Texts) = Apply(StateBefore(u), draft[u].parts)
  BY <1>1 DEF Waiting, Fits
<1>3. DOMAIN StateBefore(u) \subseteq DOMAIN saved[u]
  <2>1. StateBefore(u) \in States /\ draft[u].parts \in States
    BY BasicTypes
  <2>2. DOMAIN Apply(StateBefore(u), draft[u].parts)
          = DOMAIN StateBefore(u) \cup ChangedParts(StateBefore(u), draft[u].parts)
    BY <2>1, ApplyFacts
  <2> QED BY <1>2, <2>2
<1>4. context[u] = draft[u].notes
  BY <1>1 DEF Basics, Lifecycle
<1> QED BY <1>1, <1>2, <1>3, <1>4, StateOfSaved

LEMMA BasisType ==
  ASSUME Basics, NEW t \in Turns
  PROVE  Basis(t) \in Seq(Items)
<1>1. Earlier(t) # {} => Before(t) \in Turns
  BY LastTurn
<1> QED BY <1>1, BasicTypes DEF Basis

LEMMA HistoryIsBasisNext ==
  ASSUME Basics, MessagesWait, InputWaits, NEW t \in Turns, Waits(t),
         Earlier(t) # {} => History(Before(t)) = Basis(Before(t))
  PROVE  History(t) = Basis(t)
<1>1. CASE Earlier(t) = {}
  BY <1>1, NobodyEarlier DEF Basis
<1>2. CASE Earlier(t) # {}
  <2> DEFINE u == Before(t)
  <2>1. u \in Turns /\ status[u] = "completed"
    BY <1>2, LastReply
  <2> HIDE DEF u
  <2>2. /\ Waiting(u) /\ context[u] = draft[u].notes
        /\ StateOf(u) = Apply(StateBefore(u), draft[u].parts)
    BY <2>1, WaitingState
  <2> DEFINE m == Markers(StateBefore(u), draft[u].parts)
             c == ContextItems(u, draft[u].notes)
  <2>3. Markers(StateBefore(u), StateOf(u)) = m
    BY <2>1, <2>2, BasicTypes, ApplyFacts
  <2>4. History(t) = Basis(u) \o (m \o c)
    BY <1>2, <2>2, <2>3, HistoryNext DEF u
  <2>5. draft[u].input = (Basis(u) \o m) \o c
    BY <2>2 DEF Waiting, Fits
  <2>6. Basis(u) \in Seq(Items) /\ m \in Seq(Items) /\ c \in Seq(Items)
    BY <2>1, BasisType, BasicTypes, MarkerElements, ContextElements
  <2> HIDE DEF m, c
  <2>7. (Basis(u) \o m) \o c = Basis(u) \o (m \o c)
    BY <2>6, SeqIsSeq, ConcatIsAssociative
  <2>8. Basis(t) = draft[u].input
    BY <1>2 DEF Basis, u
  <2> QED BY <2>4, <2>5, <2>7, <2>8
<1> QED BY <1>1, <1>2

LEMMA HistoryIsBasis ==
  ASSUME Basics, MessagesWait, InputWaits, NEW t \in Turns, Waits(t)
  PROVE  History(t) = Basis(t)
<1> DEFINE P == {n \in Nat : \A u \in Turns : Waits(u) /\ Replies(u) = n => History(u) = Basis(u)}
<1>1. 0 \in P
  <2> SUFFICES ASSUME NEW u \in Turns, Waits(u), Replies(u) = 0 PROVE History(u) = Basis(u)
    OBVIOUS
  <2>1. ASSUME Earlier(u) # {} PROVE FALSE
    BY <2>1, LastReply
  <2> QED BY <2>1, HistoryIsBasisNext
<1>2. ASSUME NEW n \in P PROVE n + 1 \in P
  <2> SUFFICES ASSUME NEW u \in Turns, Waits(u), Replies(u) = n + 1 PROVE History(u) = Basis(u)
    OBVIOUS
  <2>1. ASSUME Earlier(u) # {} PROVE History(Before(u)) = Basis(Before(u))
    <3>1. /\ Before(u) \in Turns /\ status[Before(u)] = "completed"
          /\ Replies(Before(u)) \in Nat /\ Replies(u) = Replies(Before(u)) + 1
      BY <2>1, LastReply
    <3>2. Waits(Before(u)) /\ Replies(Before(u)) = n
      BY <3>1, CompletedWaits
    <3> QED BY <1>2, <3>1, <3>2
  <2> HIDE DEF P
  <2> QED BY <2>1, HistoryIsBasisNext
<1>3. P = Nat
  <2>1. P \in SUBSET Nat
    OBVIOUS
  <2> HIDE DEF P
  <2> QED BY <1>1, <1>2, <2>1, Induct
<1>4. Replies(t) \in Nat
  BY TurnsOfFacts
<1> QED BY <1>3, <1>4

\* The basis tells the state before the turn, holds the inputs of all turns
\* before it, and notes those noted so far once.
LEMMA BasisFacts ==
  ASSUME Basics, MessagesWait, InputWaits, NEW t \in Turns, Waits(t)
  PROVE  /\ LastMarkers(Basis(t), Texts) = StateBefore(t)
         /\ \A u \in Earlier(t) : IsPrefix(draft[u].input, Basis(t))
         /\ \A u \in Users : /\ PlacesOf(u, Basis(t)) # {} <=> u \in NotedBefore(t)
                             /\ AtMostOnce(u, Basis(t))
<1>1. CASE Earlier(t) = {}
  <2>1. Basis(t) = << >> /\ StateBefore(t) = NoState /\ NotedBefore(t) = {}
    BY <1>1, NobodyEarlier DEF Basis, NotedBefore
  <2>2. << >> \in Seq(Items) /\ DOMAIN << >> = {}
    OBVIOUS
  <2>3. LastMarkers(<< >>, Texts) = NoState
    <3>1. \A k : Silent(<< >>, Texts, k)
      BY <2>2 DEF Silent
    <3>2. LastMarkers(<< >>, Texts) \in States
      BY <2>2, LastMarkersState
    <3>3. DOMAIN LastMarkers(<< >>, Texts) = {}
      <4>1. \A k \in PartKeys : k \notin DOMAIN LastMarkers(<< >>, Texts)
        BY <2>2, <3>1, LastMarkersTell
      <4> QED BY <3>2, <4>1, StateTypes
    <3> QED BY <3>2, <3>3, EmptyState
  <2>4. \A u : PlacesOf(u, << >>) = {} /\ AtMostOnce(u, << >>)
    BY <2>2 DEF PlacesOf, AtMostOnce
  <2> QED BY <1>1, <2>1, <2>3, <2>4
<1>2. CASE Earlier(t) # {}
  <2> DEFINE w == Before(t)
  <2>1. /\ w \in Turns /\ status[w] = "completed" /\ w \in Earlier(t)
        /\ \A v \in Earlier(t) : ordinal[v] <= ordinal[w]
    BY <1>2, LastReply, LastTurn
  <2>2. Basis(t) = draft[w].input
    BY <1>2 DEF Basis
  <2> HIDE DEF w
  <2>3. Earlier(t) = Earlier(w) \cup {w} /\ StateBefore(t) = StateOf(w)
    BY <2>1, EarlierIsLatest
  <2>4. /\ Waiting(w) /\ context[w] = draft[w].notes
        /\ StateOf(w) = LastMarkers(draft[w].input, Texts)
    BY <2>1, WaitingState
  <2>5. draft[w].input \in Seq(Items)
    BY <2>1, BasicTypes
  <2>6. IsPrefix(draft[w].input, draft[w].input)
    BY <2>5, PrefixPointwise
  <2>7. \A u \in Earlier(t) : IsPrefix(draft[u].input, draft[w].input)
    BY <2>3, <2>4, <2>6 DEF Waiting, Fits
  <2>8. NotedBefore(t) = draft[w].notes \cup NotedBefore(w)
    BY <2>3, <2>4 DEF NotedBefore
  <2> QED BY <2>2, <2>3, <2>4, <2>7, <2>8 DEF Waiting, Fits
<1> QED BY <1>1, <1>2

LEMMA AttemptFits ==
  ASSUME Basics, MessagesWait, InputWaits, NEW t \in Turns, Waits(t),
         NEW parts \in States, \E k \in DOMAIN parts : parts[k] # NoText,
         NEW notes \in SUBSET Users, IsFiniteSet(notes),
         People[t] \subseteq notes \cup NotedBefore(t), notes \cap NotedBefore(t) = {}
  PROVE  Fits(t, parts, notes, Transcript(t, parts, notes))
<1> DEFINE b == Basis(t)
           old == StateBefore(t)
           m == Markers(old, parts)
           c == ContextItems(t, notes)
           s == (b \o m) \o c
<1>1. /\ b \in Seq(Items) /\ old \in States /\ m \in Seq(Items) /\ c \in Seq(Items)
      /\ b \o m \in Seq(Items) /\ m \o c \in Seq(Items)
  <2>1. b \in Seq(Items) /\ old \in States
    BY BasisType, BasicTypes
  <2>2. m \in Seq(Items) /\ c \in Seq(Items)
    BY <2>1, MarkerElements, ContextElements
  <2> HIDE DEF b, m, c
  <2> QED BY <2>1, <2>2, ConcatProperties
<1>2. Transcript(t, parts, notes) = s
  BY HistoryIsBasis DEF Transcript
<1>3. s = b \o (m \o c) /\ s \in Seq(Items)
  <2> HIDE DEF b, m, c
  <2> QED BY <1>1, SeqIsSeq, ConcatIsAssociative, ConcatProperties
<1>4. LastMarkers(s, Texts) = Apply(old, parts)
  <2>1. LastMarkers(b, Texts) = old /\ \A k : Silent(c, Texts, k)
    BY BasisFacts, ContextElements
  <2> HIDE DEF b, old, c
  <2> QED BY <1>1, <2>1, MarkersApply
<1>5. \A u \in Earlier(t) : IsPrefix(draft[u].input, s)
  <2> SUFFICES ASSUME NEW u \in Earlier(t) PROVE IsPrefix(draft[u].input, s)
    OBVIOUS
  <2>1. IsPrefix(draft[u].input, b) /\ draft[u].input \in Seq(Items)
    BY BasisFacts, BasicTypes, ReplayIsEarlier
  <2> HIDE DEF b, m, c, s
  <2>2. IsPrefix(b, s)
    BY <1>1, <1>3, PrefixOfConcat
  <2> QED BY <1>1, <1>3, <2>1, <2>2, PrefixTransitive
<1>6. ASSUME NEW u \in Users
      PROVE  /\ PlacesOf(u, s) # {} <=> u \in notes \cup NotedBefore(t)
             /\ AtMostOnce(u, s)
  <2>1. (PlacesOf(u, b) # {} <=> u \in NotedBefore(t)) /\ AtMostOnce(u, b)
    BY BasisFacts
  <2>2. PlacesOf(u, m) = {} /\ AtMostOnce(u, m)
    BY <1>1, MarkersNoteNobody DEF AtMostOnce
  <2>3. (PlacesOf(u, c) # {} <=> u \in notes) /\ AtMostOnce(u, c)
    BY ContextNotes
  <2> HIDE DEF b, m, c
  <2>4. (PlacesOf(u, b \o m) # {} <=> u \in NotedBefore(t)) /\ AtMostOnce(u, b \o m)
    BY <1>1, <2>1, <2>2, ConcatNotes
  <2> DEFINE d == b \o m
  <2>5. (PlacesOf(u, d) # {} <=> u \in NotedBefore(t)) /\ AtMostOnce(u, d) /\ d \in Seq(Items)
    BY <1>1, <2>4
  <2> HIDE DEF d
  <2>6. /\ PlacesOf(u, d \o c) # {} <=> u \in notes \cup NotedBefore(t)
        /\ AtMostOnce(u, d \o c)
    BY <1>1, <2>3, <2>5, ConcatNotes
  <2> QED BY <2>6 DEF d
<1> HIDE DEF b, m, c
<1> QED BY <1>2, <1>4, <1>5, <1>6 DEF Fits, b, m, c

LEMMA ApplyTwice ==
  ASSUME NEW old \in States, NEW new \in States
  PROVE  Apply(old, Apply(old, new)) = Apply(old, new)
<1> DEFINE a == Apply(old, new)
           C == ChangedParts(old, new)
<1>1. a \in States /\ DOMAIN a = DOMAIN old \cup C
  BY ApplyFacts
<1>2. ChangedParts(old, a) = C
  BY ApplyFacts
<1>3. a = [k \in DOMAIN a |-> a[k]] /\ \A k \in DOMAIN a : k \notin C => a[k] = old[k]
  BY DEF Apply
<1>4. Apply(old, a) = [k \in DOMAIN old \cup ChangedParts(old, a) |->
                         IF k \in ChangedParts(old, a) THEN a[k] ELSE old[k]]
  BY DEF Apply
<1> HIDE DEF a, C
<1>5. Apply(old, a) = [k \in DOMAIN a |-> a[k]]
  BY <1>1, <1>2, <1>3, <1>4
<1> QED BY <1>3, <1>5 DEF a

\* A retry in such a conversation asks for the stored state and gets the same input.
LEMMA RetryFits ==
  ASSUME Basics, MessagesWait, InputWaits, NEW t \in Assembled, t \in stored,
         NEW parts \in RetryInstructions(t)
  PROVE  /\ Transcript(t, parts, context[t]) = draft[t].input
         /\ Fits(t, parts, context[t], draft[t].input)
         /\ Waits(t)
<1>1. t \in Turns /\ Waits(t) /\ Waiting(t)
  BY AssembledBegan DEF MessagesWait, Waits, InputWaits
<1> DEFINE old == StateBefore(t)
           was == draft[t].parts
<1>2. old \in States /\ was \in States
  BY <1>1, BasicTypes
<1>3. /\ saved[t] = Apply(old, was)
      /\ draft[t].input = (Basis(t) \o Markers(old, was)) \o ContextItems(t, draft[t].notes)
      /\ LastMarkers(draft[t].input, Texts) = Apply(old, was)
      /\ \E k \in DOMAIN was : was[k] # NoText
  BY <1>1 DEF Waiting, Fits
<1>4. context[t] = draft[t].notes
  BY <1>1 DEF Basics, Lifecycle
<1>5. StateOf(t) = Apply(old, was)
  <2>1. DOMAIN Apply(old, was) = DOMAIN old \cup ChangedParts(old, was)
    BY <1>2, ApplyFacts
  <2>2. DOMAIN StateBefore(t) \subseteq DOMAIN saved[t]
    BY <1>3, <2>1
  <2> QED BY <1>1, <1>3, <2>2, StateOfSaved
<1>6. \E k \in DOMAIN StateOf(t) : StateOf(t)[k] # NoText
  <2>1. PICK k \in DOMAIN was : was[k] # NoText
    BY <1>3
  <2>2. CASE k \in ChangedParts(old, was)
    BY <1>5, <2>1, <2>2 DEF Apply
  <2>3. CASE k \notin ChangedParts(old, was)
    <3>1. k \in DOMAIN old /\ old[k] = was[k]
      BY <2>1, <2>3 DEF ChangedParts
    <3> QED BY <1>5, <2>1, <2>3, <3>1 DEF Apply
  <2> QED BY <2>2, <2>3
<1>7. parts = StateOf(t)
  <2>1. StateOf(t) # NoState
    BY <1>6, NoStateIsState
  <2> QED BY <2>1 DEF RetryInstructions
<1>8. Markers(old, parts) = Markers(old, was)
  BY <1>2, <1>5, <1>7, ApplyFacts
<1>9. Apply(old, parts) = Apply(old, was)
  BY <1>2, <1>5, <1>7, ApplyTwice
<1>10. Transcript(t, parts, context[t]) = draft[t].input
  BY <1>1, <1>3, <1>4, <1>8, HistoryIsBasis DEF Transcript
<1> HIDE DEF old, was
<1>11. Fits(t, parts, context[t], draft[t].input)
  BY <1>1, <1>3, <1>4, <1>6, <1>7, <1>8, <1>9 DEF Waiting, Fits, old, was
<1> QED BY <1>1, <1>10, <1>11

-----------------------------------------------------------------------------
(* What a step leaves alone.                                               *)

LEMMA CompletedKept ==
  ASSUME Basics, [InputNext]_allVars, NEW u \in Turns, status[u] = "completed"
  PROVE  draft'[u] = draft[u] /\ saved'[u] = saved[u] /\ context'[u] = context[u]
<1>1. ASSUME NEW v \in Turns, AssembleInput(v) \/ AssembleRetry(v)
      PROVE  draft'[u] = draft[u] /\ saved'[u] = saved[u] /\ context'[u] = context[u]
  BY <1>1 DEF AssembleInput, AssembleRetry, AssembleWith, AssemblePrompt, Basics, Shape
<1>2. ASSUME NEW v \in Turns, SaveTurnInput(v)
      PROVE  draft'[u] = draft[u] /\ saved'[u] = saved[u] /\ context'[u] = context[u]
  BY <1>2 DEF SaveTurnInput, Basics, Shape, Lifecycle
<1> QED BY <1>1, <1>2 DEF InputNext, InputStep, Untouched, allVars, inputVars

StateIsFold ==
  \A t \in Turns :
    /\ StateBefore(t) \in States
    /\ \A k \in PartKeys : k \in DOMAIN StateBefore(t) <=> \E u \in Earlier(t) : k \in DOMAIN saved[u]
    /\ \A k \in DOMAIN StateBefore(t) :
         \E u \in Earlier(t) : /\ k \in DOMAIN saved[u]
                               /\ StateBefore(t)[k] = saved[u][k]
                               /\ \A v \in Earlier(t) : k \in DOMAIN saved[v] => ordinal[v] <= ordinal[u]

BeforeIsLast ==
  \A t \in Turns : Earlier(t) # {} =>
    /\ Before(t) \in Earlier(t)
    /\ \A v \in Earlier(t) : ordinal[v] <= ordinal[Before(t)]

LEMMA BeforeFacts == Basics => StateIsFold /\ BeforeIsLast
<1>1. ASSUME Basics PROVE /\ TypeOK /\ Orders /\ SavedOK
                          /\ \A t \in Turns : Earlier(t) \in SUBSET Turns
  BY <1>1, BasicTypes, ReplayIsEarlier
<1>2. Basics => StateIsFold
  BY <1>1, FoldFacts DEF StateBefore, StateIsFold
<1>3. Basics => BeforeIsLast
  BY LastTurn DEF BeforeIsLast
<1> QED BY <1>2, <1>3

LEMMA BeforeFactsNext == Basics' => StateIsFold' /\ BeforeIsLast'
BY BeforeFacts, PTL

LEMMA BasisKept ==
  ASSUME Basics, Basics', [InputNext]_allVars, NEW t \in Turns, Waits(t)
  PROVE  /\ Earlier(t)' = Earlier(t)
         /\ StateBefore(t)' = StateBefore(t)
         /\ Basis(t)' = Basis(t)
         /\ NotedBefore(t)' = NotedBefore(t)
         /\ \A u \in Earlier(t) : draft'[u] = draft[u]
<1>1. [Next]_vars
  BY InputRefines
<1>2. /\ Earlier(t)' = Earlier(t)
      /\ \A u \in Earlier(t) : ordinal'[u] = ordinal[u] /\ u \in Turns
  BY <1>1, EarlierKept, ReplayIsEarlier DEF Waits
<1>3. \A u \in Earlier(t) : draft'[u] = draft[u] /\ saved'[u] = saved[u] /\ context'[u] = context[u]
  BY <1>2, CompletedKept DEF Waits, Replay
<1>4. \A u, v \in Earlier(t) : ordinal[u] <= ordinal[v] /\ ordinal[v] <= ordinal[u] => u = v
  BY <1>2 DEF Basics, Orders, IInv, TypeOK, Ordinals, NoOrdinal, Earlier
<1>5. NotedBefore(t)' = NotedBefore(t)
  BY <1>2, <1>3 DEF NotedBefore
<1>6. Basis(t)' = Basis(t)
  <2>1. CASE Earlier(t) = {}
    BY <1>2, <2>1 DEF Basis
  <2>2. CASE Earlier(t) # {}
    <3>1. /\ Before(t) \in Earlier(t)
          /\ \A v \in Earlier(t) : ordinal[v] <= ordinal[Before(t)]
      BY <2>2, BeforeFacts DEF BeforeIsLast
    <3>3. /\ Before(t)' \in Earlier(t)
          /\ \A v \in Earlier(t) : ordinal'[v] <= ordinal'[Before(t)']
      BY <1>2, <2>2, BeforeFactsNext DEF BeforeIsLast
    <3>4. Before(t)' = Before(t)
      BY <1>2, <1>4, <3>1, <3>3
    <3> QED BY <1>2, <1>3, <2>2, <3>1, <3>4 DEF Basis
  <2> QED BY <2>1, <2>2
<1>7. StateBefore(t)' = StateBefore(t)
  <2>1. /\ StateBefore(t) \in States
        /\ \A k \in PartKeys : k \in DOMAIN StateBefore(t) <=> \E u \in Earlier(t) : k \in DOMAIN saved[u]
        /\ \A k \in DOMAIN StateBefore(t) :
             \E u \in Earlier(t) : /\ k \in DOMAIN saved[u]
                                   /\ StateBefore(t)[k] = saved[u][k]
                                   /\ \A v \in Earlier(t) : k \in DOMAIN saved[v] => ordinal[v] <= ordinal[u]
    BY BeforeFacts DEF StateIsFold
  <2> DEFINE new == StateBefore(t)'
             old == StateBefore(t)
  <2>3. /\ new \in States
        /\ \A k \in PartKeys : k \in DOMAIN new <=> \E u \in Earlier(t) : k \in DOMAIN saved'[u]
        /\ \A k \in DOMAIN new :
             \E u \in Earlier(t) : /\ k \in DOMAIN saved'[u]
                                   /\ new[k] = saved'[u][k]
                                   /\ \A v \in Earlier(t) : k \in DOMAIN saved'[v] => ordinal'[v] <= ordinal'[u]
    BY <1>2, BeforeFactsNext DEF StateIsFold
  <2> HIDE DEF new, old
  <2>4. \A k \in PartKeys : k \in DOMAIN new <=> k \in DOMAIN old
    BY <1>3, <2>1, <2>3 DEF old
  <2>5. ASSUME NEW k \in PartKeys, k \in DOMAIN new PROVE new[k] = old[k]
    <3>1. PICK u \in Earlier(t) : /\ k \in DOMAIN saved[u]
                                  /\ old[k] = saved[u][k]
                                  /\ \A v \in Earlier(t) : k \in DOMAIN saved[v] => ordinal[v] <= ordinal[u]
      BY <2>1, <2>4, <2>5 DEF old
    <3>2. PICK v \in Earlier(t) : /\ k \in DOMAIN saved[v]
                                  /\ new[k] = saved[v][k]
                                  /\ \A w \in Earlier(t) : k \in DOMAIN saved[w] => ordinal[w] <= ordinal[v]
      BY <1>2, <1>3, <2>3, <2>5
    <3>3. u = v
      BY <1>4, <3>1, <3>2
    <3> QED BY <3>1, <3>2, <3>3
  <2>6. new = old
    BY <2>1, <2>3, <2>4, <2>5, EqualStates DEF old
  <2> QED BY <2>6 DEF new, old
<1> QED BY <1>2, <1>3, <1>5, <1>6, <1>7

\* Once a message did not wait, the conversation is no longer one whose messages wait.
LEMMA WaitedBefore ==
  ASSUME Basics, [InputNext]_allVars, MessagesWait'
  PROVE  MessagesWait
<1> SUFFICES ASSUME NEW t \in Assembled PROVE prompt[t] = Earlier(t)
  BY DEF MessagesWait
<1>1. [Next]_vars
  BY InputRefines
<1>2. t \in Turns /\ ordinal[t] # NoOrdinal /\ prompt[t] = Replay(t) /\ prompt[t] # NoPrompt
  BY AssembledBegan DEF Assembled
<1>3. prompt'[t] = prompt[t]
  <2>1. CASE AssemblePrompt(t)
    BY <1>2, <2>1 DEF AssemblePrompt, Basics, IInv, TypeOK
  <2>2. prompt'[t] = prompt[t] \/ AssemblePrompt(t)
    BY <1>1, <1>2 DEF Basics, IInv, TypeOK, Next, TurnStep, vars, columns, Tick, SendMessage,
           BeginTurn, BeginTurnWith, AssemblePrompt, StartCompletion, CommitCompletion,
           CommitNumbering, FinishWithout, PrepareRetry
  <2> QED BY <2>1, <2>2
<1>4. Earlier(t)' = Earlier(t)
  BY <1>1, <1>2, EarlierKept
<1> QED BY <1>2, <1>3, <1>4 DEF MessagesWait, Assembled

\* Nobody after a pending turn has assembled an input yet.
LEMMA NotesAreEarlier ==
  ASSUME Basics, MessagesWait, NEW t \in Turns, status[t] = "pending", t \notin stored
  PROVE  /\ People[t] \subseteq NewNotes(t) \cup NotedBefore(t)
         /\ NewNotes(t) \cap NotedBefore(t) = {}
<1>1. ASSUME NEW v \in Turns, context[v] # {} PROVE v \in Earlier(t)
  <2>1. v \in stored /\ v # t
    BY <1>1 DEF Basics, Lifecycle
  <2>2. v \in Assembled
    BY <2>1 DEF Basics, Lifecycle, Assembled
  <2>3. ordinal[v] # NoOrdinal /\ Replay(v) = Earlier(v)
    BY <2>2, AssembledBegan DEF MessagesWait
  <2>4. t \notin Earlier(v)
    BY <2>3 DEF Replay
  <2>5. ordinal[t] # NoOrdinal /\ ordinal[t] # ordinal[v]
    BY <2>1, <2>3 DEF Basics, Orders
  <2>6. ordinal[v] < ordinal[t]
    BY <2>4, <2>5 DEF Earlier, Basics, IInv, TypeOK, Ordinals, NoOrdinal
  <2> QED BY <2>3, <2>6 DEF Earlier
<1>2. \A u \in Turns : context[u] \subseteq NotedBefore(t)
  BY <1>1 DEF NotedBefore
<1>3. NotedBefore(t) \subseteq UNION {context[u] : u \in Turns}
  BY ReplayIsEarlier DEF NotedBefore
<1> QED BY <1>2, <1>3 DEF NewNotes

\* The input a turn gets when it is assembled.
LEMMA AssembledFits ==
  ASSUME Basics, MessagesWait, InputWaits, NEW t \in Turns, Waits(t),
         AssembleInput(t) \/ AssembleRetry(t)
  PROVE  /\ Fits(t, draft'[t].parts, draft'[t].notes, draft'[t].input)
         /\ t \in stored => draft'[t].input = draft[t].input
         /\ AssembleInput(t) => t \notin stored
         /\ AssembleRetry(t) => t \in stored
<1>1. PICK parts \in States, notes \in SUBSET Users :
           /\ IsFiniteSet(notes)
           /\ draft' = [draft EXCEPT ![t] = [parts |-> parts, notes |-> notes,
                                             input |-> Transcript(t, parts, notes)]]
           /\ AssembleInput(t) => parts \in Prompts /\ notes = NewNotes(t)
           /\ AssembleRetry(t) => parts \in RetryInstructions(t) /\ notes = context[t]
  BY Attempt
<1>2. /\ draft'[t].parts = parts /\ draft'[t].notes = notes
      /\ draft'[t].input = Transcript(t, parts, notes)
  BY <1>1 DEF Basics, Shape
<1>3. status[t] = "pending"
  BY DEF AssembleInput, AssembleRetry, AssembleWith, AssemblePrompt
<1>4. CASE AssembleInput(t)
  <2>1. t \notin stored /\ parts \in Prompts /\ notes = NewNotes(t)
    BY <1>1, <1>4 DEF AssembleInput
  <2>2. \E k \in DOMAIN parts : parts[k] # NoText
    BY <2>1, PromptsAssumption
  <2>3. Fits(t, parts, notes, Transcript(t, parts, notes))
    BY <1>1, <1>3, <2>1, <2>2, NotesAreEarlier, AttemptFits
  <2> QED BY <1>2, <2>1, <2>3 DEF AssembleRetry
<1>5. CASE AssembleRetry(t)
  <2>1. t \in stored /\ parts \in RetryInstructions(t) /\ notes = context[t]
    BY <1>1, <1>5 DEF AssembleRetry
  <2>2. t \in Assembled
    BY <2>1 DEF Basics, Lifecycle, Assembled
  <2>3. /\ Transcript(t, parts, context[t]) = draft[t].input
        /\ Fits(t, parts, context[t], draft[t].input)
    BY <2>1, <2>2, RetryFits
  <2> QED BY <1>2, <2>1, <2>3 DEF AssembleInput
<1> QED BY <1>4, <1>5

LEMMA InputWaitsStep ==
  ASSUME Basics, Basics', InputWaits, [InputNext]_allVars
  PROVE  InputWaits'
<1> SUFFICES ASSUME MessagesWait', NEW t \in Assembled' PROVE Waiting(t)'
  BY DEF InputWaits
<1>0. MessagesWait /\ t \in Turns /\ [Next]_vars
  BY WaitedBefore, InputRefines DEF Assembled
<1>1. ASSUME Waits(t), Fits(t, draft'[t].parts, draft'[t].notes, draft'[t].input)
      PROVE  Fits(t, draft[t].parts, draft[t].notes, draft[t].input)'
  BY <1>0, <1>1, BasisKept DEF Fits
<1>2. ASSUME t \in Assembled PROVE Waiting(t) /\ Waits(t)
  BY <1>0, <1>2, AssembledBegan DEF InputWaits, MessagesWait, Waits
<1>3. CASE AssembleInput(t) \/ AssembleRetry(t)
  <2>1. /\ prompt'[t] = Replay(t) /\ ordinal' = ordinal /\ status[t] = "pending"
        /\ UNCHANGED <<stored, saved>>
    BY <1>0, <1>3 DEF AssembleInput, AssembleRetry, AssembleWith, AssemblePrompt, columns, Basics,
                      IInv, TypeOK
  <2>2. Earlier(t)' = Earlier(t)
    BY <2>1 DEF Earlier
  <2>3. prompt'[t] = Earlier(t)'
    BY DEF MessagesWait
  <2>4. Waits(t)
    BY <1>0, <2>1, <2>2, <2>3 DEF Waits, Basics, Orders
  <2>5. /\ Fits(t, draft'[t].parts, draft'[t].notes, draft'[t].input)
        /\ t \in stored => draft'[t].input = draft[t].input
    BY <1>0, <1>3, <2>4, AssembledFits
  <2>6. t \in stored => saved'[t] = LastMarkers(draft'[t].input, Texts)
    <3> SUFFICES ASSUME t \in stored PROVE saved'[t] = LastMarkers(draft'[t].input, Texts)
      OBVIOUS
    <3>1. t \in Assembled
      BY <1>0 DEF Basics, Lifecycle, Assembled
    <3> QED BY <1>2, <2>1, <2>5, <3>1 DEF Waiting
  <2> QED BY <1>1, <2>1, <2>4, <2>5, <2>6 DEF Waiting
<1>4. CASE SaveTurnInput(t)
  <2> DEFINE new == LastMarkers(draft[t].input, Texts)
             both == [k \in DOMAIN new \cup DOMAIN saved[t] |->
                        IF k \in DOMAIN new THEN new[k] ELSE saved[t][k]]
  <2>1. /\ prompt' = prompt /\ draft' = draft
        /\ saved' = [saved EXCEPT ![t] = both]
    BY <1>4 DEF SaveTurnInput, vars
  <2>2. t \in Assembled
    BY <2>1 DEF Assembled
  <2>3. saved'[t] = both
    BY <1>0, <2>1 DEF Basics, Shape
  <2>4. new \in States
    BY <1>0, BasicTypes, LastMarkersState
  <2>5. saved[t] = new \/ saved[t] = NoState
    BY <1>0, <1>2, <2>2 DEF Waiting, Basics, Lifecycle
  <2> HIDE DEF new
  <2>6. both = [k \in DOMAIN new |-> new[k]]
    BY <2>5, NoStateIsState
  <2>7. saved'[t] = new
    BY <2>3, <2>4, <2>6, StateTypes
  <2>8. Fits(t, draft[t].parts, draft[t].notes, draft[t].input)'
    BY <1>1, <1>2, <2>1, <2>2 DEF Waiting
  <2>9. saved'[t] = LastMarkers(draft'[t].input, Texts)
    BY <2>1, <2>7 DEF new
  <2> QED BY <2>8, <2>9 DEF Waiting
<1>5. CASE /\ draft'[t] = draft[t] /\ prompt'[t] = prompt[t] /\ saved'[t] = saved[t]
           /\ t \in stored' <=> t \in stored
  <2>1. t \in Assembled
    BY <1>5 DEF Assembled
  <2>2. Fits(t, draft[t].parts, draft[t].notes, draft[t].input)'
    BY <1>1, <1>2, <1>5, <2>1 DEF Waiting
  <2>3. t \in stored' => saved'[t] = LastMarkers(draft'[t].input, Texts)
    BY <1>2, <1>5, <2>1 DEF Waiting
  <2> QED BY <2>2, <2>3 DEF Waiting
<1>6. \/ AssembleInput(t) \/ AssembleRetry(t) \/ SaveTurnInput(t)
      \/ /\ draft'[t] = draft[t] /\ prompt'[t] = prompt[t] /\ saved'[t] = saved[t]
         /\ t \in stored' <=> t \in stored
  <2>1. \/ UNCHANGED <<draft, prompt, saved, stored>>
        \/ \E u \in Turns : AssembleInput(u) \/ AssembleRetry(u) \/ SaveTurnInput(u)
    BY DEF InputNext, InputStep, Untouched, allVars, inputVars, vars, Run,
           Tick, SendMessage, BeginTurn, BeginTurnWith, StartCompletion, CommitCompletion,
           CommitNumbering, FinishWithout, PrepareRetry, columns
  <2>2. ASSUME NEW u \in Turns, AssembleInput(u) \/ AssembleRetry(u), u # t
        PROVE  /\ draft'[t] = draft[t] /\ prompt'[t] = prompt[t] /\ saved'[t] = saved[t]
               /\ t \in stored' <=> t \in stored
    BY <1>0, <2>2 DEF AssembleInput, AssembleRetry, AssembleWith, AssemblePrompt, Basics, Shape,
                      IInv, TypeOK
  <2>3. ASSUME NEW u \in Turns, SaveTurnInput(u), u # t
        PROVE  /\ draft'[t] = draft[t] /\ prompt'[t] = prompt[t] /\ saved'[t] = saved[t]
               /\ t \in stored' <=> t \in stored
    BY <1>0, <2>3 DEF SaveTurnInput, vars, Basics, Shape
  <2> QED BY <1>0, <2>1, <2>2, <2>3
<1> QED BY <1>3, <1>4, <1>5, <1>6

\* What is given to the turns changes nothing of their history: every property
\* proved of the history holds with the inputs.
THEOREM InputsKeepTheHistory == InputSpec => Spec
<1>1. InputInit => Init
  BY DEF InputInit
<1> QED BY <1>1, InputRefines, PTL DEF InputSpec, Spec

\* The inputs of a conversation whose messages wait, with what is stored of them.
THEOREM InputsWait == InputSpec => [](Basics /\ InputWaits)
<1>1. InputInit => InputWaits
  BY DEF InputInit, Init, InputWaits, Assembled
<1>2. Basics /\ InputWaits /\ [InputNext]_allVars => Basics' /\ InputWaits'
  BY BasicsStep, InputWaitsStep
<1> QED BY <1>1, <1>2, InputInitInv, PTL DEF InputSpec

\* Everybody in the message has exactly one memory note in the prompt.
THEOREM NotedOnce == InputSpec => []EverybodyIsNotedOnce
<1>1. Basics /\ InputWaits => EverybodyIsNotedOnce
  <2> SUFFICES ASSUME Basics, InputWaits, MessagesWait, NEW t \in Assembled, NEW u \in People[t]
               PROVE  Cardinality({i \in DOMAIN draft[t].input : draft[t].input[i] = Note(u)}) = 1
    BY DEF EverybodyIsNotedOnce
  <2> DEFINE P == PlacesOf(u, draft[t].input)
  <2>1. t \in Turns /\ u \in Users /\ Waiting(t)
    BY PeopleAssumption DEF Assembled, InputWaits
  <2>2. P # {} /\ \A i, j \in P : i = j
    BY <2>1 DEF Waiting, Fits, AtMostOnce
  <2>3. PICK i : P = {i}
    <3> HIDE DEF P
    <3> QED BY <2>2
  <2>4. Cardinality(P) = 1
    <3> HIDE DEF P
    <3> QED BY <2>3, FS_Singleton
  <2> QED BY <2>4 DEF PlacesOf
<1> QED BY <1>1, InputsWait, PTL

\* A turn's input begins with the whole input of every turn it replays.
THEOREM InputsExtend == InputSpec => []InputsExtendEachOther
<1>1. Basics /\ InputWaits => InputsExtendEachOther
  BY DEF InputsExtendEachOther, InputWaits, Waiting, Fits, MessagesWait
<1> QED BY <1>1, InputsWait, PTL

\* A retry is given the input of the first attempt.
THEOREM RetryRepeats == InputSpec => RetryRepeatsTheInput
<1>1. Basics /\ InputWaits /\ [InputNext]_allVars
        => [MessagesWait => \A t \in Assembled : draft'[t].input = draft[t].input]_allVars
  <2> SUFFICES ASSUME Basics, InputWaits, [InputNext]_allVars, MessagesWait, NEW t \in Assembled
               PROVE  draft'[t].input = draft[t].input
    OBVIOUS
  <2>1. t \in Turns /\ Waits(t)
    BY AssembledBegan DEF MessagesWait, Waits
  <2>2. CASE AssembleInput(t) \/ AssembleRetry(t)
    <3>1. t \notin ready
      BY <2>2 DEF AssembleInput, AssembleRetry, AssembleWith, AssemblePrompt
    <3>2. t \in stored
      BY <2>1, <3>1 DEF Basics, Lifecycle, Assembled
    <3> QED BY <2>1, <2>2, <3>2, AssembledFits
  <2>3. draft'[t] = draft[t] \/ AssembleInput(t) \/ AssembleRetry(t)
    <3>1. \/ draft' = draft
          \/ \E u \in Turns : AssembleInput(u) \/ AssembleRetry(u)
      BY DEF InputNext, InputStep, Untouched, allVars, inputVars, SaveTurnInput
    <3>2. ASSUME NEW u \in Turns, AssembleInput(u) \/ AssembleRetry(u), u # t
          PROVE  draft'[t] = draft[t]
      BY <2>1, <3>2 DEF AssembleInput, AssembleRetry, AssembleWith, Basics, Shape
    <3> QED BY <3>1, <3>2
  <2> QED BY <2>2, <2>3
<1> QED BY <1>1, InputsWait, PTL DEF InputSpec, RetryRepeatsTheInput

=============================================================================
