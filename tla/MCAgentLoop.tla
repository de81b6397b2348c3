----------------------------- MODULE MCAgentLoop -----------------------------
EXTENDS AgentLoop

Item(type, size, sent, tool) == [type |-> type, size |-> size, sent |-> sent, tool |-> tool]
MCText == Item("text", 2, 2, "none")
MCThought == Item("thought", 1, 1, "none")
MCSearch == Item("search", 1, 1, "none")
MCCall == Item("call", 2, 2, "listed")
MCCutCall == Item("call", 2, 1, "listed")
MCBareCall == Item("call", 0, 0, "unlisted")

\* Answers, pauses, empty and cut responses, and up to two calls with text
\* around them.
MCResponses ==
  [items : {<< >>, <<MCThought>>, <<MCText>>, <<MCThought, MCText, MCSearch, MCText>>,
            <<MCBareCall, MCCall>>, <<MCText, MCCall, MCBareCall>>,
            <<MCCall, MCCall>>, <<MCText, MCCutCall>>},
   paused : {FALSE}]
  \cup {[items |-> <<MCText, MCSearch>>, paused |-> TRUE]}
=============================================================================
