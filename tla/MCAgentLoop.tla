---------------------------- MODULE MCAgentLoop ----------------------------
EXTENDS AgentLoop

Of(name, args) == [name |-> name, args |-> args]

Tools == {Of("click", 1), Of("click", 2), Of("navigate", 1), Of("read_page", 1),
          Of("screenshot", 1), Of("extract_page_content", 1)}

(* Every tool by itself, and the pairs whose order matters.                   *)
OnesAndPairs ==
  {<<c>> : c \in Tools} \cup
  {<<Of("click", 1), d>> : d \in {Of("click", 2), Of("read_page", 1)}} \cup
  {<<Of("extract_page_content", 1), d>> : d \in {Of("click", 1), Of("navigate", 1)}}
=============================================================================
