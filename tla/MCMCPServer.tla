---------------------------- MODULE MCMCPServer -----------------------------
(* An instance of MCPServer: one line of each kind that Serve treats       *)
(* differently, from a client that may pipeline them in any order.         *)
EXTENDS MCPServer

CONSTANTS id1, id2, review

Message(id, method, params, tool) ==
  [kind |-> "message", id |-> id, method |-> method, answers |-> FALSE,
   params |-> params, tool |-> tool]

Call == Message(id1, "tools/call", "ok", review)
Silent == {Message(AbsentId, "other", "absent", NoTool), Message(NullId, "tools/list", "absent", NoTool),
           [Message(id1, "none", "absent", NoTool) EXCEPT !.answers = TRUE], [kind |-> "blank"]}
Erroneous == {[kind |-> "malformed"], Message(id2, "none", "absent", NoTool),
              Message(id2, "tools/call", "ok", OtherTool), Message(id1, "initialize", "bad", NoTool)}

ClientLines == {Call, [kind |-> "fatal"]} \cup Silent \cup Erroneous
=============================================================================
