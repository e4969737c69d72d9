----------------------------- MODULE MCPServer ------------------------------
(***************************************************************************)
(* The MCP stdio server (internal/mcpserver: server.go, codec.go,          *)
(* message.go), with one client on a pair of pipes.                        *)
(*                                                                         *)
(* Two goroutines: readFrames blocks in Reader.Read and passes what it     *)
(* reads over a channel of capacity 1; Serve selects between that channel  *)
(* and ctx.Done(), dispatches one message at a time, runs the tool and     *)
(* writes the reply.  A line is identified by its position in the stream,  *)
(* and a frame or a reply by the line it comes from.                       *)
(***************************************************************************)
EXTENDS Naturals, Sequences

CONSTANTS
  Ids,               \* request ids: strings and integers
  AbsentId, NullId,  \* no "id" field, and "id": null
  Tools,             \* names of the registered tools
  NoTool, OtherTool, \* no name, and a name that is not registered
  Lines,             \* the lines a client may write
  MaxLines           \* bound: lines written by the client

Methods == {"none", "initialize", "tools/list", "tools/call", "other"}

(* A line is blank, not a single JSON object (a batch, bad JSON), fatal (an *)
(* oversized frame or an I/O error), or a message; params is absent, of the *)
(* wrong JSON type, or well-formed.                                         *)
Messages ==
  [kind : {"message"}, id : Ids \cup {AbsentId, NullId}, method : Methods,
   answers : BOOLEAN,            \* has a result or an error
   params : {"absent", "bad", "ok"}, tool : Tools \cup {NoTool, OtherTool}]
AllLines == [kind : {"blank", "malformed", "fatal"}] \cup Messages

ASSUME LinesAssumption == Lines \subseteq AllLines
ASSUME IdsAssumption == Ids \cap {AbsentId, NullId} = {}
ASSUME ToolsAssumption == Tools \cap {NoTool, OtherTool} = {}
ASSUME MaxLinesAssumption == MaxLines \in Nat

VARIABLES
  sent,      \* the lines on stdin
  eof,       \* the client has closed stdin
  client,    \* whether it drains stdout: "reads", "stalled" (pipe full), "gone"
  cancelled, \* ctx.Done() is closed (SIGINT, SIGTERM)
  nread,     \* lines the reader has scanned
  rd,        \* the reader: "read", "send" (line nread) or "closed" (channel closed)
  frames,    \* the channel
  srv,       \* Serve: "select", "tool", "write" or "returned"
  cur,       \* the line Serve received last
  reply,     \* the code of the reply being written
  out,       \* the replies on stdout
  exit       \* why Serve returned

vars == <<sent, eof, client, cancelled, nread, rd, frames, srv, cur, reply, out, exit>>
world == <<sent, eof, client, cancelled>>
reader == <<nread, rd>>
server == <<srv, cur, reply, out, exit>>

Codes == {"result", "toolError", "ParseError", "InvalidRequest", "MethodNotFound", "InvalidParams"}
Exits == {"running", "cancelled", "eof", "stream", "pipe"}

Init ==
  /\ sent = <<>> /\ eof = FALSE /\ client = "reads" /\ cancelled = FALSE
  /\ nread = 0 /\ rd = "read" /\ frames = <<>>
  /\ srv = "select" /\ cur = 0 /\ reply = "none" /\ out = <<>> /\ exit = "running"

-----------------------------------------------------------------------------
(* The client and the operating system. *)

ClientWrites ==
  /\ ~eof /\ Len(sent) < MaxLines
  /\ \E l \in Lines : sent' = Append(sent, l)
  /\ UNCHANGED <<eof, client, cancelled, reader, frames, server>>

ClientCloses ==
  /\ ~eof
  /\ eof' = TRUE
  /\ UNCHANGED <<sent, client, cancelled, reader, frames, server>>

(* It stops draining stdout and the pipe is full; it goes on; it goes away. *)
ClientDrains ==
  /\ \/ client = "reads" /\ client' \in {"stalled", "gone"}
     \/ client = "stalled" /\ client' \in {"reads", "gone"}
  /\ UNCHANGED <<sent, eof, cancelled, reader, frames, server>>

Cancel ==
  /\ ~cancelled
  /\ cancelled' = TRUE
  /\ UNCHANGED <<sent, eof, client, reader, frames, server>>

-----------------------------------------------------------------------------
(* readFrames *)

(* Mutant: a line that does not decode ends the stream. *)
DecodeErrorIsFatal(l) == l.kind \in {"fatal", "malformed"}

Fatal(l) == l.kind = "fatal"

ReadLine ==
  /\ rd = "read" /\ nread < Len(sent)
  /\ nread' = nread + 1
  /\ rd' = IF sent[nread'].kind = "blank" THEN "read" ELSE "send"
  /\ UNCHANGED <<world, frames, server>>

ReadEof ==
  /\ rd = "read" /\ nread = Len(sent) /\ eof
  /\ rd' = "closed"
  /\ UNCHANGED <<world, nread, frames, server>>

(* Mutant: a stream error closes the channel without being forwarded. *)
SendUnlessFatal ==
  /\ rd = "send" /\ Len(frames) < 1
  /\ frames' = IF Fatal(sent[nread]) THEN frames ELSE Append(frames, nread)
  /\ rd' = IF Fatal(sent[nread]) THEN "closed" ELSE "read"
  /\ UNCHANGED <<world, nread, server>>

(* Mutant: the reader goes on after a stream error. *)
SendAndGoOn ==
  /\ rd = "send" /\ Len(frames) < 1
  /\ frames' = Append(frames, nread)
  /\ rd' = "read"
  /\ UNCHANGED <<world, nread, server>>

(* A stream error is forwarded like any frame, then the channel is closed. *)
SendFrame ==
  /\ rd = "send" /\ Len(frames) < 1
  /\ frames' = Append(frames, nread)
  /\ rd' = IF Fatal(sent[nread]) THEN "closed" ELSE "read"
  /\ UNCHANGED <<world, nread, server>>

-----------------------------------------------------------------------------
(* message.go and dispatch. *)

(* Mutant: an explicit null id is taken for an id. *)
OnlyAbsentIsNull(id) == id = AbsentId

isNullID(id) == id \in {AbsentId, NullId}
IsResponse(m) == m.answers
IsNotification(m) == isNullID(m.id)
IsRequest(m) == ~isNullID(m.id) /\ m.method # "none" /\ ~IsResponse(m)

handleInitialize(m) == IF m.params = "bad" THEN "InvalidParams" ELSE "result"

(* "call" stands for running the registered handler. *)
handleToolsCall(m) ==
  IF m.params # "ok" \/ m.tool \notin Tools THEN "InvalidParams" ELSE "call"

dispatchRequest(m) ==
  CASE m.method = "initialize" -> handleInitialize(m)
    [] m.method = "tools/list" -> "result"
    [] m.method = "tools/call" -> handleToolsCall(m)
    [] OTHER -> "MethodNotFound"

(* What Serve does with a frame: the code of the reply, "nil" for none. *)
dispatch(l) ==
  IF l.kind = "malformed" THEN "ParseError"
  ELSE IF Fatal(l) THEN "ErrStream"
  ELSE IF IsResponse(l) \/ IsNotification(l) THEN "nil"
  ELSE IF IsRequest(l) THEN dispatchRequest(l)
  ELSE "InvalidRequest"

-----------------------------------------------------------------------------
(* Serve.  Both cases of the select may be ready: either may be taken.     *)

Return(reason) == srv' = "returned" /\ exit' = reason

ServeCancelled ==
  /\ srv = "select" /\ cancelled
  /\ Return("cancelled")
  /\ UNCHANGED <<world, reader, frames, cur, reply, out>>

(* Mutant: the end of the reader is signalled apart from the channel. *)
ServeDisconnectedEarly ==
  /\ srv = "select" /\ rd = "closed"
  /\ Return("eof")
  /\ UNCHANGED <<world, reader, frames, cur, reply, out>>

(* A closed channel still delivers what it holds. *)
ServeDisconnected ==
  /\ srv = "select" /\ rd = "closed" /\ frames = <<>>
  /\ Return("eof")
  /\ UNCHANGED <<world, reader, frames, cur, reply, out>>

Receive ==
  /\ srv = "select" /\ frames # <<>>
  /\ cur' = Head(frames)
  /\ frames' = Tail(frames)
  /\ UNCHANGED <<world, reader, out>>

ReceiveFatal ==
  /\ Receive
  /\ dispatch(sent[cur']) = "ErrStream"
  /\ Return("stream")
  /\ UNCHANGED reply

ReceiveSilent ==
  /\ Receive
  /\ dispatch(sent[cur']) = "nil"
  /\ UNCHANGED <<srv, reply, exit>>

ReceiveCall ==
  /\ Receive
  /\ dispatch(sent[cur']) = "call"
  /\ srv' = "tool"
  /\ UNCHANGED <<reply, exit>>

ReceiveAnswered ==
  /\ Receive
  /\ dispatch(sent[cur']) \in Codes
  /\ reply' = dispatch(sent[cur'])
  /\ srv' = "write"
  /\ UNCHANGED exit

HandlerEnds(code) ==
  /\ srv = "tool"
  /\ srv' = "write"
  /\ reply' = code
  /\ UNCHANGED <<world, reader, frames, cur, out, exit>>

HandlerReturns == HandlerEnds("result")
HandlerFails == HandlerEnds("toolError")

(* Mutant: the panic is recovered above the code that replies. *)
HandlerPanicSwallowed ==
  /\ srv = "tool"
  /\ srv' = "select"
  /\ UNCHANGED <<world, reader, frames, cur, reply, out, exit>>

(* callHandler recovers it. *)
HandlerPanics == HandlerEnds("toolError")

(* Mutant: the handler is given a context of its own. *)
HandlerUninterruptible == FALSE /\ HandlerFails

(* git and the provider run under the ctx of Serve: once it is cancelled   *)
(* the handler ends with an error.                                         *)
HandlerInterrupted == cancelled /\ HandlerFails

(* newError gives a null id to an error that has no id to echo. *)
ReplyId(l) == IF l.kind = "malformed" \/ isNullID(l.id) THEN NullId ELSE l.id

WriteReply ==
  /\ srv = "write" /\ client = "reads"
  /\ out' = Append(out, [line |-> cur, id |-> ReplyId(sent[cur]), code |-> reply])
  /\ srv' = "select" /\ reply' = "none"
  /\ UNCHANGED <<world, reader, frames, cur, exit>>

WriteFails ==
  /\ srv = "write" /\ client = "gone"
  /\ Return("pipe")
  /\ UNCHANGED <<world, reader, frames, cur, reply, out>>

(* The process is about to exit; the reader may still run. *)
Terminating == srv = "returned" /\ UNCHANGED vars

Reads == ReadLine \/ ReadEof \/ SendFrame
Receives == ReceiveFatal \/ ReceiveSilent \/ ReceiveCall \/ ReceiveAnswered
Handles == HandlerReturns \/ HandlerFails \/ HandlerPanics

Next ==
  \/ ClientWrites \/ ClientCloses \/ ClientDrains \/ Cancel
  \/ Reads
  \/ ServeCancelled \/ ServeDisconnected \/ Receives
  \/ Handles \/ HandlerInterrupted
  \/ WriteReply \/ WriteFails
  \/ Terminating

Spec == Init /\ [][Next]_vars

(* Goroutines run.  Go's select picks among ready cases at random, so one  *)
(* that is ready again and again is taken (strong fairness); so does a     *)
(* blocked write whenever the pipe has room.  The client owes nothing, and *)
(* a handler ends for certain only when interrupted.                       *)
Fairness ==
  /\ WF_vars(Reads)
  /\ WF_vars(ServeDisconnected \/ Receives)
  /\ SF_vars(ServeCancelled)
  /\ WF_vars(HandlerInterrupted)
  /\ SF_vars(WriteReply) /\ WF_vars(WriteFails)

FairSpec == Spec /\ Fairness

-----------------------------------------------------------------------------
TypeOK ==
  /\ sent \in Seq(Lines) /\ Len(sent) <= MaxLines
  /\ eof \in BOOLEAN /\ cancelled \in BOOLEAN
  /\ client \in {"reads", "stalled", "gone"}
  /\ nread \in 0 .. Len(sent)
  /\ rd \in {"read", "send", "closed"}
  /\ frames \in Seq(Nat) /\ Len(frames) <= 1
  /\ srv \in {"select", "tool", "write", "returned"}
  /\ cur \in 0 .. nread
  /\ reply \in Codes \cup {"none"}
  /\ out \in Seq([line : Nat, id : Ids \cup {NullId}, code : Codes])
  /\ exit \in Exits

(* JSON-RPC 2.0: a line that is not JSON gets an error with a null id; a   *)
(* message with an id that is not itself an answer gets one reply with     *)
(* that id; notifications get none.                                        *)
Owed(l) ==
  \/ l.kind = "malformed"
  \/ l.kind = "message" /\ l.id \in Ids /\ ~l.answers
OwedId(l) == IF l.kind = "malformed" THEN NullId ELSE l.id

Answered(k) == \E i \in 1 .. Len(out) : out[i].line = k

(* Each reply answers a line that is owed one, under that line's id; no    *)
(* line gets two, and replies come in the order of their lines, although   *)
(* the reader runs ahead of the dispatch loop.                             *)
RepliesInOrder ==
  /\ \A i \in 1 .. Len(out) :
       Owed(sent[out[i].line]) /\ out[i].id = OwedId(sent[out[i].line])
  /\ \A i, j \in 1 .. Len(out) : i < j => out[i].line < out[j].line

(* Serve leaves no request behind, whatever the handler did, panic         *)
(* included: when it is back at the select, everything it received and     *)
(* owes an answer has one.                                                 *)
NothingSkipped ==
  \A k \in 1 .. cur :
    Owed(sent[k]) /\ (k < cur \/ srv = "select") => Answered(k)

(* A client that writes its requests and closes stdin at once gets every   *)
(* answer before Serve returns: the closed channel is drained first.       *)
AllAnsweredAtEof ==
  exit = "eof" => \A k \in 1 .. Len(sent) : Owed(sent[k]) => Answered(k)

(* A failed stream is never reported as an orderly disconnect.             *)
FatalSurfaces ==
  exit = "eof" => \A k \in 1 .. nread : sent[k].kind # "fatal"

(* On Ctrl-C Serve returns, in the middle of a tool call and also if the   *)
(* client goes on sending; unless the client does not drain stdout.        *)
CancelStops == cancelled ~> srv = "returned" \/ client = "stalled"

(* If tools end, every request is answered, unless the server is stopped,  *)
(* the client does not take its replies, or the stream fails first.        *)
HandlersEnd == WF_vars(Handles)
EveryRequestAnswered ==
  HandlersEnd =>
    \A k \in 1 .. MaxLines :
      k <= Len(sent) /\ Owed(sent[k]) ~>
        \/ Answered(k)
        \/ cancelled \/ client # "reads"
        \/ \E j \in 1 .. Len(sent) : j < k /\ sent[j].kind = "fatal"

(* When Serve returns on its own, at the end of the stream or because of   *)
(* it, the reader has ended as well.  (A cancellation or a broken pipe may *)
(* leave it blocked, on the next line or on a full channel.)               *)
ReaderEnds == exit \in {"eof", "stream"} => rd = "closed"

(* What the client reads is a conversation: all it is owed, nothing else,  *)
(* in order.                                                               *)
Conversation == RepliesInOrder /\ NothingSkipped

(* The end of the stream, orderly or not: what came before it is answered, *)
(* a failure is told, and nothing is left running.                         *)
EndOfInput == AllAnsweredAtEof /\ FatalSurfaces /\ ReaderEnds
=============================================================================
