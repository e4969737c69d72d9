-------------------------- MODULE MCPServerProofs ---------------------------
(***************************************************************************)
(* Safety of the MCP server for any set of lines and any number of them.   *)
(*                                                                         *)
(* The invariants of MCPServer are not inductive: that nothing is skipped  *)
(* depends on where every line between the last one handled and the last   *)
(* one read may be (Pipeline), and that EOF is reported only at EOF on     *)
(* what a closed channel says about the stream (Ending).                   *)
(***************************************************************************)
EXTENDS MCPServer, TLAPS

(* A line read and not yet received is blank, in the channel, or in the    *)
(* reader's hand, and those two are in stream order.                       *)
Pipeline ==
  /\ \A k \in cur + 1 .. nread :
       \/ sent[k].kind = "blank"
       \/ frames # <<>> /\ k = frames[1]
       \/ rd = "send" /\ k = nread
  /\ frames # <<>> => frames[1] \in cur + 1 .. nread /\ sent[frames[1]].kind # "blank"
  /\ rd = "send" => cur < nread /\ sent[nread].kind # "blank"
  /\ frames # <<>> /\ rd = "send" => frames[1] < nread

(* The reader stops at a fatal line, and Serve where it receives one.      *)
Ending ==
  /\ \A k \in 1 .. nread : Fatal(sent[k]) => k = nread /\ rd # "read"
  /\ \A k \in 1 .. cur : Fatal(sent[k]) => exit = "stream"
  /\ rd = "closed" => \/ eof /\ nread = Len(sent)
                      \/ nread > 0 /\ Fatal(sent[nread])
  /\ exit = "eof" => srv = "returned" /\ rd = "closed" /\ frames = <<>>
  /\ srv # "returned" => exit = "running"

(* The line being served is owed a reply and has none; the others have     *)
(* theirs, also after an orderly end.                                      *)
Serving ==
  /\ srv \in {"tool", "write"} => cur > 0 /\ Owed(sent[cur])
  /\ srv = "write" => reply \in Codes
  /\ \A i \in 1 .. Len(out) :
       out[i].line \in 1 .. cur /\ (srv \in {"tool", "write"} => out[i].line < cur)
  /\ exit = "eof" => \A k \in 1 .. cur : Owed(sent[k]) => Answered(k)

IInv == TypeOK /\ Pipeline /\ Ending /\ Serving /\ RepliesInOrder /\ NothingSkipped

-----------------------------------------------------------------------------
(* dispatch answers exactly the lines JSON-RPC owes an answer.             *)
LEMMA DispatchOwed ==
  ASSUME NEW l \in AllLines, l.kind # "blank"
  PROVE  /\ dispatch(l) \in Codes \cup {"call"} <=> Owed(l)
         /\ dispatch(l) = "ErrStream" <=> Fatal(l)
         /\ dispatch(l) = "ErrStream" => ~Owed(l)
<1>1. CASE l \in [kind : {"blank", "malformed", "fatal"}]
  BY <1>1 DEF dispatch, Owed, Fatal, Codes
<1>2. CASE l \in Messages
  <2>1. l.kind = "message" /\ l.id \in Ids \cup {AbsentId, NullId} /\ l.answers \in BOOLEAN
    BY <1>2 DEF Messages
  <2>2. dispatchRequest(l) \in Codes \cup {"call"}
    BY DEF dispatchRequest, handleInitialize, handleToolsCall, Codes
  <2>3. isNullID(l.id) <=> l.id \notin Ids
    BY <2>1, IdsAssumption DEF isNullID
  <2> QED
    BY <2>1, <2>2, <2>3
    DEF dispatch, Owed, Fatal, Codes, IsResponse, IsNotification, IsRequest
<1> QED
  BY <1>1, <1>2 DEF AllLines

(* The reply to a line that is owed one carries the id it is owed.         *)
LEMMA ReplyIdOwed ==
  ASSUME NEW l \in AllLines, Owed(l)
  PROVE  ReplyId(l) = OwedId(l) /\ OwedId(l) \in Ids \cup {NullId}
BY IdsAssumption DEF ReplyId, OwedId, Owed, isNullID

(* The part of the type invariant that arithmetic needs.                   *)
Counters ==
  /\ sent \in Seq(Lines)
  /\ nread \in 0 .. Len(sent) /\ cur \in 0 .. nread
  /\ frames \in Seq(Nat) /\ Len(frames) <= 1
  /\ out \in Seq([line : Nat, id : Ids \cup {NullId}, code : Codes])

LEMMA TypeCounters == TypeOK => Counters
BY DEF TypeOK, Counters

LEMMA InitInv == Init => IInv
<1> SUFFICES ASSUME Init PROVE IInv
  OBVIOUS
<1>1. TypeOK
  <2>1. eof \in BOOLEAN /\ cancelled \in BOOLEAN
    BY DEF Init
  <2>2. /\ sent \in Seq(Lines) /\ Len(sent) <= MaxLines
        /\ nread \in 0 .. Len(sent) /\ cur \in 0 .. nread
        /\ frames \in Seq(Nat) /\ Len(frames) <= 1
        /\ out \in Seq([line : Nat, id : Ids \cup {NullId}, code : Codes])
    BY MaxLinesAssumption DEF Init
  <2> QED
    BY <2>1, <2>2 DEF Init, TypeOK, Exits
<1>2. Pipeline
  BY DEF Init, Pipeline
<1>3. Ending
  BY DEF Init, Ending
<1>4. Serving
  BY DEF Init, Serving
<1>5. RepliesInOrder /\ NothingSkipped
  BY DEF Init, RepliesInOrder, NothingSkipped
<1> QED
  BY <1>1, <1>2, <1>3, <1>4, <1>5 DEF IInv

-----------------------------------------------------------------------------
(* What is said of replies needs only the lines handled so far.            *)
Replying == Serving /\ RepliesInOrder /\ NothingSkipped

(* A step of the client or of the reader that keeps the lines read.        *)
LEMMA RepliesKept ==
  ASSUME Counters, Replying, UNCHANGED server, \A k \in 1 .. nread : sent'[k] = sent[k]
  PROVE  Replying'
<1>1. \A k \in 1 .. cur : sent'[k] = sent[k]
  BY DEF Counters
<1>2. UNCHANGED <<srv, cur, reply, out, exit>>
  BY DEF server
<1>3. \A i \in 1 .. Len(out) : out[i].line \in 1 .. cur
  BY DEF Replying, Serving
<1>4. Serving'
  BY <1>1, <1>2 DEF Counters, Replying, Serving, Owed, Answered
<1>5. RepliesInOrder'
  BY <1>1, <1>2, <1>3 DEF Replying, RepliesInOrder, Owed, OwedId
<1>6. NothingSkipped'
  BY <1>1, <1>2 DEF Replying, NothingSkipped, Owed, Answered
<1> QED
  BY <1>4, <1>5, <1>6 DEF Replying

(* The client: its lines change nothing about those already sent.          *)
LEMMA ClientStep ==
  ASSUME IInv, ClientWrites \/ ClientCloses \/ ClientDrains \/ Cancel
  PROVE  IInv'
<1>1. Counters /\ Replying
  BY TypeCounters DEF IInv, Replying
<1>2. UNCHANGED <<nread, rd, frames, srv, cur, reply, out, exit>> /\ UNCHANGED server
  BY DEF ClientWrites, ClientCloses, ClientDrains, Cancel, reader, server
<1>3. \A k \in 1 .. nread : sent'[k] = sent[k]
  <2>1. CASE ClientWrites
    <3>1. PICK l \in Lines : sent' = Append(sent, l)
      BY <2>1 DEF ClientWrites
    <3> QED
      BY <1>1, <3>1 DEF Counters
  <2>2. CASE ClientCloses \/ ClientDrains \/ Cancel
    BY <2>2 DEF ClientCloses, ClientDrains, Cancel
  <2> QED
    BY <2>1, <2>2
<1>4. Pipeline'
  BY <1>1, <1>2, <1>3 DEF IInv, Pipeline, Counters
<1>5. Replying'
  BY <1>1, <1>2, <1>3, RepliesKept
<1>6. CASE ClientWrites
  <2>1. ~eof /\ Len(sent) < MaxLines /\ UNCHANGED <<eof, client, cancelled>>
    BY <1>6 DEF ClientWrites
  <2>2. sent' \in Seq(Lines) /\ Len(sent') = Len(sent) + 1
    BY <1>1, <1>6 DEF ClientWrites, Counters
  <2>3. TypeOK'
    <3>1. Len(sent') <= MaxLines /\ nread' \in 0 .. Len(sent')
      BY <1>1, <1>2, <2>1, <2>2, MaxLinesAssumption DEF Counters
    <3> QED
      BY <1>2, <2>1, <2>2, <3>1 DEF IInv, TypeOK
  <2>4. Ending'
    <3>1. \A k \in 1 .. nread : Fatal(sent'[k]) <=> Fatal(sent[k])
      BY <1>3 DEF Fatal
    <3>2. rd # "closed" \/ (nread > 0 /\ Fatal(sent'[nread]))
      BY <1>1, <2>1, <3>1 DEF IInv, Ending, Counters
    <3>3. \A k \in 1 .. cur : Fatal(sent'[k]) => exit = "stream"
      BY <1>1, <3>1 DEF IInv, Ending, Counters
    <3> QED
      BY <1>2, <3>1, <3>2, <3>3 DEF IInv, Ending
  <2> QED
    BY <1>4, <1>5, <2>3, <2>4 DEF IInv, Replying
<1>7. CASE ClientCloses \/ ClientDrains \/ Cancel
  <2>1. UNCHANGED sent /\ (eof => eof')
    BY <1>7 DEF ClientCloses, ClientDrains, Cancel
  <2>2. TypeOK'
    BY <1>7, <1>2, <2>1 DEF IInv, TypeOK, ClientCloses, ClientDrains, Cancel
  <2>3. Ending'
    BY <1>1, <1>2, <2>1 DEF IInv, Ending, Counters, Fatal
  <2> QED
    BY <1>4, <1>5, <2>2, <2>3 DEF IInv, Replying
<1> QED
  BY <1>6, <1>7

-----------------------------------------------------------------------------
(* The reader.                                                             *)
LEMMA ReadStep ==
  ASSUME IInv, Reads
  PROVE  IInv'
<1>1. Counters /\ Replying
  BY TypeCounters DEF IInv, Replying
<1>2. UNCHANGED server /\ UNCHANGED <<sent, eof, client, cancelled, srv, cur, reply, out, exit>>
  BY DEF Reads, ReadLine, ReadEof, SendFrame, world, server
<1>3. Replying'
  BY <1>1, <1>2, RepliesKept
<1>4. ~(exit = "eof")
  BY DEF IInv, Ending, Reads, ReadLine, ReadEof, SendFrame
<1>5. CASE ReadLine
  <2>1. /\ rd = "read" /\ nread < Len(sent) /\ nread' = nread + 1 /\ UNCHANGED frames
        /\ rd' = IF sent[nread + 1].kind = "blank" THEN "read" ELSE "send"
    BY <1>5 DEF ReadLine
  <2>2. TypeOK'
    <3>1. nread' \in 0 .. Len(sent) /\ cur \in 0 .. nread'
      BY <1>1, <2>1 DEF Counters
    <3> QED
      BY <1>2, <2>1, <3>1 DEF IInv, TypeOK
  <2>3. Pipeline'
    BY <1>1, <1>2, <2>1 DEF IInv, Pipeline, Counters
  <2>4. Ending'
    BY <1>1, <1>2, <1>4, <2>1 DEF IInv, Ending, Counters, Fatal
  <2> QED
    BY <1>3, <2>2, <2>3, <2>4 DEF IInv, Replying
<1>6. CASE ReadEof
  <2>1. rd = "read" /\ nread = Len(sent) /\ eof /\ rd' = "closed" /\ UNCHANGED <<nread, frames>>
    BY <1>6 DEF ReadEof
  <2>2. TypeOK'
    BY <1>2, <2>1 DEF IInv, TypeOK
  <2>3. Pipeline'
    BY <1>1, <1>2, <2>1 DEF IInv, Pipeline, Counters
  <2>4. Ending'
    BY <1>1, <1>2, <1>4, <2>1 DEF IInv, Ending, Counters, Fatal
  <2> QED
    BY <1>3, <2>2, <2>3, <2>4 DEF IInv, Replying
<1>7. CASE SendFrame
  <2>1. /\ rd = "send" /\ frames = <<>> /\ frames' = <<nread>> /\ UNCHANGED nread
        /\ rd' = IF Fatal(sent[nread]) THEN "closed" ELSE "read"
    <3>1. frames = <<>> /\ frames' = Append(frames, nread)
      BY <1>1, <1>7 DEF SendFrame, Counters
    <3>2. frames' = <<nread>>
      BY <1>1, <3>1 DEF Counters
    <3> QED
      BY <1>7, <3>1, <3>2 DEF SendFrame
  <2>2. TypeOK'
    BY <1>1, <1>2, <2>1 DEF IInv, TypeOK, Counters
  <2>3. Pipeline'
    BY <1>1, <1>2, <2>1 DEF IInv, Pipeline, Counters
  <2>4. Ending'
    BY <1>1, <1>2, <1>4, <2>1 DEF IInv, Ending, Pipeline, Counters, Fatal
  <2> QED
    BY <1>3, <2>2, <2>3, <2>4 DEF IInv, Replying
<1> QED
  BY <1>5, <1>6, <1>7 DEF Reads

-----------------------------------------------------------------------------
(* Serve takes a line from the channel: the line is neither blank nor      *)
(* handled before, what lies between is blank, and if a fatal line is in   *)
(* the channel it is the last one.                                         *)
LEMMA Received ==
  ASSUME IInv, Receive
  PROVE  /\ cur' \in cur + 1 .. nread
         /\ sent[cur'] \in AllLines /\ sent[cur'].kind # "blank"
         /\ \A k \in cur + 1 .. nread : k < cur' => sent[k].kind = "blank"
         /\ frames' = <<>>
         /\ UNCHANGED <<sent, eof, client, cancelled, nread, rd, out>>
<1>1. Counters
  BY TypeCounters DEF IInv
<1>2. frames # <<>> /\ cur' = frames[1] /\ frames' = <<>>
  BY <1>1 DEF Receive, Counters
<1>3. UNCHANGED <<sent, eof, client, cancelled, nread, rd, out>>
  BY DEF Receive, world, reader
<1>4. cur' \in cur + 1 .. nread /\ sent[cur'].kind # "blank"
  BY <1>1, <1>2 DEF IInv, Pipeline, Counters
<1>5. sent[cur'] \in AllLines
  BY <1>1, <1>4, LinesAssumption DEF Counters
<1>6. ASSUME NEW k \in cur + 1 .. nread, k < cur' PROVE sent[k].kind = "blank"
  <2>1. rd = "send" => k < nread
    BY <1>1, <1>2, <1>4, <1>6 DEF IInv, Pipeline, Counters
  <2> QED
    BY <1>1, <1>2, <1>6, <2>1 DEF IInv, Pipeline, Counters
<1> QED
  BY <1>2, <1>3, <1>4, <1>5, <1>6

LEMMA ReceivedPipeline ==
  ASSUME IInv, Receive
  PROVE  Counters' /\ Pipeline'
<1>1. Counters
  BY TypeCounters DEF IInv
<1>2. Counters'
  BY <1>1, Received DEF Counters
<1>3. frames # <<>> /\ cur' = frames[1]
  BY <1>1 DEF Receive, Counters
<1> QED
  BY <1>1, <1>2, <1>3, Received DEF IInv, Pipeline, Counters

(* Every line below the one received that is owed an answer has one.       *)
LEMMA ReceivedAnswered ==
  ASSUME IInv, Receive
  PROVE  \A k \in 1 .. cur' : k # cur' /\ Owed(sent[k]) => Answered(k)
<1> SUFFICES ASSUME NEW k \in 1 .. cur', k # cur', Owed(sent[k]) PROVE Answered(k)
  OBVIOUS
<1>1. Counters
  BY TypeCounters DEF IInv
<1>2. sent[k].kind # "blank"
  BY DEF Owed
<1>3. k \in 1 .. cur
  BY <1>1, <1>2, Received DEF Counters
<1>4. srv = "select"
  BY DEF Receive
<1> QED
  BY <1>1, <1>3, <1>4 DEF IInv, NothingSkipped, Counters

LEMMA ReceiveStep ==
  ASSUME IInv, Receives
  PROVE  IInv'
<1>1. Receive
  BY DEF Receives, ReceiveFatal, ReceiveSilent, ReceiveCall, ReceiveAnswered
<1> DEFINE l == sent[cur']
<1>2. Counters /\ Counters' /\ Pipeline'
  BY <1>1, TypeCounters, ReceivedPipeline DEF IInv
<1>3. /\ cur' \in cur + 1 .. nread /\ l \in AllLines /\ l.kind # "blank" /\ frames' = <<>>
      /\ UNCHANGED <<sent, eof, client, cancelled, nread, rd, out>>
  BY <1>1, Received
<1>4. \A k \in 1 .. cur' : k # cur' /\ Owed(sent[k]) => Answered(k)
  BY <1>1, ReceivedAnswered
<1>5. srv = "select" /\ ~(exit = "eof")
  BY <1>1 DEF Receive, IInv, Ending
<1>6. \A k \in 1 .. Len(out) : out[k].line \in 1 .. cur
  BY DEF IInv, Serving
<1>7. RepliesInOrder'
  BY <1>3 DEF IInv, RepliesInOrder, Owed, OwedId
<1>8. /\ dispatch(l) \in Codes \cup {"call"} <=> Owed(l)
      /\ dispatch(l) = "ErrStream" <=> Fatal(l)
  BY <1>3, DispatchOwed
<1>9. \A k \in 1 .. cur : ~Fatal(sent[k]) \/ exit = "stream"
  BY DEF IInv, Ending
<1>10. \A k \in cur + 1 .. nread : k < cur' => ~Fatal(sent[k])
  BY <1>1, Received DEF Fatal
<1>11. CASE ReceiveFatal
  <2>1. Fatal(l) /\ ~Owed(l) /\ srv' = "returned" /\ exit' = "stream" /\ UNCHANGED reply
    BY <1>8, <1>11 DEF ReceiveFatal, Return, Owed, Fatal
  <2>2. TypeOK'
    BY <1>2, <1>3, <2>1 DEF IInv, TypeOK, Counters, Exits
  <2>3. Ending'
    BY <1>2, <1>3, <2>1 DEF IInv, Ending, Counters, Fatal
  <2>4. Serving'
    BY SMTT(30), <1>2, <1>3, <1>6, <2>1 DEF Serving, Counters
  <2>5. NothingSkipped'
    <3> SUFFICES ASSUME NEW k \in 1 .. cur', Owed(sent[k]) PROVE Answered(k)
      BY <1>3 DEF NothingSkipped, Owed, Answered
    <3>1. k # cur'
      BY <2>1
    <3> QED
      BY <1>4, <3>1
  <2> QED
    BY <1>2, <1>7, <2>2, <2>3, <2>4, <2>5 DEF IInv
<1>12. CASE ReceiveSilent \/ ReceiveCall \/ ReceiveAnswered
  <2>1. ~Fatal(l) /\ UNCHANGED exit
    BY <1>8, <1>12 DEF ReceiveSilent, ReceiveCall, ReceiveAnswered, Codes
  <2>2. /\ Owed(l) => srv' \in {"tool", "write"}
        /\ ~Owed(l) => srv' = "select"
        /\ srv' = "write" => reply' \in Codes
        /\ reply' \in Codes \cup {"none"}
    BY <1>5, <1>8, <1>12 DEF ReceiveSilent, ReceiveCall, ReceiveAnswered, Codes, IInv, TypeOK
  <2>3. TypeOK'
    BY <1>2, <1>3, <2>1, <2>2 DEF IInv, TypeOK, Counters
  <2>4. Ending'
    <3>1. ASSUME NEW k \in 1 .. cur' PROVE ~Fatal(sent[k]) \/ exit = "stream"
      <4>1. k \in 1 .. cur \/ (k \in cur + 1 .. nread /\ k < cur') \/ k = cur'
        BY <1>2, <1>3 DEF Counters
      <4> QED
        BY <1>9, <1>10, <2>1, <4>1
    <3> QED
      BY <1>2, <1>3, <1>5, <2>1, <3>1 DEF IInv, Ending, Counters, Fatal
  <2>5. Serving'
    BY <1>2, <1>3, <1>5, <1>6, <2>1, <2>2 DEF Serving, Counters, Owed
  <2>6. NothingSkipped'
    <3> SUFFICES ASSUME NEW k \in 1 .. cur', Owed(sent[k]), k < cur' \/ srv' = "select"
                 PROVE  Answered(k)
      BY <1>3 DEF NothingSkipped, Owed, Answered
    <3>1. k # cur'
      <4>1. cur' \in Nat
        BY <1>2 DEF Counters
      <4>2. CASE k < cur'
        BY <4>1, <4>2
      <4>3. CASE srv' = "select"
        BY <2>2, <4>3
      <4> QED
        BY <4>2, <4>3
    <3> QED
      BY <1>4, <3>1
  <2> QED
    BY <1>2, <1>7, <2>3, <2>4, <2>5, <2>6 DEF IInv
<1> QED
  BY <1>11, <1>12 DEF Receives

-----------------------------------------------------------------------------
(* Serve returns from the select, runs a tool, writes a reply.             *)
LEMMA ReturnStep ==
  ASSUME IInv, ServeCancelled \/ ServeDisconnected
  PROVE  IInv'
<1>1. Counters
  BY TypeCounters DEF IInv
<1>2. /\ srv = "select" /\ srv' = "returned" /\ exit' \in {"cancelled", "eof"}
      /\ exit' = "eof" => rd = "closed" /\ frames = <<>>
      /\ UNCHANGED <<sent, eof, client, cancelled, nread, rd, frames, cur, reply, out>>
  BY DEF ServeCancelled, ServeDisconnected, Return, world, reader
<1>3. TypeOK'
  BY <1>2 DEF IInv, TypeOK, Exits
<1>4. Pipeline'
  BY <1>2 DEF IInv, Pipeline
<1>5. Ending'
  <2>1. \A k \in 1 .. cur : ~Fatal(sent[k])
    BY <1>2 DEF IInv, Ending
  <2> QED
    BY <1>2, <2>1 DEF IInv, Ending, Fatal
<1>6. Serving'
  <2>1. \A k \in 1 .. cur : Owed(sent[k]) => Answered(k)
    BY <1>1, <1>2 DEF IInv, NothingSkipped, Counters
  <2>2. \A k \in 1 .. cur : Owed(sent[k])' => Answered(k)'
    BY <1>2, <2>1 DEF Owed, Answered
  <2> QED
    BY <1>1, <1>2, <2>2 DEF IInv, Serving, Counters
<1>7. RepliesInOrder' /\ NothingSkipped'
  BY <1>1, <1>2 DEF IInv, RepliesInOrder, NothingSkipped, Owed, OwedId, Answered, Counters
<1> QED
  BY <1>3, <1>4, <1>5, <1>6, <1>7 DEF IInv

LEMMA HandlerStep ==
  ASSUME IInv, NEW code \in {"result", "toolError"}, HandlerEnds(code)
  PROVE  IInv'
<1>1. Counters
  BY TypeCounters DEF IInv
<1>2. /\ srv = "tool" /\ srv' = "write" /\ reply' = code
      /\ UNCHANGED <<sent, eof, client, cancelled, nread, rd, frames, cur, out, exit>>
  BY DEF HandlerEnds, world, reader
<1>3. TypeOK'
  BY <1>2 DEF IInv, TypeOK, Codes
<1>4. Pipeline' /\ Ending'
  BY <1>2 DEF IInv, Pipeline, Ending, Fatal
<1>5. Serving'
  BY <1>1, <1>2 DEF IInv, Serving, Ending, Owed, Codes, Counters
<1>6. RepliesInOrder' /\ NothingSkipped'
  BY <1>1, <1>2 DEF IInv, RepliesInOrder, NothingSkipped, Owed, OwedId, Answered, Counters
<1> QED
  BY <1>3, <1>4, <1>5, <1>6 DEF IInv

LEMMA WriteStep ==
  ASSUME IInv, WriteReply
  PROVE  IInv'
<1> DEFINE r == [line |-> cur, id |-> ReplyId(sent[cur]), code |-> reply]
<1>1. Counters
  BY TypeCounters DEF IInv
<1>2. /\ srv = "write" /\ srv' = "select" /\ reply' = "none" /\ out' = Append(out, r)
      /\ UNCHANGED <<sent, eof, client, cancelled, nread, rd, frames, cur, exit>>
  BY DEF WriteReply, world, reader
<1>3. cur > 0 /\ Owed(sent[cur]) /\ reply \in Codes /\ ~(exit = "eof")
  BY <1>2 DEF IInv, Serving, Ending
<1>4. r.id = OwedId(sent[cur]) /\ r.id \in Ids \cup {NullId} /\ r.line = cur
  <2>1. sent[cur] \in AllLines
    BY <1>1, <1>3, LinesAssumption DEF Counters
  <2> QED
    BY <1>3, <2>1, ReplyIdOwed
<1>5. r \in [line : Nat, id : Ids \cup {NullId}, code : Codes]
  BY <1>1, <1>3, <1>4 DEF Counters
<1>6. /\ out' \in Seq([line : Nat, id : Ids \cup {NullId}, code : Codes])
      /\ Len(out') = Len(out) + 1 /\ out'[Len(out) + 1] = r
      /\ \A i \in 1 .. Len(out) : out'[i] = out[i]
  BY <1>1, <1>2, <1>5 DEF Counters
<1>7. \A i \in 1 .. Len(out) : out[i].line \in 1 .. cur /\ out[i].line < cur
  BY <1>1, <1>2 DEF IInv, Serving
<1>8. TypeOK'
  BY <1>2, <1>6 DEF IInv, TypeOK
<1>9. Pipeline' /\ Ending'
  BY <1>2 DEF IInv, Pipeline, Ending, Fatal
<1>10. \A i \in 1 .. Len(out') : i \in 1 .. Len(out) \/ i = Len(out) + 1
  <2>1. Len(out) \in Nat
    BY <1>1 DEF Counters
  <2> QED
    BY <1>6, <2>1
<1>11. \A i \in 1 .. Len(out') : out'[i].line \in 1 .. cur
  <2>1. cur \in 1 .. cur
    BY <1>1, <1>3 DEF Counters
  <2> QED
    BY <1>4, <1>6, <1>7, <1>10, <2>1
<1>12. Serving'
  BY <1>2, <1>3, <1>11 DEF Serving, Ending
<1>13. RepliesInOrder'
  <2>1. ASSUME NEW i \in 1 .. Len(out')
        PROVE  Owed(sent[out'[i].line]) /\ out'[i].id = OwedId(sent[out'[i].line])
    <3>1. CASE i = Len(out) + 1
      BY <1>3, <1>4, <1>6, <3>1
    <3>2. CASE i \in 1 .. Len(out)
      BY <1>6, <3>2 DEF IInv, RepliesInOrder
    <3> QED
      BY <1>10, <3>1, <3>2
  <2>2. ASSUME NEW i \in 1 .. Len(out'), NEW j \in 1 .. Len(out'), i < j
        PROVE  out'[i].line < out'[j].line
    <3>1. Len(out) \in Nat
      BY <1>1 DEF Counters
    <3>2. i \in 1 .. Len(out)
      BY <1>6, <2>2, <3>1
    <3>3. CASE j = Len(out) + 1
      <4>1. out'[i].line < cur
        BY <1>6, <1>7, <3>2
      <4>2. out'[j].line = cur
        BY <1>4, <1>6, <3>3
      <4> QED
        BY <4>1, <4>2
    <3>4. CASE j \in 1 .. Len(out)
      BY <1>6, <2>2, <3>2, <3>4 DEF IInv, RepliesInOrder
    <3> QED
      BY <1>10, <3>3, <3>4
  <2> QED
    BY <1>2, <2>1, <2>2 DEF RepliesInOrder, Owed, OwedId
<1>14. NothingSkipped'
  <2> SUFFICES ASSUME NEW k \in 1 .. cur, Owed(sent[k])
               PROVE  \E i \in 1 .. Len(out') : out'[i].line = k
    BY <1>2 DEF NothingSkipped, Owed, Answered
  <2>1. CASE k = cur
    BY <1>1, <1>4, <1>6, <2>1 DEF Counters
  <2>2. CASE k < cur
    <3>1. PICK i \in 1 .. Len(out) : out[i].line = k
      BY <2>2 DEF IInv, NothingSkipped, Answered
    <3> QED
      BY SMTT(30), <1>1, <1>6, <3>1 DEF Counters
  <2> QED
    BY <1>1, <2>1, <2>2 DEF Counters
<1> QED
  BY <1>8, <1>9, <1>12, <1>13, <1>14 DEF IInv

LEMMA WriteFailsStep ==
  ASSUME IInv, WriteFails
  PROVE  IInv'
<1>1. Counters
  BY TypeCounters DEF IInv
<1>2. /\ srv = "write" /\ srv' = "returned" /\ exit' = "pipe"
      /\ UNCHANGED <<sent, eof, client, cancelled, nread, rd, frames, cur, reply, out>>
  BY DEF WriteFails, Return, world, reader
<1>3. TypeOK'
  BY <1>2 DEF IInv, TypeOK, Exits
<1>4. Pipeline'
  BY <1>2 DEF IInv, Pipeline
<1>5. Ending'
  <2>1. \A k \in 1 .. cur : ~Fatal(sent[k])
    BY <1>2 DEF IInv, Ending
  <2> QED
    BY <1>2, <2>1 DEF IInv, Ending, Fatal
<1>6. Serving'
  BY <1>1, <1>2 DEF IInv, Serving, Counters
<1>7. RepliesInOrder' /\ NothingSkipped'
  BY <1>1, <1>2 DEF IInv, RepliesInOrder, NothingSkipped, Owed, OwedId, Answered, Counters
<1> QED
  BY <1>3, <1>4, <1>5, <1>6, <1>7 DEF IInv

LEMMA StutterStep == ASSUME IInv, UNCHANGED vars PROVE IInv'
BY DEF vars, IInv, TypeOK, Pipeline, Ending, Serving, RepliesInOrder, NothingSkipped,
       Owed, OwedId, Answered, Fatal

LEMMA NextInv == ASSUME IInv, [Next]_vars PROVE IInv'
<1>1. CASE ClientWrites \/ ClientCloses \/ ClientDrains \/ Cancel
  BY <1>1, ClientStep
<1>2. CASE Reads
  BY <1>2, ReadStep
<1>3. CASE Receives
  BY <1>3, ReceiveStep
<1>4. CASE ServeCancelled \/ ServeDisconnected
  BY <1>4, ReturnStep
<1>5. CASE Handles \/ HandlerInterrupted
  BY <1>5, HandlerStep
  DEF Handles, HandlerReturns, HandlerFails, HandlerPanics, HandlerInterrupted
<1>6. CASE WriteReply
  BY <1>6, WriteStep
<1>7. CASE WriteFails
  BY <1>7, WriteFailsStep
<1>8. CASE Terminating \/ UNCHANGED vars
  BY <1>8, StutterStep DEF Terminating
<1> QED
  BY <1>1, <1>2, <1>3, <1>4, <1>5, <1>6, <1>7, <1>8 DEF Next

LEMMA Invariance == Spec => []IInv
<1>1. Init => IInv
  BY InitInv
<1>2. IInv /\ [Next]_vars => IInv'
  BY NextInv
<1> QED
  BY <1>1, <1>2, PTL DEF Spec

-----------------------------------------------------------------------------
(* Type correctness for any lines and any number of them.                  *)
THEOREM TypeCorrect == Spec => []TypeOK
BY Invariance, PTL DEF IInv

(* Replies answer lines that are owed one, under their ids, once and in    *)
(* the order of the lines.                                                 *)
THEOREM RepliesInOrderHolds == Spec => []RepliesInOrder
BY Invariance, PTL DEF IInv

(* Whatever Serve has dealt with and owes an answer is answered.           *)
THEOREM NothingSkippedHolds == Spec => []NothingSkipped
BY Invariance, PTL DEF IInv

(* Serve says "disconnected" only when no read line failed the stream.     *)
LEMMA EofMeansNoFatal == IInv => FatalSurfaces
<1> SUFFICES ASSUME IInv, exit = "eof", NEW k \in 1 .. nread PROVE sent[k].kind # "fatal"
  BY DEF FatalSurfaces
<1>1. Counters
  BY TypeCounters DEF IInv
<1>2. rd = "closed" /\ frames = <<>>
  BY DEF IInv, Ending
<1>3. CASE k \in 1 .. cur
  BY <1>3 DEF IInv, Ending, Fatal
<1>4. CASE k \in cur + 1 .. nread
  BY <1>2, <1>4 DEF IInv, Pipeline
<1> QED
  BY <1>1, <1>3, <1>4 DEF Counters

(* At EOF everything sent has been read, and what is read is handled.      *)
LEMMA EofMeansAllAnswered == IInv => AllAnsweredAtEof
<1> SUFFICES ASSUME IInv, exit = "eof", NEW k \in 1 .. Len(sent), Owed(sent[k]) PROVE Answered(k)
  BY DEF AllAnsweredAtEof
<1>1. Counters
  BY TypeCounters DEF IInv
<1>2. rd = "closed" /\ frames = <<>>
  BY DEF IInv, Ending
<1>3. nread = Len(sent)
  <2>1. nread > 0 => ~Fatal(sent[nread])
    BY <1>1, EofMeansNoFatal DEF FatalSurfaces, Fatal, Counters
  <2> QED
    BY <1>2, <2>1 DEF IInv, Ending
<1>4. sent[k].kind # "blank"
  BY DEF Owed
<1>5. k \in 1 .. cur
  BY <1>1, <1>2, <1>3, <1>4 DEF IInv, Pipeline, Counters
<1> QED
  BY <1>5 DEF IInv, Serving

(* A failed stream is never taken for an orderly disconnect.               *)
THEOREM FatalSurfacesHolds == Spec => []FatalSurfaces
BY Invariance, EofMeansNoFatal, PTL

(* Nothing that is owed an answer is left without one at EOF.              *)
THEOREM AllAnsweredAtEofHolds == Spec => []AllAnsweredAtEof
BY Invariance, EofMeansAllAnswered, PTL

(* The frame that makes Serve return is the last one of a reader that has  *)
(* closed the channel; nothing opens it again.                             *)
LEMMA ReaderEndsStep ==
  ASSUME IInv, ReaderEnds, [Next]_vars
  PROVE  ReaderEnds'
<1>1. Counters
  BY TypeCounters DEF IInv
<1>2. rd = "closed" => rd' = "closed"
  BY DEF Next, vars, ClientWrites, ClientCloses, ClientDrains, Cancel, Reads, ReadLine, ReadEof,
         SendFrame, ServeCancelled, ServeDisconnected, Receives, ReceiveFatal, ReceiveSilent,
         ReceiveCall, ReceiveAnswered, Receive, Handles, HandlerReturns, HandlerFails,
         HandlerPanics, HandlerInterrupted, HandlerEnds, WriteReply, WriteFails, Terminating, reader
<1>3. CASE ReceiveFatal
  <2>1. Receive /\ dispatch(sent[cur']) = "ErrStream"
    BY <1>3 DEF ReceiveFatal
  <2>2. cur' = frames[1] /\ frames # <<>> /\ rd' = rd
    BY <1>1, <2>1 DEF Receive, reader, Counters
  <2>3. cur' \in 1 .. nread /\ sent[cur'].kind # "blank"
    BY <1>1, <2>2 DEF IInv, Pipeline, Counters
  <2>4. sent[cur'] \in AllLines
    BY <1>1, <2>3, LinesAssumption DEF Counters
  <2>5. Fatal(sent[cur'])
    BY <2>1, <2>3, <2>4, DispatchOwed
  <2>6. cur' = nread /\ rd # "read"
    BY <2>3, <2>5 DEF IInv, Ending
  <2>7. rd # "send"
    BY <1>1, <2>2, <2>6 DEF IInv, Pipeline, Counters
  <2>8. rd \in {"read", "send", "closed"}
    BY DEF IInv, TypeOK
  <2> QED
    BY <2>2, <2>6, <2>7, <2>8 DEF ReaderEnds
<1>4. CASE ServeDisconnected
  BY <1>4 DEF ServeDisconnected, reader, ReaderEnds
<1>5. CASE exit' = exit
  BY <1>2, <1>5 DEF ReaderEnds
<1>6. CASE exit' \in {"cancelled", "pipe"}
  BY <1>6 DEF ReaderEnds
<1>7. ReceiveFatal \/ ServeDisconnected \/ exit' = exit \/ exit' \in {"cancelled", "pipe"}
  BY DEF Next, vars, ClientWrites, ClientCloses, ClientDrains, Cancel, Reads, ReadLine, ReadEof,
         SendFrame, ServeCancelled, Receives, ReceiveSilent, ReceiveCall, ReceiveAnswered, Handles,
         HandlerReturns, HandlerFails, HandlerPanics, HandlerInterrupted, HandlerEnds, WriteReply,
         WriteFails, Terminating, server, Return
<1> QED
  BY <1>3, <1>4, <1>5, <1>6, <1>7

(* Once Serve has returned on its own, no reader is left blocked.          *)
THEOREM ReaderEndsHolds == Spec => []ReaderEnds
<1>1. Init => ReaderEnds
  BY DEF Init, ReaderEnds
<1>2. IInv /\ ReaderEnds /\ [Next]_vars => ReaderEnds'
  BY ReaderEndsStep
<1> QED
  BY <1>1, <1>2, Invariance, PTL DEF Spec

(* Whatever lines the client pipelines, what it reads is a conversation.   *)
THEOREM ConversationHolds == Spec => []Conversation
<1>1. RepliesInOrder /\ NothingSkipped => Conversation
  BY DEF Conversation
<1> QED
  BY <1>1, RepliesInOrderHolds, NothingSkippedHolds, PTL

(* However the stream ends, nothing before its end is lost, its failure is *)
(* not, and no goroutine outlives it.                                      *)
THEOREM EndOfInputHolds == Spec => []EndOfInput
<1>1. AllAnsweredAtEof /\ FatalSurfaces /\ ReaderEnds => EndOfInput
  BY DEF EndOfInput
<1> QED
  BY <1>1, AllAnsweredAtEofHolds, FatalSurfacesHolds, ReaderEndsHolds, PTL
=============================================================================
