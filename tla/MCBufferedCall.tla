--------------------------- MODULE MCBufferedCall ---------------------------
(* Instances of BufferedCall.  In a word of 7 bits the shift by 5 wraps    *)
(* around to a positive delay, the shift by 4 to a negative one, those     *)
(* from 7 on to zero.                                                      *)
EXTENDS BufferedCall

RetrySettings == {-1, 1, 9}
AnswerTexts == {<<"a">>, <<"b", "c">>}

Block(type, words) == [type |-> type, text |-> words]
Spoken(words) == Block("text", words)
Body(replies) == [decodes |-> TRUE, error |-> FALSE, replies |-> replies]
Envelope == [Body(<<>>) EXCEPT !.error = TRUE]
NoJSON == [Envelope EXCEPT !.decodes = FALSE]

Answered ==
  [p \in Providers |->
     {Envelope, NoJSON, Body(<<>>)} \cup
     CASE p = "openai" ->
            {Body(<<<<Spoken(<<>>)>>>>), Body(<<<<Spoken(<<"a">>)>>, <<Spoken(<<"b", "c">>)>>>>)}
       [] p = "anthropic" ->
            {Body(<<<<Block("thinking", <<"a">>)>>>>),
             Body(<<<<Block("thinking", <<"a">>), Spoken(<<"b", "c">>), Spoken(<<"a">>)>>>>)}
       [] p = "gemini" ->
            {Body(<<<<>>>>), Body(<<<<Spoken(<<"b", "c">>), Spoken(<<>>), Spoken(<<"a">>)>>, <<Spoken(<<"a">>)>>>>)}]
=============================================================================
