---------------------------- MODULE MCStreamPaths ---------------------------
(* Instances of StreamPaths: answers put together from pieces of Markdown, *)
(* control characters and a two-byte rune among them, with the risk block  *)
(* where the prompt wants it, elsewhere, broken off, or not at all.        *)
EXTENDS StreamPaths, TLC

Bytes == {"t", "r", "k", "R", "n", "_", "v", "a", "E", "L", "8", "9"}
RiskMarker == Fence \o <<"r", "k">>
LeadBytes == {"L"}
Controls == {<<"E">>, <<"L", "9">>}
TagLetters == {"r", "k", "R", "a"}

Plain == <<"a", "L", "8">>
Control == <<"t", "E", "L", "9">>
Ticks == <<"t", "t", "r">>
Code == Fence \o <<"a", "n", "a", "n">> \o Fence
Block == RiskMarker \o <<"_", "n", "v", "n">> \o Fence
Upper == Fence \o <<"R", "k", "n", "v", "n">> \o Fence
BrokenOff == RiskMarker \o <<"n">>
Mention == <<"t">> \o RiskMarker \o <<"t", "t", "n">>

Reviews == {FlattenSeq(pieces) : pieces \in BoundedSeq({Plain, Control, Ticks, Code}, 2)}
Demanded == {review \o <<"n">> \o Block \o tail : review \in Reviews, tail \in {<<>>, <<"n">>}}

Odd ==
  {FlattenSeq(pieces) : pieces \in BoundedSeq({Plain, Ticks, Block, Upper, BrokenOff, Mention}, 3)}

(* A quotation between four backticks before the risk block: Markdown with *)
(* an odd number of fences.                                                *)
Quoted == <<"t">> \o Fence \o <<"n">> \o Fence \o <<"n", "a", "n", "t">> \o Fence
Quoting == {review \o <<"n">> \o Quoted \o <<"n">> \o Block : review \in Reviews}

AllAnswers == Demanded \cup Odd
=============================================================================
