--------------------------- MODULE MCReviewSource ---------------------------
(* Instances of ReviewSource.  The base branch is b0, b1; the pull request *)
(* branches off b0 with h1, h2 and is force-pushed to f1; x1 is the head   *)
(* of another pull request with the same number at the fork.               *)
EXTENDS ReviewSource

Some == {"b0", "b1", "h1", "h2", "f1", "x1"}
Ancestors ==
  [c \in Some |-> CASE c = "b0" -> {"b0"} [] c = "h2" -> {"b0", "h1", "h2"} [] OTHER -> {"b0", c}]

Request(kind) == [kind |-> kind, dots |-> 2]
AllRequests == {Request(k) : k \in Kinds} \cup {[kind |-> "range", dots |-> 3]}

Tips(b, h) == [base |-> b, head |-> h]
Pushes == {Tips("b0", "h1"), Tips("b0", "h2"), Tips("b1", "h2"), Tips("b1", "f1"), Tips("b1", "b0")}
Elsewhere == Tips("b0", "x1")

Clone(objects, shallow, base, head, origin, upstream) ==
  [objects |-> objects, cut |-> shallow, names |-> Tips(base, head),
   remotes |-> [origin |-> origin, upstream |-> upstream]]
Repositories ==
  {Clone({"b0"}, {}, "b0", "b0", "pr", Missing),
   Clone({"b0", "h1", "h2"}, {}, "b0", "h2", "fork", "pr"),
   Clone({"b0", "b1", "h1"}, {}, "b1", "h1", "alias", "fork"),
   Clone({"b0", "f1"}, {}, "b0", "f1", "fork", "alias"),
   Clone({"b1"}, {"b1"}, "b1", "b1", "pr", Missing),
   Clone({"b0", "b1", "h2"}, {"h2"}, "b0", "h2", "pr", "fork"),
   Clone({"b0"}, {"b0"}, "b0", "b0", Missing, Missing)}

v == <<"v", "/">>
(* git lists the files of a diff by the bytes of their paths. *)
ByName ==
  <<<<"q", "e", "tab">>, <<"k">>, v \o <<"q", "B", "w">>, v \o <<"q", "x">>, v \o <<"e", "q">>, v \o <<"x">>,
    v \o <<"x", "B", "y">>, v \o <<"y">>, <<"w", "B", "v", "/", "x">>, <<"w", "/", "x", "k">>, <<"w", "/", "y">>,
    <<"w", "/", "r1", "r2">>>>
Place(file) == CHOOSE i \in DOMAIN ByName : ByName[i] = file.path
Paths == Range(ByName) \ {v \o <<"y">>, <<"w", "/", "y">>}
Bodies ==
  {<<>>,
   <<Line("+", <<"+", "+", "x">>), Line("-", <<"-", "-">>)>>,
   <<Line(" ", <<"D", "a", "/", "k", "B", "k">>), Line("+", <<"@", "x">>), Line("e", <<"x">>)>>,
   <<Line("+", <<"r1", "r2">>), Line("-", <<"x">>)>>}
Renamed == {[from |-> <<"w", "B", "v", "/", "k">>, path |-> <<"w", "/", "y">>, lines |-> <<>>],
            [from |-> <<"w", "q">>, path |-> v \o <<"y">>, lines |-> <<>>]}
Files == {[from |-> path, path |-> path, lines |-> lines] : path \in Paths, lines \in Bodies} \cup Renamed
StagedFiles == {<<>>} \cup {<<f>> : f \in Files} \cup {fg \in Files \X Files : Place(fg[1]) < Place(fg[2])}

Vendor == Glob(v, 2, <<>>)
Lock == Glob(<<>>, 1, <<"k">>)
Shaping(diff, policy, limit) == [diff |-> diff, policy |-> policy, limit |-> limit]
SomeShapings ==
  {Shaping({}, {}, 0), Shaping({Vendor}, {Lock}, 0), Shaping({Lock}, {}, 6), Shaping({}, {Vendor}, 29),
   Shaping({}, {Glob(<<"w", "/">>, 1, <<"k">>)}, 40)}
=============================================================================
