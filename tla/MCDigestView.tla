---------------------------- MODULE MCDigestView ----------------------------
(* Instances of DigestView.  A repository's head is at k2, to which k3 is  *)
(* committed, or which is amended to a2; k0 is older than the window.      *)
EXTENDS DigestView

Some == {"k0", "k1", "k2", "k3", "a2"}
Ancestors ==
  "k0" :> {"k0"} @@ "k1" :> {"k0", "k1"} @@ "k2" :> {"k0", "k1", "k2"}
  @@ "k3" :> {"k0", "k1", "k2", "k3"} @@ "a2" :> {"k0", "k1", "a2"}
Newer == Some \ {"k0"}

File(path, added, removed) == [path |-> path, added |-> added, removed |-> removed]
Authors == "k0" :> "ann" @@ "k1" :> "ann" @@ "k2" :> "bob" @@ "k3" :> "bob" @@ "a2" :> "bob"
Prefix(type, capital) == [type |-> type, capital |-> capital]
Prefixed ==
  "k0" :> NoPrefix @@ "k1" :> Prefix("feat", TRUE) @@ "k2" :> Prefix("feat", FALSE)
  @@ "k3" :> NoPrefix @@ "a2" :> Prefix("other", FALSE)
Changes ==
  "k0" :> {File("a", 9, 0)} @@ "k1" :> {File("b", 1, 0), File("c", 0, 2)}
  @@ "k2" :> {File("a", 3, 1), File("b", Binary, Binary)}
  @@ "k3" :> {File("d", 1, 1), File("b", 1, 1), File("c", 2, 0)} @@ "a2" :> {}
InOrder == <<"a", "ann", "b", "bob", "c", "d", "feat", "other">>

Request(days, list, tui, terminal, config) ==
  [days |-> days, repos |-> list, tui |-> tui, terminal |-> terminal, config |-> config]
Listings == {<<Empty>>, <<"b", Empty>>, <<"b", "/c">>, <<"/a", "b">>, <<"b", "/b">>}
Configs == {<<>>, <<"/a", Empty>>, <<Empty>>}
SomeRequests ==
  {Request(7, list, FALSE, TRUE, <<"/c">>) : list \in Listings}
  \cup {Request(7, NotSet, FALSE, TRUE, config) : config \in Configs}
  \cup {Request(7, list, TRUE, TRUE, <<>>) : list \in {NotSet, <<"/c">>, <<"b", "/c">>}}
  \cup {Request(0, NotSet, FALSE, TRUE, <<>>), Request(7, NotSet, TRUE, FALSE, <<>>)}
Absolute == "." :> "/a" @@ "/a" :> "/a" @@ "b" :> "/b" @@ "/b" :> "/b" @@ "/c" :> "/c"
Disk == "." :> "A" @@ "/a" :> "A" @@ "/b" :> "B"

SomeHistories == {"A" :> "k2" @@ "B" :> "k0", "A" :> Unborn @@ "B" :> "k3", "A" :> "k1" @@ "B" :> "k2"}
Tips == {"k2", "k3", "a2"}
Terminals == {1, 6, 13}
Rows == {0, 2}
=============================================================================
