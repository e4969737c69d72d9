--------------------------- MODULE MCChangelogRun ---------------------------
(* Instances of ChangelogRun: one environment with all command lines and   *)
(* two histories, and many environments with two command lines each.       *)
EXTENDS ChangelogRun

LowerMC == [Anthropic |-> "anthropic", JSON |-> "json"]

C(hash, type, bang, footer) == [hash |-> hash, type |-> type, bang |-> bang, footer |-> footer]
Released == C(<<"r", "1">>, "feat", FALSE, "none")
Feature == C(<<"a", "1">>, "feat", TRUE, "none")
Merging == C(<<"m", "1">>, "Merge", FALSE, "none")
Fix == C(<<"b", "1">>, "fix", FALSE, "text")
Loose == C(<<"c", "1">>, "", FALSE, "none")
Wip == C(<<"d", "1">>, "wip", TRUE, "blank")
IncomingMC == {C(<<"e", "1">>, "security", FALSE, "none")}

-----------------------------------------------------------------------------
Item(subject, hashes) == [subject |-> subject, hashes |-> hashes]
Payloads(categories, breaking) == [categories |-> categories, breaking |-> breaking]
Block(payload) == [lang |-> "changelog", decodes |-> TRUE, categories |-> "present", payload |-> payload]
NoPayload == Payloads(<< >>, <<>>)

(* Two commits in an item, an unknown one among them; the breaking item    *)
(* overlaps two categories, the later of them first.                       *)
Merged2 == Block(Payloads(
  [Added |-> <<Item("s1", <<<<"a", "1">>, <<"z">>>>)>>,
   Fixed |-> <<Item("s2", <<<<"b">>, <<"c">>>>)>>],
  <<Item("s3", <<<<"b">>, <<"a">>>>)>>))
(* An unknown category, a blank text, an invented commit. *)
Odd == Block(Payloads(
  [Features |-> <<Item("s1", <<<<"a">>>>), Item("blank", <<<<"b">>>>)>>,
   Other |-> <<Item("s2", <<<<"z", "9">>>>), Item("s4", <<<<"d", "1">>, <<"c">>>>)>>], <<>>))
OnlyBreaking == Block(Payloads([Added |-> <<>>], <<Item("s5", <<<<"a">>>>)>>))
NoCategories == [Block(NoPayload) EXCEPT !.categories = "absent"]
AsJson == [Merged2 EXCEPT !.lang = "json"]

AnswersMC == {<<Merged2, NoCategories>>, <<Odd>>, <<AsJson, OnlyBreaking>>, <<AsJson>>}
JunkMC == <<NoCategories>>

-----------------------------------------------------------------------------
Plain == [NoLine EXCEPT !.ai = TRUE]
Flags(f) == [Plain EXCEPT !.flags = f]
AllLines ==
  {NoLine, Plain, [Plain EXCEPT !.dryRun = TRUE], [Plain EXCEPT !.noCache = TRUE],
   [Plain EXCEPT !.range = {1}], [Plain EXCEPT !.range = {4}], Flags([format |-> "xml"])}
FewLines == {Plain, Flags([provider |-> "ollama", max_cost_usd |-> 0])}

Env(personal, root, cwd, variables) ==
  [files |-> [personal |-> File(personal), top |-> File(root), sub |-> File(cwd)],
   root |-> "top", cwd |-> "sub", vars |-> variables]
Keyed == [api_key |-> "key"]
Repo(at) == <<[at |-> at, name |-> "other"]>>
Team == [required |-> <<"Added", "Fixed", "Tpyo">>, repos |-> Repo("")]

CoreEnv == Env([format |-> "text"], Team, << >>, Keyed)
Environments ==
  {Env([provider |-> "Anthropic"], Team, [repos |-> Repo("")], Keyed),
   Env([provider |-> "gemini", base_url |-> "proxy"], << >>, [base_url |-> ""], Keyed),
   Env([required |-> <<"Other">>], [provider |-> "gemini"] @@ Team, [repos |-> Repo("/"), provider |-> "anthropic"],
       [api_key |-> "key", base_url |-> "proxy", format |-> "JSON"]),
   Env([api_key |-> "key", azure |-> "tenant"], [provider |-> "azure_openai"], << >>, << >>),
   Env(Keyed, [provider |-> "azure_openai"], << >>, << >>),
   Env([provider |-> "ollama"], << >>, [provider |-> ""], Keyed),
   Env([repos |-> Repo("")], [changelog_template |-> "gone"], << >>, << >>),
   Env(<< >>, [changelog_template |-> "fails"], << >>, Keyed),
   Env(Keyed, [max_cost_usd |-> 10, format |-> "xml"], [format |-> "md"], << >>),
   Env(<< >>, [exclude_globs |-> <<"[">>], << >>, Keyed),
   [CoreEnv EXCEPT !.files["top"] = Broken],
   [CoreEnv EXCEPT !.root = "sub", !.files["personal"] = Missing],
   [CoreEnv EXCEPT !.root = "", !.vars = [api_key |-> "key", cache |-> FALSE]]}

Scenario(e, lines_, commits_, tags_) == [env |-> e, lines |-> lines_, commits |-> commits_, tags |-> tags_]
ScenariosMC ==
  {Scenario(CoreEnv, AllLines, <<Released, Feature, Merging, Fix>>, {1}),
   Scenario(CoreEnv, AllLines, <<Fix, Feature, Loose, Wip>>, {})}
  \cup {Scenario(e, FewLines, <<Released, Feature, Fix>>, {1}) : e \in Environments}
=============================================================================
