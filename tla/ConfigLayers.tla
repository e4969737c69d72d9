---------------------------- MODULE ConfigLayers ----------------------------
(***************************************************************************)
(* The configuration of a command (internal/config): Load merges the       *)
(* layers, validates the result and only then completes it; the provider's *)
(* client (internal/llm) takes its URL and its header from there.          *)
(*                                                                         *)
(* A layer is a function from the keys it sets to their values; amounts    *)
(* are in cents.                                                           *)
(***************************************************************************)
EXTENDS Integers, Sequences, FiniteSets, SequencesExt

CONSTANT Lower   \* the lower-case form of the spellings that are not

(* provider -> its own endpoint *)
Home == [openai |-> "api.openai.com", ollama |-> "localhost",
         anthropic |-> "api.anthropic.com", gemini |-> "googleapis.com"]
Providers == {"openai", "ollama", "azure_openai", "anthropic", "gemini"}

(* Mutant: OpenAI's URL is everybody's default. *)
DefaultsWithURL ==
  [provider |-> "openai", api_key |-> "", base_url |-> "api.openai.com", azure |-> "",
   timeout_seconds |-> 60, max_cost_usd |-> 50, format |-> "md", template_file |-> "",
   changelog_template |-> "", exclude_globs |-> <<"vendor/**">>, required |-> <<>>,
   cache |-> TRUE, ttl_hours |-> 24]

Defaults ==
  [provider |-> "openai", api_key |-> "", base_url |-> "", azure |-> "",
   timeout_seconds |-> 60, max_cost_usd |-> 50, format |-> "md", template_file |-> "",
   changelog_template |-> "", exclude_globs |-> <<"vendor/**">>, required |-> <<>>,
   cache |-> TRUE, ttl_hours |-> 24]

(* A stronger layer replaces a value whole, lists included. *)
Over(below, above) ==
  [k \in DOMAIN below \cup DOMAIN above |-> IF k \in DOMAIN above THEN above[k] ELSE below[k]]

(* digest.repos has no default, so no variable can set it. *)
Unset == Over(Defaults, [repos |-> <<>>])

FlagKeys == {"provider", "base_url", "format", "max_cost_usd"}

Missing == [reads |-> "missing", sets |-> << >>]
Broken == [reads |-> "broken", sets |-> << >>]
File(layer) == [reads |-> "parses", sets |-> layer]

-----------------------------------------------------------------------------
(* Load *)

(* Mutant: the root's file is merged last. *)
RootLast(env) == IF env.root \in {"", env.cwd} THEN <<env.cwd>> ELSE <<env.cwd, env.root>>

(* repoDirs: a root that is not found, or the same directory, adds none. *)
RepoDirs(env) == IF env.root \in {"", env.cwd} THEN <<env.cwd>> ELSE <<env.root, env.cwd>>

(* The files, from the weakest: the personal one, the repository's. *)
MergedFiles(env) ==
  LET dirs == RepoDirs(env)
      SetIn(name) == env.files[name].sets
      weaker == Over(Over(Unset, SetIn("personal")), SetIn(dirs[1]))
  IN  IF Len(dirs) = 1 THEN weaker ELSE Over(weaker, SetIn(dirs[2]))

(* Above the files stand the variables that name a key with a default, and *)
(* the flags that were given.                                              *)
Merged(env, flags) ==
  Over(Over(MergedFiles(env), Restrict(env.vars, DOMAIN env.vars \cap DOMAIN Defaults)),
       Restrict(flags, DOMAIN flags \cap FlagKeys))

Unreadable(env) ==
  \E f \in {"personal"} \cup Range(RepoDirs(env)) : env.files[f].reads = "broken"

Declaring(env) ==
  {i \in DOMAIN RepoDirs(env) : "repos" \in DOMAIN env.files[RepoDirs(env)[i]].sets}

(* Mutant: the first file that declares the list names the directory. *)
FirstDeclaring(env) == IF Declaring(env) = {} THEN env.cwd ELSE RepoDirs(env)[Min(Declaring(env))]

DigestBaseDir(env) == IF Declaring(env) = {} THEN env.cwd ELSE RepoDirs(env)[Max(Declaring(env))]

(* Mutant: the paths stay as they are. *)
StaysRelative(repos, dir) == repos

(* resolveDigestRepoPaths *)
ResolvedRepos(repos, dir) ==
  [i \in DOMAIN repos |-> IF repos[i].at = "" THEN [repos[i] EXCEPT !.at = dir] ELSE repos[i]]

OfflineMode(cfg) == cfg.api_key = "" /\ cfg.provider # "ollama"

LowerCase(word) == IF word \in DOMAIN Lower THEN Lower[word] ELSE word
Normalized(cfg) ==
  [cfg EXCEPT !.provider = IF @ = "" THEN "openai" ELSE LowerCase(@), !.format = LowerCase(@)]

(* A template is named by what becomes of it: "gone" does not exist, the   *)
(* others parse.                                                           *)
TemplateReads(path) == path # "gone"

(* Mutant: the format is left to the renderer. *)
ValidButFormat(cfg) ==
  /\ cfg.timeout_seconds > 0
  /\ cfg.provider \in Providers
  /\ TemplateReads(cfg.template_file)
  /\ OfflineMode(cfg) \/ TemplateReads(cfg.changelog_template)
  /\ \A i \in DOMAIN cfg.exclude_globs : cfg.exclude_globs[i] # "["

(* validate, of a normalized configuration *)
Valid(cfg) ==
  /\ cfg.timeout_seconds > 0
  /\ cfg.provider \in Providers
  /\ cfg.format \in {"md", "text", "json", ""}
  /\ TemplateReads(cfg.template_file)
  /\ OfflineMode(cfg) \/ TemplateReads(cfg.changelog_template)
  /\ \A i \in DOMAIN cfg.exclude_globs : cfg.exclude_globs[i] # "["

(* applyProviderBaseURL: a name it does not know is taken for openai. *)
WithBaseURL(cfg) ==
  IF cfg.base_url # "" \/ cfg.provider \in {"anthropic", "gemini", "azure_openai"} THEN cfg
  ELSE [cfg EXCEPT !.base_url = IF cfg.provider = "ollama" THEN Home.ollama ELSE Home.openai]

(* Mutant: the URL is filled in before the provider's name is normalized. *)
CompletedFirst(env, flags) ==
  LET cfg == Normalized(WithBaseURL(Merged(env, flags)))
  IN  [cfg EXCEPT !.repos = ResolvedRepos(@, DigestBaseDir(env))]

Loaded(env, flags) ==
  LET cfg == WithBaseURL(Normalized(Merged(env, flags)))
  IN  [cfg EXCEPT !.repos = ResolvedRepos(@, DigestBaseDir(env))]

Loads(env, flags) == ~Unreadable(env) /\ Valid(Normalized(Merged(env, flags)))

-----------------------------------------------------------------------------
(* The clients: newNetworkClient, endpointURL, setAuth *)

Constructs(cfg) ==
  CASE cfg.provider = "azure_openai" -> cfg.azure # ""
    [] cfg.provider \in {"anthropic", "gemini"} -> cfg.api_key # ""
    [] OTHER -> cfg.base_url # ""

Endpoint(cfg) ==
  CASE cfg.provider = "azure_openai" -> cfg.azure
    [] cfg.provider \in {"anthropic", "gemini"} /\ cfg.base_url = "" -> Home[cfg.provider]
    [] OTHER -> cfg.base_url

(* Mutant: a key that happens to be set is sent to ollama, too. *)
AuthAlways(cfg) == cfg.api_key

Auth(cfg) == IF cfg.provider = "ollama" THEN "" ELSE cfg.api_key

(* costGuard, for an estimate *)
ExceedsBudget(cfg, estimate) ==
  cfg.provider # "ollama" /\ cfg.max_cost_usd > 0 /\ estimate > cfg.max_cost_usd
=============================================================================
