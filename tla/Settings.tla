-------------------------------- MODULE Settings --------------------------------
(***************************************************************************)
(* The choice of the language model: the environment and the .env file it  *)
(* is read from, the setup wizard, which writes the file, and the runtime  *)
(* settings, which write the file and change the running backend.          *)
(*                                                                         *)
(* An environment variable is a pair: what it holds, and the provider it   *)
(* is for ("" for the generic ones).  None is a variable that is not set,  *)
(* a null and an empty string, which the code does not tell apart except   *)
(* in the base_url of a request.                                           *)
(***************************************************************************)
EXTENDS ServingBackend, FiniteSets

CONSTANTS
  Offered,    \* the providers tried
  Models,     \* models asked for by name
  Urls,       \* base urls asked for
  Keys,       \* API keys given
  AtOnce,     \* bound: how many of model, url and key one request names
  Operators   \* how the backend may have been installed, and which panels are used

None == ""

(***************************************************************************)
(* The registry of providers.                                              *)
(***************************************************************************)

Provider(kind, model, keyed, url) ==
  [kind |-> kind, model |-> model, keyed |-> keyed, url |-> url]
Compatible(model, url) == Provider("openai_compatible", model, TRUE, url)
Local(model, url)      == Provider("openai_compatible", model, FALSE, url)

Info == [
  mock       |-> Provider("mock", "mock", FALSE, None),
  openai     |-> Provider("native_openai", "gpt-4o-mini", TRUE, None),
  anthropic  |-> Provider("native_anthropic", "claude-3-5-sonnet-latest", TRUE, None),
  gemini     |-> Compatible("gemini-1.5-flash", "generativelanguage.googleapis.com"),
  vertex     |-> Provider("litellm_only", "gemini-1.5-pro", FALSE, None),
  azure      |-> Provider("litellm_only", "gpt-4o-mini", TRUE, None),
  bedrock    |-> Provider("litellm_only", "claude-3-5-sonnet", FALSE, None),
  mistral    |-> Compatible("mistral-large-latest", "api.mistral.ai"),
  cohere     |-> Provider("litellm_only", "command-r-plus", TRUE, None),
  groq       |-> Compatible("llama-3.3-70b-versatile", "api.groq.com"),
  together   |-> Compatible("Llama-3.3-70B-Instruct-Turbo", "api.together.xyz"),
  openrouter |-> Compatible("openrouter/auto", "openrouter.ai"),
  deepseek   |-> Compatible("deepseek-chat", "api.deepseek.com"),
  xai        |-> Compatible("grok-2-latest", "api.x.ai"),
  perplexity |-> Compatible("llama-3.1-sonar-large-128k-online", "api.perplexity.ai"),
  fireworks  |-> Compatible("llama-v3p3-70b-instruct", "api.fireworks.ai"),
  ollama     |-> Local("llama3.2", "localhost:11434"),
  lmstudio   |-> Local("local-model", "localhost:1234"),
  vllm       |-> Local("Llama-3.1-8B-Instruct", "localhost:8000"),
  custom     |-> Local("gpt-3.5-turbo", None) ]

Providers == DOMAIN Info

\* The providers a Config may name: those tried, and what the shell or nothing says.
Choosable == Offered \cup {"mock", "openai"}

NeedsUrl  == {"azure", "ollama", "lmstudio", "vllm", "custom"}
LiteLLMOnly(p) == Info[p].kind = "litellm_only"

(***************************************************************************)
(* Environment variables.                                                  *)
(***************************************************************************)

Var(part, p) == <<part, p>>
Generic(part) == <<part, "">>
Vars == {Generic("llm"), Generic("litellm"), Var("sdk_url", "openai")}
        \cup ({"model", "url", "key"} \X (Offered \cup {"", "openai", "anthropic"}))
Unset == [v \in Vars |-> None]

\* Where a provider's key is stored: its own variable, or JARVIS_LLM_API_KEY.
KeyVar(p) == IF Info[p].keyed THEN Var("key", p) ELSE Generic("key")

\* The first of these values that is set.
Either(a, b) == IF a # None THEN a ELSE b

VARIABLES
  shell,      \* what the shell exports
  installed,  \* the optional packages that can be imported
  elsewhere,  \* JARVIS_ENV_FILE: what updates write is in a file that no start reads
  panels,     \* the panels that are used: the two share no state but the process
  file,       \* the .env file
  env,        \* os.environ of the backend
  config,     \* the Config of the backend, as far as it concerns the model
  live,       \* agent.llm
  chosen,     \* history: who chose last ("nobody", "update", "setup"), what it came to, and
              \* the base url that was asked for last since this provider was chosen
  given       \* history: the key given last for each provider, and by whom

operatorVars == <<shell, installed, elsewhere, panels>>
settingsVars == <<operatorVars, file, env, config, live, chosen, given>>

(***************************************************************************)
(* Resolution.  MockLLM stands for every way of having no model.           *)
(***************************************************************************)

Mock == [adapter |-> "mock", provider |-> "mock", model |-> "mock", url |-> None, key |-> None]

ResolveModel(p, c, e) ==
  Either(c.model, Either(CASE p = "openai"    -> c.openai
                           [] p = "anthropic" -> c.anthropic
                           [] OTHER           -> e[Var("model", p)],
                         Info[p].model))

ResolveKey(p, c, e) ==
  Either(IF Info[p].keyed THEN e[Var("key", p)] ELSE None,
         Either(c.key, e[Generic("key")]))

ResolveUrl(p, c, e) ==
  Either(e[Var("url", p)],
         Either(c.url,
                Either(IF p = "openai" THEN e[Var("sdk_url", p)] ELSE None, Info[p].url)))

Resolve(c, e) ==
  IF c.provider \notin Providers \ {"mock"} THEN Mock
  ELSE [adapter  |-> "none", provider |-> c.provider,
        model    |-> ResolveModel(c.provider, c, e),
        url      |-> ResolveUrl(c.provider, c, e),
        key      |-> ResolveKey(c.provider, c, e)]

\* Whether _build_native, or LiteLLMProvider, can be built for what was resolved.
Native(r, packages) ==
  LET kind == Info[r.provider].kind IN
  \/ kind \in {"native_openai", "native_anthropic"} /\ r.key # None /\ r.provider \in packages
  \/ kind = "openai_compatible" /\ (Info[r.provider].keyed => r.key # None) /\ r.url # None
ThroughLiteLLM(r, packages) ==
  "litellm" \in packages /\ (Info[r.provider].keyed => r.key # None)

CreateLLM(c, e, packages) ==
  LET r == Resolve(c, e)
      Through(adapter) == [r EXCEPT !.adapter = adapter]
  IN  IF r = Mock THEN Mock
      ELSE IF ThroughLiteLLM(r, packages) /\ (c.litellm \/ ~Native(r, packages)) THEN Through("litellm")
      ELSE IF Native(r, packages) THEN Through("native")
      ELSE Mock

(***************************************************************************)
(* Starting: the file fills in what the shell does not export, and Config  *)
(* reads the result once.                                                  *)
(***************************************************************************)

Loaded == [v \in Vars |-> Either(shell[v], file[v])]

ConfigOf(e) ==
  [provider  |-> Either(e[Generic("llm")], "mock"),
   model     |-> e[Generic("model")],
   url       |-> e[Generic("url")],
   key       |-> e[Generic("key")],
   litellm   |-> e[Generic("litellm")] = "1",
   openai    |-> Either(e[Var("model", "openai")], Info["openai"].model),
   anthropic |-> Either(e[Var("model", "anthropic")], Info["anthropic"].model)]

\* What the shell may export, and what such a variable holds.
Exportable == {Generic("llm"), Generic("model"), Generic("litellm"), KeyVar("openai")}
ShellValue(v) ==
  CASE v[1] = "llm" -> "openai" [] v[1] = "litellm" -> "1" [] OTHER -> "exported"
Noted(notes) == {Generic(part) : part \in notes}

ASSUME SettingsAssumption ==
  /\ Offered \subseteq Providers
  /\ {Models, Urls, Keys} \subseteq SUBSET (STRING \ {None, "absent"})
  /\ Operators \subseteq [exports   : SUBSET Exportable,            \* by the shell
                          notes     : SUBSET {"model", "url", "key"}, \* in the .env before
                          elsewhere : BOOLEAN,                      \* JARVIS_ENV_FILE is set
                          packages  : SUBSET {"openai", "anthropic", "litellm"},
                          panels    : SUBSET {"settings", "authoring"}]

SettingsInit ==
  /\ \E o \in Operators :
       /\ shell = [v \in Vars |-> IF v \in o.exports THEN ShellValue(v) ELSE None]
       /\ file = [v \in Vars |-> IF v \in Noted(o.notes) THEN "noted" ELSE None]
       /\ elsewhere = o.elsewhere /\ installed = o.packages /\ panels = o.panels
  /\ env = Unset
  /\ config = ConfigOf(Unset)
  /\ live = Mock
  /\ chosen = [by |-> "nobody", provider |-> "mock", model |-> "mock", url |-> None, asked |-> None]
  /\ given = [p \in Choosable |-> [by |-> "nobody", key |-> None]]

\* main: the environment, the Config, the model.
SettingsStart ==
  /\ env' = Loaded
  /\ config' = ConfigOf(Loaded)
  /\ live' = CreateLLM(ConfigOf(Loaded), Loaded, installed)
  /\ UNCHANGED <<operatorVars, file, chosen, given>>

\* What the process held is gone.
SettingsStop ==
  /\ env' = Unset
  /\ config' = ConfigOf(Unset)
  /\ live' = Mock
  /\ UNCHANGED <<operatorVars, file, chosen, given>>

(***************************************************************************)
(* Writing the choice of provider p: build_settings and update_env_file,   *)
(* which replaces the lines of these variables and no other.               *)
(***************************************************************************)

\* Faulty variant: one model variable for all the providers.
FaultyWritten(f, p, model, url, key) ==
  [f EXCEPT ![Generic("llm")] = p, ![Var("model", "openai")] = model, ![KeyVar(p)] = Either(key, @)]

Written(f, p, model, url, key) ==
  IF p = "mock" THEN [f EXCEPT ![Generic("llm")] = p]
  ELSE [v \in Vars |->
          CASE v = Generic("llm")                -> p
            [] v = Var("model", p)               -> Either(model, Info[p].model)
            [] v = Var("url", p) /\ url # None   -> url
            [] v = KeyVar(p) /\ key # None       -> key
            [] v = Generic("litellm")            -> IF LiteLLMOnly(p) THEN "1" ELSE "0"
            [] OTHER                             -> f[v]]

Few(model, url, key) ==
  Cardinality({i \in 1..3 : <<model, url, key>>[i] \notin {None, "absent"}}) <= AtOnce

Requests == {req \in [provider : Offered \cup {None}, model : Models \cup {None},
                      url : Urls \cup {None, "absent"}, key : Keys \cup {None}] :
               Few(req.model, req.url, req.key)}

\* The provider, the model and the base url a request comes to.
Provided(req, current) == Either(req.provider, current.provider)
Unless(p, current, kept, default) == IF p = current.provider THEN kept ELSE default
ModelFor(req, p, current) ==
  Either(req.model, Unless(p, current, current.model, Info[p].model))
UrlFor(req, p, current) ==
  IF req.url = "absent" THEN Unless(p, current, current.url, Info[p].url) ELSE req.url

\* The environment and the Config after an update.
KeyGiven(e, p, key) == IF key = None THEN e ELSE [e EXCEPT ![KeyVar(p)] = key]
Configured(p, model, url, key) ==
  [config EXCEPT !.provider = p, !.model = model, !.url = url, !.litellm = LiteLLMOnly(p),
                 !.key = Either(key, @)]

\* Faulty variant: the model is built before the key is in the environment.
FaultySwapLLM(c, e) == live' = CreateLLM(c, env, installed)
SwapLLM(c, e) == live' = CreateLLM(c, e, installed)

\* The file cannot be written: nothing has been changed yet.
UpdateFails == UNCHANGED settingsVars

\* What is asked for, remembered for the properties.
Remember(by, p, model, url, asked, key) ==
  /\ chosen' = [by |-> by, provider |-> p, model |-> IF p = "mock" THEN "mock" ELSE model,
                url |-> url, asked |-> asked]
  /\ given' = IF key = None THEN given ELSE [given EXCEPT ![p] = [by |-> by, key |-> key]]

\* client.settings_update, for a provider of the registry: the file, the Config and the
\* environment, the model.  (The optional validation of the key is left out: it never
\* refuses one, since validate_provider cannot run a loop inside the server's.)
Update(req) ==
  LET current == Resolve(config, env)
      p       == Provided(req, current)
      model   == ModelFor(req, p, current)
      url     == UrlFor(req, p, current)
      before  == IF p = chosen.provider THEN chosen.asked ELSE None
  IN  /\ file' = IF elsewhere THEN file ELSE Written(file, p, model, url, req.key)
      /\ config' = Configured(p, model, url, req.key)
      /\ env' = KeyGiven(env, p, req.key)
      /\ SwapLLM(config', env')
      /\ Remember("update", p, model, url, IF req.url = "absent" THEN before ELSE req.url, req.key)
      /\ UNCHANGED operatorVars

\* jarvis-backend setup, with questions or without (then a key may come from the shell):
\* it writes the file whether or not a backend runs.
SetupKey(p, key, questions) ==
  IF questions THEN key
  ELSE Either(key, Either(IF Info[p].keyed THEN shell[Var("key", p)] ELSE None,
                          shell[Generic("key")]))
SetupUrl(p, url, questions) ==
  IF questions /\ p \notin NeedsUrl THEN url ELSE Either(url, Info[p].url)

Setup(p, model, url, key, questions) ==
  LET used == [model |-> Either(model, Info[p].model), url |-> SetupUrl(p, url, questions),
               key |-> SetupKey(p, key, questions)]
  IN  /\ file' = Written(file, p, used.model, used.url, used.key)
      /\ Remember("setup", p, used.model, used.url, None, used.key)
      /\ UNCHANGED <<operatorVars, env, config, live>>

\* The requests about the model, and the set-up.
SettingsStep ==
  \/ Asked /\ \E req \in Requests : Update(req)
  \/ Asked /\ UpdateFails
  \/ /\ Change /\ UNCHANGED up
     /\ \E p \in Offered, model \in Models \cup {None}, url \in Urls \cup {None},
           key \in Keys \cup {None}, questions \in BOOLEAN :
          /\ Few(model, url, key)
          /\ Setup(p, model, url, key, questions)

(***************************************************************************)
(* Properties.                                                             *)
(***************************************************************************)

Again == Resolve(ConfigOf(Loaded), Loaded)   \* what a restart would resolve

\* A restart keeps what was chosen last, by an update or by the wizard: the provider, the
\* model and the base url that was stored.  Each is written under the name from which
\* from_env and resolve read it back, whatever was chosen and stored before.  What the
\* shell exports wins, a JARVIS_MODEL that the file holds wins over the model, and what
\* an update writes to another file is not read.
RestartKeepsChoice ==
  LET p == chosen.provider
      read == {Generic("llm"), Generic("model"), Var("model", p), Var("url", p)} IN
  /\ chosen.by # "nobody" /\ ~(elsewhere /\ chosen.by = "update")
  /\ \A v \in Vars \cap read : shell[v] = None
  => /\ Again.provider = p
     /\ p # "mock" => /\ Again.model = Either(file[Generic("model")], chosen.model)
                      /\ chosen.url # None => Again.url = chosen.url

\* The key given last for a provider with a variable of its own is the one its model
\* answers with, now and after a restart, through changes to other providers, with or
\* without keys, changes that fail and set-ups beside the running process.
GivenKeyIsUsed ==
  ~elsewhere => \A p \in Offered :
    LET key == given[p].key IN
    Info[p].keyed /\ given[p].by # "nobody" /\ shell[Var("key", p)] = None
    => /\ ResolveKey(p, ConfigOf(Loaded), Loaded) = key
       /\ up /\ given[p].by = "update" /\ live.provider = p => live.key = key

(***************************************************************************)
(* What docs and comments say and the code does not do.                    *)
(***************************************************************************)

\* An update is persisted (glossary.md), in the file that JARVIS_ENV_FILE names
\* (env-vars.md): the next start has the provider that was chosen.
UpdatesPersist ==
  chosen.by = "update" /\ shell = Unset => Again.provider = chosen.provider

\* "key_set reflects whether a key is stored" (settings_service.py): a key that is shown
\* as set is there after a restart too.
KeyIsSet(p, c, e) ==
  IF Info[p].keyed THEN e[Var("key", p)] # None
  ELSE p = "custom" /\ (c.key # None \/ e[Generic("key")] # None)
ShownKeysAreStored ==
  up /\ shell = Unset /\ ~elsewhere =>
    \A p \in Offered : KeyIsSet(p, config, env) => KeyIsSet(p, ConfigOf(Loaded), Loaded)

\* The precedence of keys (configuration.md): the provider's own variable, then
\* JARVIS_LLM_API_KEY.
KeyAsDocumented ==
  LET p == config.provider IN
  up /\ p # "mock" =>
    Resolve(config, env).key = Either(IF Info[p].keyed THEN env[Var("key", p)] ELSE None, env[Generic("key")])

\* An update changes the Config and the environment "so the next turn uses it": a base
\* url that was asked for is the one the model is given (settings_service.py).
UrlAsked == chosen.by = "update" /\ chosen.asked # None /\ chosen.provider # "mock" /\ shell = Unset /\ ~elsewhere
NewUrlIsUsed == up /\ UrlAsked => Resolve(config, env).url = chosen.asked

\* A base_url that is absent from an update "keeps current" (settings_service.py): the
\* url that was asked for is still the one of the next start.
AskedUrlStays == UrlAsked => Again.url = chosen.asked
=================================================================================
