------------------------------ MODULE StudioProofs ------------------------------
(***************************************************************************)
(* What is proved of Studio for every choice of the constants: what comes  *)
(* with the backend is not touched, a restart keeps the choice of the      *)
(* model, a key that was given is the one that is used, and the user's     *)
(* skills stay within reach.                                               *)
(***************************************************************************)
EXTENDS Studio, WellFoundedInduction, TLAPS

(***************************************************************************)
(* What comes with the backend.                                            *)
(***************************************************************************)

ShippedFile(name) == disk[<<1, name>>] = File("builtin", "shipped")

\* The files of the shipped skills are as they came, and what has been read as a skill
\* of the user was read from a directory of its own name that is none of theirs.
ShippedInv ==
  /\ disk = [slot \in Slots |-> disk[slot]]
  /\ skills = [name \in SkillNames |-> skills[name]]
  /\ \A name \in Shipped : ShippedFile(name)
  /\ \A name \in SkillNames : skills[name].source = "user" =>
       /\ skills[name].slot[2] = name
       /\ skills[name].slot = <<skills[name].slot[1], name>>
       /\ name \in Shipped => skills[name].slot # <<1, name>>

LEMMA InProduct ==
  ASSUME NEW S, NEW R, NEW a \in S, NEW b \in R
  PROVE  <<a, b>> \in S \X R
  OBVIOUS

LEMMA FirstSlot == \A name \in SkillNames : <<1, name>> \in Slots
<1>1. Categories \in Nat /\ Categories # 0
  BY AuthoringAssumption, Zenon
<1>2. 1 \in 1..Categories
  BY <1>1
<1> QED BY <1>2, InProduct, Zenon DEF Slots

LEMMA FileIsNotFree == File("builtin", "shipped") # Free
<1>1. File("builtin", "shipped").state = "file"
  BY DEF File
<1>2. Free.state = "free"
  BY DEF Free
<1> QED BY <1>1, <1>2

LEMMA ReadOf ==
  ASSUME NEW slot, NEW d
  PROVE  Read(slot, d).slot = slot /\ Read(slot, d).source = d[slot].source
  BY DEF Read

LEMMA LoadedSkills ==
  ASSUME NEW d, \A name \in Shipped : d[<<1, name>>] = File("builtin", "shipped"),
         NEW name \in SkillNames, LoadSkills(d)[name].source = "user"
  PROVE  /\ LoadSkills(d)[name].slot[2] = name
         /\ LoadSkills(d)[name].slot = <<LoadSkills(d)[name].slot[1], name>>
         /\ name \in Shipped => LoadSkills(d)[name].slot # <<1, name>>
<1> DEFINE m == Max(Found(name, d))
<1>1. Found(name, d) # {}
  BY DEF LoadSkills, NoSkill
<1>2. LoadSkills(d)[name] = Read(<<m, name>>, d)
  BY <1>1 DEF LoadSkills
<1> HIDE DEF m
<1>3. LoadSkills(d)[name].slot = <<m, name>>
  BY <1>2, ReadOf, Zenon
<1>4. d[<<m, name>>].source = "user"
  <2>1. Read(<<m, name>>, d).source = d[<<m, name>>].source
    BY ReadOf
  <2> QED BY <1>2, <2>1
<1>5. ASSUME name \in Shipped PROVE <<m, name>> # <<1, name>>
  BY <1>4, <1>5 DEF File
<1> QED BY <1>3, <1>5

LEMMA ShippedInit == Init => ShippedInv
<1> SUFFICES ASSUME Init PROVE ShippedInv
  OBVIOUS
<1>1. ASSUME NEW name \in Shipped PROVE ShippedFile(name)
  <2>1. <<1, name>> \in Slots
    BY AuthoringAssumption, FirstSlot
  <2>2. disk[<<1, name>>] =
          IF <<1, name>>[1] = 1 /\ <<1, name>>[2] \in Shipped THEN File("builtin", "shipped") ELSE Free
    BY <2>1 DEF Init, NotServing, AuthoringInit
  <2> QED BY <2>2, <1>1 DEF ShippedFile
<1>2. skills = [name \in SkillNames |-> NoSkill]
  BY DEF Init, NotServing, AuthoringInit
<1>3. disk = [slot \in Slots |-> disk[slot]]
  BY DEF Init, NotServing, AuthoringInit
<1> QED BY <1>1, <1>2, <1>3 DEF ShippedInv, NoSkill

\* Reading the skills again keeps what is known of them right.
LEMMA ShippedReload ==
  ASSUME disk' = [slot \in Slots |-> disk'[slot]],
         \A name \in Shipped : ShippedFile(name)', skills' = LoadSkills(disk')
  PROVE  ShippedInv'
<1>1. skills' = [name \in SkillNames |-> skills'[name]]
  BY DEF LoadSkills
<1> QED BY <1>1, LoadedSkills DEF ShippedInv, ShippedFile

\* A directory that is not a shipped skill's may change.
LEMMA ShippedChange ==
  ASSUME ShippedInv, NEW slot, NEW content, \A name \in Shipped : slot # <<1, name>>,
         disk' = [disk EXCEPT ![slot] = content]
  PROVE  /\ disk' = [s \in Slots |-> disk'[s]]
         /\ \A name \in Shipped : ShippedFile(name)'
  BY DEF ShippedInv, ShippedFile

\* What a skill was read from stays the same when its body is read.
SameFiles(known) ==
  /\ known = [name \in SkillNames |-> known[name]]
  /\ \A name \in SkillNames : known[name].source = skills[name].source /\ known[name].slot = skills[name].slot

LEMMA ActivatedSkills ==
  ASSUME NEW name \in SkillNames, skills = [n \in SkillNames |-> skills[n]]
  PROVE  /\ SameFiles(skills) /\ SameFiles(Activated(name))
         /\ \A n \in SkillNames \ {name} : Activated(name)[n] = skills[n]
         /\ Activated(name)[name].activated
         /\ ~skills[name].activated => Activated(name)[name].body = disk[skills[name].slot].body
         /\ skills[name].activated => Activated(name) = skills
<1>1. SameFiles(skills)
  BY DEF SameFiles
<1>2. CASE skills[name].activated
  BY <1>1, <1>2 DEF Activated
<1>3. CASE ~skills[name].activated
  BY <1>1, <1>3 DEF Activated, SameFiles
<1> QED
  BY <1>2, <1>3

\* No request and no end of the process touches what is shipped.
LEMMA ShippedNext == ShippedInv /\ [Next]_vars => ShippedInv'
<1> SUFFICES ASSUME ShippedInv, [Next]_vars PROVE ShippedInv'
  OBVIOUS
<1>1. ASSUME UNCHANGED disk, UNCHANGED skills PROVE ShippedInv'
  BY <1>1 DEF ShippedInv, ShippedFile
<1>2. ASSUME NEW slot, NEW content, \A name \in Shipped : slot # <<1, name>>,
             disk' = [disk EXCEPT ![slot] = content],
             Reload \/ \E known : SameFiles(known) /\ NotReloaded(known)
      PROVE  ShippedInv'
  <2>1. CASE Reload
    BY <1>2, <2>1, ShippedChange, ShippedReload DEF Reload
  <2>2. ASSUME NEW known, SameFiles(known), NotReloaded(known) PROVE ShippedInv'
    BY <1>2, <2>2, ShippedChange DEF NotReloaded, SameFiles, ShippedInv, ShippedFile
  <2> QED BY <1>2, <2>1, <2>2
<1>3. CASE Start
  BY <1>3, ShippedReload DEF Start, Serve, AuthoringStart, ShippedInv, ShippedFile
<1>4. CASE Stop
  <2>1. /\ disk' = [s \in Slots |-> disk'[s]]
        /\ \A name \in Shipped : ShippedFile(name)'
    <3>1. CASE UNCHANGED disk
      BY <3>1 DEF ShippedInv, ShippedFile
    <3>2. CASE \E slot \in Slots : disk[slot].source = "user" /\ disk' = [disk EXCEPT ![slot] = Torn]
      <4>1. PICK slot \in Slots : disk[slot].source = "user" /\ disk' = [disk EXCEPT ![slot] = Torn]
        BY <3>2
      <4>2. \A name \in Shipped : slot # <<1, name>>
        BY <4>1 DEF ShippedInv, ShippedFile, File
      <4> QED BY <4>1, <4>2, ShippedChange
    <3> QED BY <1>4, <3>1, <3>2 DEF Stop, Exit, AuthoringStop
  <2>2. skills' = [name \in SkillNames |-> NoSkill]
    BY <1>4 DEF Stop, Exit, AuthoringStop
  <2> QED BY <2>1, <2>2 DEF ShippedInv, ShippedFile, NoSkill
<1>5. CASE AuthoringStep
  <2>1. ASSUME NEW slot \in Slots, NEW body, CreateSkill(slot, body) PROVE ShippedInv'
    <3>1. \A name \in Shipped : slot # <<1, name>>
      <4>1. disk[slot] = Free
        BY <2>1 DEF CreateSkill, IsNew
      <4>2. \A name \in Shipped : disk[<<1, name>>] = File("builtin", "shipped")
        BY DEF ShippedInv, ShippedFile
      <4> QED BY <4>1, <4>2, FileIsNotFree
    <3>2. PICK content : disk' = [disk EXCEPT ![slot] = content] /\ (Reload \/ NotReloaded(skills))
      BY <2>1 DEF CreateSkill
    <3>3. SameFiles(skills)
      BY DEF SameFiles, ShippedInv
    <3> QED BY <3>1, <3>2, <3>3, <1>2
  <2>2. ASSUME NEW name \in SkillNames, Users(name)
        PROVE  \A other \in Shipped : skills[name].slot # <<1, other>>
    <3>1. /\ skills[name].slot = <<skills[name].slot[1], name>>
          /\ name \in Shipped => skills[name].slot # <<1, name>>
      BY <2>2 DEF Users, ShippedInv
    <3>2. \A a, other : <<a, name>> = <<1, other>> => a = 1 /\ other = name
      OBVIOUS
    <3> QED BY <3>1, <3>2
  <2>3. ASSUME NEW name \in SkillNames, NEW body, UpdateSkill(name, body) PROVE ShippedInv'
    <3>1. PICK content : /\ disk' = [disk EXCEPT ![skills[name].slot] = content]
                         /\ Reload \/ NotReloaded(Activated(name)) \/ NotReloaded(skills)
      BY <2>3 DEF UpdateSkill
    <3>2. SameFiles(skills) /\ SameFiles(Activated(name))
      BY ActivatedSkills DEF ShippedInv
    <3> QED BY <2>3, <3>1, <3>2, <2>2, <1>2 DEF UpdateSkill
  <2>4. ASSUME NEW name \in SkillNames, DeleteSkill(name) PROVE ShippedInv'
    <3>1. PICK content : disk' = [disk EXCEPT ![skills[name].slot] = content] /\ Reload
      BY <2>4 DEF DeleteSkill
    <3> QED BY <2>4, <3>1, <2>2, <1>2 DEF DeleteSkill, MayDelete
  <2>5. ASSUME NEW agents, Rostered(agents) PROVE ShippedInv'
    BY <2>5, <1>1 DEF Rostered, skillVars
  <2> QED BY <1>5, <2>1, <2>3, <2>4, <2>5
          DEF AuthoringStep, CreateAgent, UpdateAgent, DeleteAgent
<1>6. CASE Activation
  <2>1. PICK name \in SkillNames : ActivateSkill(name)
    BY <1>6 DEF Activation
  <2>2. disk' = disk
    BY <2>1 DEF ActivateSkill
  <2>3. SameFiles(skills')
    BY <2>1, ActivatedSkills DEF ActivateSkill, ShippedInv
  <2> QED BY <2>2, <2>3 DEF SameFiles, ShippedInv, ShippedFile
<1>7. CASE UNCHANGED authoringVars
  BY <1>7, <1>1 DEF authoringVars, skillVars
<1> QED BY <1>3, <1>4, <1>5, <1>6, <1>7 DEF Next, vars

\* The routes follow from the roster.
RosterInv == routes = Routing(roster)

LEMMA RosterIsRouted == Spec => []RosterInv
<1>1. Init => RosterInv
  BY DEF Init, NotServing, AuthoringInit, RosterInv
<1>2. RosterInv /\ [Next]_vars => RosterInv'
  <2> SUFFICES ASSUME RosterInv, [Next]_vars PROVE RosterInv'
    OBVIOUS
  <2> USE DEF RosterInv
  <2>1. CASE Start
    BY <2>1 DEF Start, AuthoringStart, Routing, Claimants
  <2>2. CASE Stop
    BY <2>2 DEF Stop, AuthoringStop, Routing, Claimants
  <2>3. CASE UNCHANGED agentVars
    BY <2>3 DEF agentVars, Routing, Claimants
  <2>4. ASSUME NEW agents, Rostered(agents) PROVE RosterInv'
    BY <2>4 DEF Rostered, Routing, Claimants
  <2>5. CASE AuthoringStep
    BY <2>3, <2>4, <2>5 DEF AuthoringStep, CreateSkill, UpdateSkill, DeleteSkill,
                            CreateAgent, UpdateAgent, DeleteAgent
  <2>6. CASE Activation
    BY <2>6, <2>3 DEF Activation, ActivateSkill
  <2>7. CASE UNCHANGED authoringVars
    BY <2>7, <2>3 DEF authoringVars
  <2> QED BY <2>1, <2>2, <2>5, <2>6, <2>7 DEF Next, vars
<1> QED BY <1>1, <1>2, PTL DEF Spec

\* The shipped skills are never written, torn or deleted, and a tool of a built-in agent
\* is never sent to an agent of the user's.
THEOREM BuiltinsAreKept == Spec => []BuiltinsStand
<1>1. ShippedInv /\ RosterInv => BuiltinsStand
  <2> SUFFICES ASSUME ShippedInv, RosterInv PROVE BuiltinsStand
    OBVIOUS
  <2>1. ASSUME NEW tool \in Tools \cap Owned PROVE RoleForTool(routes, tool) \in Builtin
    <3>1. Claimants(roster, tool) = {}
      BY <2>1 DEF Claimants
    <3>2. tool \notin DOMAIN routes
      BY <3>1 DEF RosterInv, Routing
    <3>3. \E role \in Builtin : tool \in Roster[role]
      BY <2>1 DEF Owned
    <3>4. BuiltinRole(tool) \in Builtin
      BY <2>1, <3>3 DEF BuiltinRole
    <3> QED BY <3>2, <3>4 DEF RoleForTool
  <2> QED BY <2>1 DEF ShippedInv, ShippedFile, BuiltinsStand
<1> QED BY ShippedInit, ShippedNext, RosterIsRouted, <1>1, PTL DEF Spec

(***************************************************************************)
(* The choice a restart keeps.                                             *)
(***************************************************************************)

\* The variables of an environment are those of the model.
Total(f) == f = [v \in Vars |-> f[v]]

LEMMA WrittenTotal ==
  ASSUME NEW f, Total(f), NEW p, NEW model, NEW url, NEW key
  PROVE  Total(Written(f, p, model, url, key))
  BY DEF Written, Total

LEMMA OfferedNamed == \A p \in Choosable : p # ""
  BY SettingsAssumption DEF Providers, Info, Choosable

\* The settings steps leave the process up, and the others leave the settings alone.
LEMMA SettingsSteps ==
  ASSUME [Next]_vars
  PROVE  \/ Start
         \/ Stop
         \/ UNCHANGED up /\ \E req \in Requests : Update(req)
         \/ UNCHANGED up /\ \E p \in Offered : \E model, url, key, questions :
                              Setup(p, model, url, key, questions)
         \/ UNCHANGED up /\ UNCHANGED settingsVars
<1>1. CASE SettingsStep
  BY <1>1 DEF SettingsStep, Asked, UpdateFails
<1>2. CASE AuthoringStep /\ UNCHANGED settingsVars
  BY <1>2 DEF AuthoringStep, Asked
<1>3. CASE Activation /\ UNCHANGED settingsVars
  BY <1>3 DEF Activation, processVars
<1>4. CASE UNCHANGED vars
  BY <1>4 DEF vars, processVars
<1> QED
  BY <1>1, <1>2, <1>3, <1>4 DEF Next

LEMMA RegistryNamesModels ==
  /\ Choosable \subseteq Providers
  /\ \A p \in Providers : Info[p].model # None
<1>1. Choosable \subseteq Providers
  BY SettingsAssumption DEF Choosable, Providers, Info
<1>2. \A p \in Providers : Info[p].model # None
  <2>1. Providers = {"mock", "openai", "anthropic", "gemini", "vertex", "azure",
                    "bedrock", "mistral", "cohere", "groq", "together", "openrouter",
                    "deepseek", "xai", "perplexity", "fireworks", "ollama",
                    "lmstudio", "vllm", "custom"}
    BY DEF Providers, Info
  <2>2. /\ Info.mock.model # None
        /\ Info.openai.model # None
        /\ Info.anthropic.model # None
        /\ Info.gemini.model # None
        /\ Info.vertex.model # None
    BY DEF Info, Provider, Compatible, Local, None
  <2>3. /\ Info.azure.model # None
        /\ Info.bedrock.model # None
        /\ Info.mistral.model # None
        /\ Info.cohere.model # None
        /\ Info.groq.model # None
    BY DEF Info, Provider, Compatible, Local, None
  <2>4. /\ Info.together.model # None
        /\ Info.openrouter.model # None
        /\ Info.deepseek.model # None
        /\ Info.xai.model # None
        /\ Info.perplexity.model # None
    BY DEF Info, Provider, Compatible, Local, None
  <2>5. /\ Info.fireworks.model # None
        /\ Info.ollama.model # None
        /\ Info.lmstudio.model # None
        /\ Info.vllm.model # None
        /\ Info.custom.model # None
    BY DEF Info, Provider, Compatible, Local, None
  <2> QED
    BY <2>1, <2>2, <2>3, <2>4, <2>5
<1> QED
  BY <1>1, <1>2

LEMMA EitherIsSet == \A a, b : b # None => Either(a, b) # None
BY DEF Either

\* What is resolved has a provider of the registry and names a model.
LEMMA ResolvedNames ==
  ASSUME NEW c, NEW e, c.provider \in Choosable
  PROVE  /\ Resolve(c, e).provider = c.provider
         /\ Resolve(c, e).model # None
         /\ c.provider # "mock" => Resolve(c, e).model = ResolveModel(c.provider, c, e)
         /\ c.provider = "mock" => Resolve(c, e).model = "mock"
<1>1. c.provider \in Providers
  BY RegistryNamesModels
<1>2. CASE c.provider = "mock"
  BY <1>2 DEF Resolve, Mock, None
<1>3. CASE c.provider # "mock"
  <2>1. /\ Resolve(c, e).provider = c.provider
        /\ Resolve(c, e).model = ResolveModel(c.provider, c, e)
    BY <1>1, <1>3 DEF Resolve
  <2>2. ResolveModel(c.provider, c, e) # None
    BY <1>1, RegistryNamesModels, EitherIsSet DEF ResolveModel
  <2> QED
    BY <1>3, <2>1, <2>2
<1> QED
  BY <1>2, <1>3

LEMMA ModelVars ==
  /\ Generic("llm") \in Vars /\ Generic("model") \in Vars
  /\ \A p \in Choosable \ {"mock"} : Var("model", p) \in Vars
  /\ \A p \in Choosable : p # None
<1>1. \A p \in Choosable : p # None
  BY OfferedNamed DEF None
<1> QED
  BY <1>1 DEF Vars, Generic, Var, Choosable

\* Where a choice is written, and where the generic variable of the models stays unset.
LEMMA WrittenChoice ==
  ASSUME NEW f, Total(f), NEW p \in Choosable, NEW model, NEW url, NEW key
  PROVE  /\ Written(f, p, model, url, key)[Generic("llm")] = p
         /\ Written(f, p, model, url, key)[Generic("model")] = f[Generic("model")]
         /\ p # "mock" =>
              Written(f, p, model, url, key)[Var("model", p)] = Either(model, Info[p].model)
BY ModelVars DEF Written, Total, KeyVar, Var, Generic, None

LEMMA UrlVars == \A p \in Choosable \ {"mock"} : Var("url", p) \in Vars /\ Var("url", p) # Generic("llm")
BY DEF Vars, Var, Generic, Choosable

LEMMA WrittenUrl ==
  ASSUME NEW f, NEW p \in Choosable \ {"mock"}, NEW model, NEW url, NEW key, url # None
  PROVE  Written(f, p, model, url, key)[Var("url", p)] = url
BY UrlVars DEF Written, KeyVar, Var, Generic

Shaped(c) ==
  c = [provider |-> c.provider, model |-> c.model, url |-> c.url, key |-> c.key,
       litellm |-> c.litellm, openai |-> c.openai, anthropic |-> c.anthropic]

\* What was chosen last stands in the file, if it was written there, under the names it
\* will be read from.
ChoiceInv ==
  /\ Total(shell) /\ Total(file)
  /\ Shaped(config) /\ config.provider \in Choosable
  /\ shell[Generic("llm")] \in Choosable \cup {None}
  /\ file[Generic("llm")] \in Choosable \cup {None}
  /\ chosen.by \in {"nobody", "update", "setup"}
  /\ chosen.by # "nobody" /\ ~(elsewhere /\ chosen.by = "update") =>
       /\ chosen.provider \in Choosable /\ file[Generic("llm")] = chosen.provider
       /\ chosen.model # None
       /\ chosen.provider # "mock" =>
            /\ file[Var("model", chosen.provider)] = chosen.model
            /\ chosen.url # None => file[Var("url", chosen.provider)] = chosen.url

LEMMA ConfigOfShaped ==
  ASSUME NEW e
  PROVE  /\ Shaped(ConfigOf(e))
         /\ ConfigOf(e).provider = Either(e[Generic("llm")], "mock")
         /\ ConfigOf(e).model = e[Generic("model")]
BY DEF ConfigOf, Shaped

LEMMA NothingSet ==
  /\ Total(Unset) /\ \A v \in Vars : Unset[v] = None
  /\ ConfigOf(Unset).provider = "mock"
<1>1. Total(Unset) /\ \A v \in Vars : Unset[v] = None
  BY DEF Unset, Total
<1> QED
  BY <1>1, ModelVars, ConfigOfShaped DEF Either

LEMMA ChoiceInit == Init => ChoiceInv
<1> SUFFICES ASSUME Init PROVE ChoiceInv
  OBVIOUS
<1> USE DEF Init, SettingsInit
<1>0. PICK o \in Operators :
        /\ shell = [v \in Vars |-> IF v \in o.exports THEN ShellValue(v) ELSE None]
        /\ file = [v \in Vars |-> IF v \in Noted(o.notes) THEN "noted" ELSE None]
  OBVIOUS
<1>1. Total(shell) /\ shell[Generic("llm")] \in {None, "openai"}
  <2>1. ShellValue(Generic("llm")) = "openai"
    BY DEF ShellValue, Generic
  <2> QED
    BY <1>0, <2>1, ModelVars DEF Total
<1>2. Total(file) /\ file[Generic("llm")] = None
  <2>1. o.notes \subseteq {"model", "url", "key"}
    BY SettingsAssumption
  <2>2. Generic("llm") \notin Noted(o.notes)
    BY <2>1 DEF Noted, Generic
  <2> QED
    BY <1>0, <2>2, ModelVars DEF Total
<1>3. config = ConfigOf(Unset) /\ chosen.by = "nobody"
  OBVIOUS
<1> QED
  BY <1>1, <1>2, <1>3, NothingSet, ModelVars, ConfigOfShaped DEF ChoiceInv, Choosable

LEMMA ChoiceStart ==
  ASSUME ChoiceInv, SettingsStart
  PROVE  ChoiceInv'
<1>1. /\ config' = ConfigOf(Loaded) /\ UNCHANGED <<shell, elsewhere, file, chosen>>
  BY DEF SettingsStart, operatorVars
<1>2. Loaded[Generic("llm")] \in Choosable \cup {None}
  BY ModelVars DEF Loaded, Either, ChoiceInv
<1>3. Shaped(config') /\ config'.provider \in Choosable
  BY <1>1, <1>2, ConfigOfShaped DEF Either, Choosable
<1> QED
  BY <1>1, <1>3 DEF ChoiceInv, Total

LEMMA ChoiceStop ==
  ASSUME ChoiceInv, SettingsStop
  PROVE  ChoiceInv'
<1>1. config' = ConfigOf(Unset) /\ UNCHANGED <<shell, elsewhere, file, chosen>>
  BY DEF SettingsStop, operatorVars
<1>2. Shaped(config') /\ config'.provider \in Choosable
  BY <1>1, NothingSet, ConfigOfShaped DEF Choosable
<1> QED
  BY <1>1, <1>2 DEF ChoiceInv, Total

LEMMA ChoiceUpdate ==
  ASSUME ChoiceInv, NEW req \in Requests, Update(req)
  PROVE  ChoiceInv'
<1> DEFINE current == Resolve(config, env)
           p       == Provided(req, current)
           model   == ModelFor(req, p, current)
           url     == UrlFor(req, p, current)
<1>1. /\ file' = IF elsewhere THEN file ELSE Written(file, p, model, url, req.key)
      /\ config' = Configured(p, model, url, req.key)
      /\ chosen'.by = "update" /\ chosen'.provider = p /\ chosen'.url = url
      /\ chosen'.model = IF p = "mock" THEN "mock" ELSE model
      /\ UNCHANGED <<shell, elsewhere>>
  BY DEF Update, Remember, operatorVars
<1>2. config.provider \in Choosable /\ Shaped(config) /\ Total(file)
  BY DEF ChoiceInv
<1>3. current.provider \in Choosable /\ current.model # None
  BY <1>2, ResolvedNames
<1>4. p \in Choosable
  BY <1>3 DEF Provided, Either, Requests, Choosable, None
<1>5. model # None
  BY <1>3, <1>4, RegistryNamesModels, EitherIsSet DEF ModelFor, Unless
<1> HIDE DEF current, p, model, url
<1>6. Shaped(config') /\ config'.provider = p
  BY <1>1, <1>2 DEF Shaped, Configured
<1>7. ASSUME ~elsewhere
      PROVE  /\ file'[Generic("llm")] = p
             /\ p # "mock" => /\ file'[Var("model", p)] = model
                              /\ url # None => file'[Var("url", p)] = url
  BY <1>1, <1>2, <1>4, <1>5, <1>7, WrittenChoice, WrittenUrl DEF Either
<1>8. Total(file') /\ file'[Generic("llm")] \in Choosable \cup {None}
  BY <1>1, <1>2, <1>4, <1>7, WrittenTotal DEF ChoiceInv
<1>9. chosen'.model # None
  BY <1>1, <1>5 DEF None
<1> QED
  BY <1>1, <1>4, <1>6, <1>7, <1>8, <1>9 DEF ChoiceInv, Total

LEMMA ChoiceSetup ==
  ASSUME ChoiceInv, NEW p \in Offered, NEW model, NEW url, NEW key, NEW questions,
         Setup(p, model, url, key, questions)
  PROVE  ChoiceInv'
<1> DEFINE named == Either(model, Info[p].model)
           where == SetupUrl(p, url, questions)
<1>1. PICK k : file' = Written(file, p, named, where, k)
  BY DEF Setup
<1>2. /\ UNCHANGED <<shell, elsewhere, config>> /\ chosen'.by = "setup"
      /\ chosen'.provider = p /\ chosen'.model = IF p = "mock" THEN "mock" ELSE named
      /\ chosen'.url = where
  BY DEF Setup, Remember, operatorVars
<1>3. p \in Choosable /\ Total(file)
  BY DEF Choosable, ChoiceInv
<1>4. named # None
  BY <1>3, RegistryNamesModels, EitherIsSet
<1> HIDE DEF named, where
<1>5. /\ file'[Generic("llm")] = p
      /\ p # "mock" => /\ file'[Var("model", p)] = named
                       /\ where # None => file'[Var("url", p)] = where
  BY <1>1, <1>3, <1>4, WrittenChoice, WrittenUrl DEF Either
<1>6. Total(file')
  BY <1>1, <1>3, WrittenTotal
<1> QED
  BY <1>2, <1>3, <1>4, <1>5, <1>6 DEF ChoiceInv, Total, None

LEMMA ChoiceStep == ChoiceInv /\ [Next]_vars => ChoiceInv'
<1> SUFFICES ASSUME ChoiceInv, [Next]_vars PROVE ChoiceInv'
  OBVIOUS
<1>1. UNCHANGED settingsVars => ChoiceInv'
  BY DEF settingsVars, operatorVars, ChoiceInv, Total, Shaped
<1> QED
  BY <1>1, SettingsSteps, ChoiceStart, ChoiceStop, ChoiceUpdate, ChoiceSetup DEF Start, Serve, Stop, Exit

LEMMA ResolvedUrl ==
  ASSUME NEW c, NEW e, c.provider \in Choosable \ {"mock"}
  PROVE  Resolve(c, e).url = ResolveUrl(c.provider, c, e)
<1>1. c.provider \in Providers
  BY RegistryNamesModels
<1> QED
  BY <1>1 DEF Resolve

\* The provider, the model and the base url chosen last, by an update or by the wizard, for
\* any provider of the registry and any file to start with, are those a restart resolves,
\* unless the shell exports others, the file holds a JARVIS_MODEL, which goes before the
\* model, or an update was written to another file.
THEOREM RestartsKeepTheChoice == Spec => []RestartKeepsChoice
<1>1. ChoiceInv => RestartKeepsChoice
  <2> DEFINE p == chosen.provider
             c == ConfigOf(Loaded)
             model == Either(file[Generic("model")], chosen.model)
             read == {Generic("llm"), Generic("model"), Var("model", p), Var("url", p)}
  <2> SUFFICES ASSUME ChoiceInv, chosen.by # "nobody", ~(elsewhere /\ chosen.by = "update"),
                      \A v \in Vars \cap read : shell[v] = None
               PROVE  /\ Resolve(c, Loaded).provider = p
                      /\ p # "mock" => /\ Resolve(c, Loaded).model = model
                                       /\ chosen.url # None => Resolve(c, Loaded).url = chosen.url
    BY DEF RestartKeepsChoice, Again
  <2>1. /\ p \in Choosable /\ file[Generic("llm")] = p /\ chosen.model # None
        /\ p # "mock" => /\ file[Var("model", p)] = chosen.model
                         /\ chosen.url # None => file[Var("url", p)] = chosen.url
    BY DEF ChoiceInv
  <2>2. /\ shell[Generic("llm")] = None /\ shell[Generic("model")] = None
        /\ p # "mock" => shell[Var("model", p)] = None /\ shell[Var("url", p)] = None
    BY <2>1, ModelVars, UrlVars
  <2>3. /\ Loaded[Generic("llm")] = p /\ Loaded[Generic("model")] = file[Generic("model")]
        /\ p # "mock" => /\ Loaded[Var("model", p)] = chosen.model
                         /\ chosen.url # None => Loaded[Var("url", p)] = chosen.url
    BY <2>1, <2>2, ModelVars, UrlVars DEF Loaded, Either
  <2>4. c.provider = p /\ c.model = file[Generic("model")]
    BY <2>1, <2>3, ModelVars, ConfigOfShaped DEF Either
  <2>5. Resolve(c, Loaded).provider = p
    BY <2>1, <2>4, ResolvedNames
  <2>6. ASSUME p # "mock"
        PROVE  Resolve(c, Loaded).model = model
    <3>1. (p = "openai" => c.openai = chosen.model) /\ (p = "anthropic" => c.anthropic = chosen.model)
      BY <2>1, <2>3, <2>6 DEF ConfigOf, Either
    <3>2. ResolveModel(p, c, Loaded) = model
      BY <2>1, <2>3, <2>4, <2>6, <3>1 DEF ResolveModel, Either
    <3> QED
      BY <2>1, <2>4, <2>6, <3>2, ResolvedNames
  <2>7. ASSUME p # "mock", chosen.url # None
        PROVE  Resolve(c, Loaded).url = chosen.url
    BY <2>1, <2>3, <2>4, <2>7, ResolvedUrl DEF ResolveUrl, Either
  <2> QED
    BY <2>5, <2>6, <2>7
<1> QED BY ChoiceInit, ChoiceStep, <1>1, PTL DEF Spec

(***************************************************************************)
(* The key that was given.                                                 *)
(***************************************************************************)

Keyed(p) == p \in Offered /\ Info[p].keyed
KeyOf(p) == Var("key", p)

LEMMA KeyIsVar ==
  /\ \A p \in Offered : KeyOf(p) \in Vars /\ p # "" /\ p \in Choosable
  /\ ~Info["mock"].keyed
<1>1. ~Info["mock"].keyed
  BY DEF Info, Provider
<1>2. \A p \in Offered : p # "" /\ p \in Choosable
  BY OfferedNamed DEF Choosable
<1> QED
  BY <1>1, <1>2 DEF Vars, KeyOf, Var, Generic

\* A choice that is written keeps the keys of the other providers and stores the one given.
LEMMA WrittenKey ==
  ASSUME NEW f, Total(f), NEW p \in Choosable, NEW model, NEW url, NEW key, NEW q, Keyed(q)
  PROVE  Written(f, p, model, url, key)[KeyOf(q)] =
           IF p = q /\ key # None THEN key ELSE f[KeyOf(q)]
<1>1. q # "" /\ KeyOf(q) \in Vars /\ (p = q => p # "mock")
  BY KeyIsVar DEF Keyed
<1>2. CASE p = "mock"
  BY <1>1, <1>2 DEF Written, Total, KeyOf, Var, Generic
<1>3. CASE p # "mock"
  <2>1. KeyVar(p) = KeyOf(q) <=> p = q
    BY <1>1 DEF KeyVar, KeyOf, Keyed, Var, Generic
  <2>2. /\ KeyOf(q) # Generic("llm") /\ KeyOf(q) # Var("model", p) /\ KeyOf(q) # Var("url", p)
        /\ KeyOf(q) # Generic("litellm")
    BY DEF KeyOf, Var, Generic
  <2> QED
    BY <1>1, <1>3, <2>1, <2>2 DEF Written, Total
<1> QED
  BY <1>2, <1>3

LEMMA KeyGivenKey ==
  ASSUME Total(env), NEW p \in Choosable, NEW key, NEW q, Keyed(q)
  PROVE  /\ KeyGiven(env, p, key)[KeyOf(q)] = IF p = q /\ key # None THEN key ELSE env[KeyOf(q)]
         /\ Total(KeyGiven(env, p, key))
<1>1. q # "" /\ KeyOf(q) \in Vars
  BY KeyIsVar DEF Keyed
<1>2. KeyVar(p) = KeyOf(q) <=> p = q
  BY <1>1 DEF KeyVar, KeyOf, Keyed, Var, Generic
<1> QED
  BY <1>1, <1>2 DEF KeyGiven, Total

\* The key given last for a provider is in the file, and in the environment of the process
\* that was given it; and the model is the one create_llm builds from the environment and
\* the Config of this moment.
GivenInv ==
  /\ Total(env) /\ given = [p \in Choosable |-> given[p]]
  /\ \A p \in Choosable : given[p].by # "nobody" => given[p].key # None
  /\ ~elsewhere => \A p \in Offered : Keyed(p) /\ given[p].by # "nobody" =>
       /\ file[KeyOf(p)] = given[p].key
       /\ up /\ given[p].by = "update" /\ shell[KeyOf(p)] = None => env[KeyOf(p)] = given[p].key
  /\ up => live = CreateLLM(config, env, installed)

LEMMA GivenInit == Init => GivenInv
<1> SUFFICES ASSUME Init PROVE GivenInv
  OBVIOUS
<1>1. env = Unset /\ ~up /\ given = [p \in Choosable |-> [by |-> "nobody", key |-> None]]
  BY DEF Init, NotServing, SettingsInit
<1>2. \A p \in Choosable : given[p].by = "nobody"
  BY <1>1
<1> QED
  BY <1>1, <1>2, NothingSet, KeyIsVar DEF GivenInv

\* What a choice leaves of the keys given.
LEMMA Remembered ==
  ASSUME GivenInv, NEW by, by # "nobody", NEW p \in Choosable, NEW model, NEW url, NEW asked,
         NEW key, Remember(by, p, model, url, asked, key)
  PROVE  /\ given' = [q \in Choosable |-> given'[q]]
         /\ \A q \in Choosable :
              given'[q] = IF q = p /\ key # None THEN [by |-> by, key |-> key] ELSE given[q]
         /\ \A q \in Choosable : given'[q].by # "nobody" => given'[q].key # None
<1>1. /\ given' = [q \in Choosable |-> given'[q]]
      /\ \A q \in Choosable :
           given'[q] = IF q = p /\ key # None THEN [by |-> by, key |-> key] ELSE given[q]
  BY DEF Remember, GivenInv
<1> QED
  BY <1>1 DEF GivenInv

LEMMA GivenStart ==
  ASSUME ChoiceInv, GivenInv, SettingsStart
  PROVE  GivenInv'
<1>1. /\ env' = Loaded /\ live' = CreateLLM(config', env', installed')
      /\ UNCHANGED <<shell, elsewhere, file, given>>
  BY DEF SettingsStart, operatorVars
<1>2. Total(env')
  BY <1>1 DEF Total, Loaded
<1>3. \A p \in Offered : Keyed(p) /\ shell[KeyOf(p)] = None => env'[KeyOf(p)] = file[KeyOf(p)]
  BY <1>1, KeyIsVar DEF Loaded, Either
<1> QED
  BY <1>1, <1>2, <1>3 DEF GivenInv

LEMMA GivenUpdate ==
  ASSUME ChoiceInv, GivenInv, NEW req \in Requests, Update(req), UNCHANGED up
  PROVE  GivenInv'
<1> DEFINE current == Resolve(config, env)
           p       == Provided(req, current)
           model   == ModelFor(req, p, current)
           url     == UrlFor(req, p, current)
<1>1. /\ file' = IF elsewhere THEN file ELSE Written(file, p, model, url, req.key)
      /\ env' = KeyGiven(env, p, req.key)
      /\ live' = CreateLLM(config', env', installed')
      /\ \E asked : Remember("update", p, model, url, asked, req.key)
      /\ UNCHANGED <<shell, elsewhere>>
  BY DEF Update, SwapLLM, operatorVars
<1>2. p \in Choosable
  <2>1. current.provider \in Choosable
    BY ResolvedNames DEF ChoiceInv
  <2> QED
    BY <2>1 DEF Provided, Either, Requests, Choosable, None
<1> HIDE DEF current, p, model, url
<1>3. /\ given' = [q \in Choosable |-> given'[q]]
      /\ \A q \in Choosable :
           given'[q] = IF q = p /\ req.key # None THEN [by |-> "update", key |-> req.key] ELSE given[q]
      /\ \A q \in Choosable : given'[q].by # "nobody" => given'[q].key # None
  BY <1>1, <1>2, Remembered
<1>4. Total(env')
  BY <1>1 DEF KeyGiven, Total, GivenInv
<1>5. Total(file) /\ Total(env)
  BY DEF ChoiceInv, GivenInv
<1>6. ASSUME ~elsewhere, NEW q \in Offered, Keyed(q), given'[q].by # "nobody"
      PROVE  /\ file'[KeyOf(q)] = given'[q].key
             /\ up' /\ given'[q].by = "update" /\ shell[KeyOf(q)] = None => env'[KeyOf(q)] = given'[q].key
  <2>2. /\ file'[KeyOf(q)] = IF p = q /\ req.key # None THEN req.key ELSE file[KeyOf(q)]
        /\ env'[KeyOf(q)] = IF p = q /\ req.key # None THEN req.key ELSE env[KeyOf(q)]
    BY <1>1, <1>2, <1>5, <1>6, WrittenKey, KeyGivenKey
  <2>3. q \in Choosable
    BY KeyIsVar
  <2>4. CASE p = q /\ req.key # None
    BY <1>3, <2>2, <2>3, <2>4
  <2>5. CASE ~(p = q /\ req.key # None)
    BY <1>3, <1>6, <2>2, <2>3, <2>5 DEF GivenInv
  <2> QED
    BY <2>4, <2>5
<1> QED
  BY <1>1, <1>3, <1>4, <1>6 DEF GivenInv

LEMMA GivenSetup ==
  ASSUME ChoiceInv, GivenInv, NEW p \in Offered, NEW model, NEW url, NEW key, NEW questions,
         Setup(p, model, url, key, questions), UNCHANGED up
  PROVE  GivenInv'
<1>1. PICK m, u, k : /\ file' = Written(file, p, m, u, k)
                     /\ Remember("setup", p, m, u, None, k)
  BY DEF Setup
<1>2. UNCHANGED <<shell, installed, elsewhere, env, config, live>> /\ p \in Choosable
  BY KeyIsVar DEF Setup, operatorVars
<1>3. /\ given' = [q \in Choosable |-> given'[q]]
      /\ \A q \in Choosable :
           given'[q] = IF q = p /\ k # None THEN [by |-> "setup", key |-> k] ELSE given[q]
      /\ \A q \in Choosable : given'[q].by # "nobody" => given'[q].key # None
  BY <1>1, <1>2, Remembered
<1>4. \A q \in Offered : Keyed(q) =>
        file'[KeyOf(q)] = IF p = q /\ k # None THEN k ELSE file[KeyOf(q)]
  BY <1>1, <1>2, WrittenKey DEF ChoiceInv
<1>5. ASSUME ~elsewhere, NEW q \in Offered, Keyed(q), given'[q].by # "nobody"
      PROVE  /\ file'[KeyOf(q)] = given'[q].key
             /\ up /\ given'[q].by = "update" /\ shell[KeyOf(q)] = None => env[KeyOf(q)] = given'[q].key
  <2>1. q \in Choosable /\ file'[KeyOf(q)] = IF p = q /\ k # None THEN k ELSE file[KeyOf(q)]
    BY <1>4, <1>5, KeyIsVar
  <2>2. CASE p = q /\ k # None
    BY <1>3, <2>1, <2>2
  <2>3. CASE ~(p = q /\ k # None)
    BY <1>3, <1>5, <2>1, <2>3 DEF GivenInv
  <2> QED
    BY <2>2, <2>3
<1>6. Total(env') /\ (up => live = CreateLLM(config, env, installed))
  BY <1>2 DEF GivenInv, Total
<1>7. up' = up
  OBVIOUS
<1> QED
  BY <1>2, <1>3, <1>5, <1>6, <1>7 DEF GivenInv

LEMMA GivenStep == ChoiceInv /\ GivenInv /\ [Next]_vars => GivenInv'
<1> SUFFICES ASSUME ChoiceInv, GivenInv, [Next]_vars PROVE GivenInv'
  OBVIOUS
<1>1. UNCHANGED settingsVars /\ UNCHANGED up => GivenInv'
  BY DEF settingsVars, operatorVars, GivenInv, Total
<1>2. CASE Stop
  <2>1. env' = Unset /\ up' = FALSE /\ UNCHANGED <<shell, elsewhere, file, given>>
    BY <1>2 DEF Stop, Exit, SettingsStop, operatorVars
  <2> QED
    BY <2>1, NothingSet DEF GivenInv
<1> QED
  BY <1>1, <1>2, SettingsSteps, GivenStart, GivenUpdate, GivenSetup DEF Start

\* The key a model answers with is the one its provider is resolved to.
LEMMA LiveKey ==
  ASSUME NEW c, NEW e, NEW packages, NEW p, Keyed(p), CreateLLM(c, e, packages).provider = p
  PROVE  CreateLLM(c, e, packages).key = ResolveKey(p, c, e)
<1> DEFINE res == Resolve(c, e)
<1>1. p # "mock" /\ Mock.provider = "mock"
  BY KeyIsVar DEF Keyed, Mock
<1>2. /\ res # Mock
      /\ \E adapter : CreateLLM(c, e, packages) = [res EXCEPT !.adapter = adapter]
  BY <1>1 DEF CreateLLM
<1>3. res = [adapter  |-> "none", provider |-> c.provider,
             model    |-> ResolveModel(c.provider, c, e),
             url      |-> ResolveUrl(c.provider, c, e),
             key      |-> ResolveKey(c.provider, c, e)]
  BY <1>2 DEF Resolve
<1> HIDE DEF res
<1>4. /\ CreateLLM(c, e, packages).provider = c.provider
      /\ CreateLLM(c, e, packages).key = ResolveKey(c.provider, c, e)
  BY <1>2, <1>3
<1> QED
  BY <1>4

\* For any providers, keys and packages: a key given for a provider that has a variable of
\* its own is the one its model answers with from then on, and after every restart.
THEOREM GivenKeysAreUsed == Spec => []GivenKeyIsUsed
<1>1. ChoiceInv /\ GivenInv => GivenKeyIsUsed
  <2> SUFFICES ASSUME ChoiceInv, GivenInv, ~elsewhere, NEW p \in Offered, Info[p].keyed,
                      given[p].by # "nobody", shell[Var("key", p)] = None
               PROVE  /\ ResolveKey(p, ConfigOf(Loaded), Loaded) = given[p].key
                      /\ up /\ given[p].by = "update" /\ live.provider = p => live.key = given[p].key
    BY DEF GivenKeyIsUsed
  <2>1. Keyed(p) /\ KeyOf(p) = Var("key", p) /\ KeyOf(p) \in Vars /\ p \in Choosable
    BY KeyIsVar DEF Keyed, KeyOf
  <2>2. given[p].key # None /\ file[KeyOf(p)] = given[p].key
    BY <2>1 DEF GivenInv
  <2>3. Loaded[KeyOf(p)] = given[p].key
    BY <2>1, <2>2 DEF Loaded, Either
  <2>4. ResolveKey(p, ConfigOf(Loaded), Loaded) = given[p].key
    BY <2>1, <2>2, <2>3 DEF ResolveKey, Either
  <2>5. ASSUME up, given[p].by = "update", live.provider = p
        PROVE  live.key = given[p].key
    <3>1. env[KeyOf(p)] = given[p].key
      BY <2>1, <2>5 DEF GivenInv
    <3>2. ResolveKey(p, config, env) = given[p].key
      BY <2>1, <2>2, <3>1 DEF ResolveKey, Either
    <3> QED
      BY <2>1, <2>5, <3>2, LiveKey DEF GivenInv
  <2> QED
    BY <2>4, <2>5
<1> QED BY ChoiceInit, ChoiceStep, GivenInit, GivenStep, <1>1, PTL DEF Spec

(***************************************************************************)
(* The user's skills.                                                      *)
(***************************************************************************)

\* A finite set of directories has a last one: the one load_skills reads last.
LEMMA LastFound ==
  ASSUME NEW name, NEW d, Found(name, d) # {}
  PROVE  Max(Found(name, d)) \in Found(name, d)
<1> DEFINE S == Found(name, d)
           T == {n \in Nat : Categories - n \in S}
           Less == OpToRel(<, Nat)
<1>1. Categories \in Nat /\ S \subseteq 1..Categories /\ S # {}
  BY AuthoringAssumption, Zenon DEF Found
<1>2. IsWellFoundedOn(Less, Nat)
  BY NatLessThanWellFounded
<1>3. \A m, n \in Nat : m < n => <<m, n>> \in Less
  BY DEF OpToRel
<1> HIDE DEF Less, S
<1>4. T \in SUBSET Nat /\ T # {}
  <2>1. PICK c \in S : TRUE
    BY <1>1
  <2>2. c \in 1..Categories
    BY <1>1, <2>1
  <2>3. Categories - c \in Nat /\ Categories - (Categories - c) = c
    BY <1>1, <2>2
  <2> QED
    BY <2>1, <2>3
<1> HIDE DEF T
<1>5. PICK n \in T : \A m \in T : <<m, n>> \notin Less
  BY <1>2, <1>4, WFMin
<1>6. n \in Nat /\ \A m \in T : m \in Nat /\ ~(m < n)
  BY <1>3, <1>4, <1>5
<1>7. Categories - n \in S /\ \A c \in S : Categories - n >= c
  <2>1. Categories - n \in S
    BY <1>5 DEF T
  <2>2. ASSUME NEW c \in S PROVE Categories - n >= c
    <3>1. c \in 1..Categories
      BY <1>1
    <3>2. Categories - c \in Nat /\ Categories - (Categories - c) = c
      BY <1>1, <3>1
    <3>3. Categories - c \in T
      BY <3>2 DEF T
    <3>4. ~(Categories - c < n) /\ n \in Nat
      BY <1>6, <3>3
    <3> QED
      BY <1>1, <3>1, <3>4
  <2> QED
    BY <2>1, <2>2
<1>8. \E x \in S : \A y \in S : x >= y
  BY <1>7
<1>9. Max(S) = CHOOSE x \in S : \A y \in S : x >= y
  BY DEF Max
<1> QED
  BY <1>8, <1>9 DEF S

\* What the contents of a directory and the unknown skill are made of.
LEMMA Contents ==
  /\ Free.state = "free" /\ Empty.state = "empty" /\ Torn.state = "torn"
  /\ Free.source = "builtin" /\ Empty.source = "builtin" /\ Torn.source = "builtin"
  /\ \A source, body : /\ File(source, body).state = "file"
                       /\ File(source, body).source = source
  /\ NoSkill.slot = <<0, "">> /\ NoSkill.source = "builtin" /\ NoSkill.activated = FALSE
BY DEF Free, Empty, Torn, File, NoSkill

\* The directories that hold a whole file of a skill of this name.
Holds(d, slot) == d[slot].state = "file"

\* What is the user's is whole, and no two directories hold a file of one name.
FilesOK(d) ==
  /\ d = [slot \in Slots |-> d[slot]]
  /\ \A slot \in Slots : /\ d[slot].source = "user" => Holds(d, slot)
                         /\ d[slot].state = "torn" => d[slot] = Torn
  /\ \A slot, other \in Slots : Holds(d, slot) /\ Holds(d, other) /\ slot[2] = other[2]
       => slot = other

\* What has been read: a skill that is not known has no file, so that it may be created; of
\* a skill of the user there is no file but in the directory it was read from; and until a
\* file is touched without a reload, what was read is what load_skills would read.
SkillsOK(s, d) ==
  /\ s = [name \in SkillNames |-> s[name]]
  /\ \A slot \in Slots : s[slot[2]] = NoSkill => ~Holds(d, slot)
  /\ \A name \in SkillNames : s[name].source = "user" =>
       /\ s[name].slot \in Slots /\ s[name].slot[2] = name
       /\ \A slot \in Slots : slot[2] = name /\ Holds(d, slot) => slot = s[name].slot

Fresh(s, d) ==
  \A name \in SkillNames :
    /\ s[name].slot = LoadSkills(d)[name].slot /\ s[name].source = LoadSkills(d)[name].source
    /\ s[name].activated => s[name].body = d[s[name].slot].body

SkillsInv ==
  /\ FilesOK(disk)
  /\ up => SkillsOK(skills, disk)
  /\ up /\ ~stale => Fresh(skills, disk)

LEMMA SlotParts ==
  ASSUME NEW slot \in Slots
  PROVE  /\ slot = <<slot[1], slot[2]>> /\ slot[1] \in 1..Categories /\ slot[2] \in SkillNames
         /\ slot \in Slots
BY DEF Slots

LEMMA FoundSlots ==
  ASSUME NEW name \in SkillNames, NEW d
  PROVE  /\ \A c \in Found(name, d) : <<c, name>> \in Slots /\ c # 0
         /\ LoadSkills(d)[name] = IF Found(name, d) = {} THEN NoSkill
                                  ELSE Read(<<Max(Found(name, d)), name>>, d)
<1>1. \A c \in Found(name, d) : c \in 1..Categories
  BY DEF Found
<1>2. \A c \in 1..Categories : c # 0
  <2>1. Categories \in Nat
    BY AuthoringAssumption, Zenon
  <2> QED
    BY <2>1
<1> QED
  BY <1>1, <1>2, InProduct DEF Slots, LoadSkills

\* Reading the directories again finds each file that is there.
LEMMA LoadedOK ==
  ASSUME NEW d, FilesOK(d)
  PROVE  SkillsOK(LoadSkills(d), d) /\ Fresh(LoadSkills(d), d)
<1> DEFINE s == LoadSkills(d)
<1>1. s = [name \in SkillNames |-> s[name]]
  BY DEF LoadSkills
<1>2. ASSUME NEW name \in SkillNames, Found(name, d) # {}
      PROVE  /\ s[name] # NoSkill /\ s[name].slot = <<Max(Found(name, d)), name>>
             /\ s[name].slot \in Slots /\ s[name].slot[2] = name
             /\ s[name].source = d[s[name].slot].source /\ ~s[name].activated
  <2> DEFINE m == Max(Found(name, d))
  <2>1. m \in Found(name, d)
    BY <1>2, LastFound
  <2> HIDE DEF m
  <2>2. s[name] = Read(<<m, name>>, d) /\ <<m, name>> \in Slots /\ m # 0
    BY <1>2, <2>1, FoundSlots DEF m
  <2>3. /\ Read(<<m, name>>, d).slot = <<m, name>>
        /\ Read(<<m, name>>, d).source = d[<<m, name>>].source
        /\ ~Read(<<m, name>>, d).activated
    BY DEF Read
  <2>4. <<m, name>> # <<0, "">> /\ <<m, name>>[2] = name
    BY <2>2
  <2> HIDE DEF s
  <2>5. s[name].slot = <<m, name>> /\ s[name].slot \in Slots /\ s[name].slot[2] = name
    BY <2>2, <2>3, <2>4
  <2>6. s[name].source = d[s[name].slot].source /\ ~s[name].activated
    BY <2>2, <2>3
  <2>7. s[name] # NoSkill
    BY <2>4, <2>5, Contents
  <2> QED
    BY <2>5, <2>6, <2>7 DEF m
<1>3. ASSUME NEW name \in SkillNames, Found(name, d) = {}
      PROVE  s[name] = NoSkill
  BY <1>3, FoundSlots
<1>4. \A slot \in Slots : Holds(d, slot) => slot[1] \in Found(slot[2], d)
  <2> TAKE slot \in Slots
  <2>1. slot = <<slot[1], slot[2]>> /\ slot[1] \in 1..Categories
    BY SlotParts
  <2> QED
    BY <2>1 DEF Found, Holds
<1> HIDE DEF s
<1>5. \A slot \in Slots : s[slot[2]] = NoSkill => ~Holds(d, slot)
  BY <1>2, <1>4, SlotParts
<1>6. ASSUME NEW name \in SkillNames, s[name].source = "user"
      PROVE  /\ s[name].slot \in Slots /\ s[name].slot[2] = name
             /\ \A slot \in Slots : slot[2] = name /\ Holds(d, slot) => slot = s[name].slot
  <2>1. Found(name, d) # {}
    BY <1>3, <1>6, Contents
  <2>2. /\ s[name].slot \in Slots /\ s[name].slot[2] = name
        /\ d[s[name].slot].source = "user"
    BY <1>2, <1>6, <2>1
  <2>3. Holds(d, s[name].slot)
    BY <2>2 DEF FilesOK
  <2>4. ASSUME NEW slot \in Slots, slot[2] = name, Holds(d, slot)
        PROVE  slot = s[name].slot
    BY <2>2, <2>3, <2>4 DEF FilesOK
  <2> QED
    BY <2>2, <2>4
<1>7. \A name \in SkillNames : ~s[name].activated
  BY <1>2, <1>3, Contents
<1> QED
  BY <1>1, <1>5, <1>6, <1>7 DEF SkillsOK, Fresh, s

\* A change after which a directory may hold a file only if it did before.
LEMMA FewerFiles ==
  ASSUME NEW d, FilesOK(d), NEW slot \in Slots, NEW content,
         content.state = "file" => content = d[slot],
         content.source = "user" => content.state = "file",
         content.state = "torn" => content = Torn
  PROVE  /\ FilesOK([d EXCEPT ![slot] = content])
         /\ \A s : SkillsOK(s, d) => SkillsOK(s, [d EXCEPT ![slot] = content])
<1> DEFINE e == [d EXCEPT ![slot] = content]
<1>1. /\ e = [o \in Slots |-> e[o]]
      /\ \A o \in Slots : e[o] = IF o = slot THEN content ELSE d[o]
  BY DEF FilesOK
<1> HIDE DEF e
<1>2. \A o \in Slots : Holds(e, o) => Holds(d, o)
  BY <1>1 DEF Holds
<1>3. FilesOK(e)
  BY <1>1, <1>2 DEF FilesOK, Holds
<1>4. \A s : SkillsOK(s, d) => SkillsOK(s, e)
  BY <1>2 DEF SkillsOK
<1> QED
  BY <1>3, <1>4 DEF e

\* A file of the user's, written where no other directory holds one of that name.
LEMMA OneMoreFile ==
  ASSUME NEW d, FilesOK(d), NEW slot \in Slots, NEW body,
         \A o \in Slots : o[2] = slot[2] /\ Holds(d, o) => o = slot
  PROVE  FilesOK([d EXCEPT ![slot] = File("user", body)])
<1> DEFINE content == File("user", body)
           e == [d EXCEPT ![slot] = content]
<1>1. /\ e = [o \in Slots |-> e[o]]
      /\ \A o \in Slots : e[o] = IF o = slot THEN content ELSE d[o]
  BY DEF FilesOK
<1>2. content.state = "file"
  BY DEF File
<1> HIDE DEF e, content
<1>3. \A o \in Slots : Holds(e, o) => Holds(d, o) \/ o = slot
  BY <1>1 DEF Holds
<1>4. FilesOK(e)
  BY <1>1, <1>2, <1>3 DEF FilesOK, Holds
<1> QED
  BY <1>4 DEF e, content

\* What fails leaves a directory without a file, and so does a delete.
LEMMA NoFileLeft ==
  ASSUME NEW d, FilesOK(d), NEW slot \in Slots, NEW left \in {Free, Empty, Torn}
  PROVE  /\ FilesOK([d EXCEPT ![slot] = left])
         /\ \A s : SkillsOK(s, d) => SkillsOK(s, [d EXCEPT ![slot] = left])
<1>1. /\ left.state # "file" /\ left.source # "user"
      /\ left.state = "torn" => left = Torn
  BY Contents
<1> QED
  BY <1>1, FewerFiles

\* Reading the body of a skill changes nothing of where the skills are.
LEMMA ActivatedOK ==
  ASSUME NEW name \in SkillNames, NEW d, SkillsOK(skills, d)
  PROVE  SkillsOK(Activated(name), d)
<1>1. skills = [n \in SkillNames |-> skills[n]]
  BY DEF SkillsOK
<1>2. SameFiles(Activated(name)) /\ \A n \in SkillNames : Activated(name)[n] = NoSkill => skills[n] = NoSkill
  BY <1>1, ActivatedSkills, Contents
<1> QED
  BY <1>2, SlotParts DEF SkillsOK, SameFiles

LEMMA SkillsInit == Init => SkillsInv
<1> SUFFICES ASSUME Init PROVE SkillsInv
  OBVIOUS
<1>1. /\ disk = [slot \in Slots |-> disk[slot]]
      /\ \A slot \in Slots : disk[slot] =
           IF slot[1] = 1 /\ slot[2] \in Shipped THEN File("builtin", "shipped") ELSE Free
  BY DEF Init, NotServing, AuthoringInit
<1>2. \A slot \in Slots : /\ disk[slot].source = "builtin" /\ disk[slot].state # "torn"
                          /\ Holds(disk, slot) => slot[1] = 1
  <2> TAKE slot \in Slots
  <2>1. disk[slot] = File("builtin", "shipped") \/ disk[slot] = Free
    BY <1>1
  <2>2. slot[1] = 1 \/ disk[slot] = Free
    BY <1>1
  <2>3. Free.state # "file" /\ Free.source = "builtin" /\ Free.state # "torn"
    BY Contents
  <2>4. File("builtin", "shipped").source = "builtin" /\ File("builtin", "shipped").state # "torn"
    BY Contents
  <2> QED
    BY <2>1, <2>2, <2>3, <2>4 DEF Holds
<1>3. \A slot, other \in Slots : slot[1] = 1 /\ other[1] = 1 /\ slot[2] = other[2] => slot = other
  <2> TAKE slot, other \in Slots
  <2>1. slot = <<slot[1], slot[2]>> /\ other = <<other[1], other[2]>>
    BY SlotParts
  <2> QED
    BY <2>1
<1>4. FilesOK(disk)
  BY <1>1, <1>2, <1>3 DEF FilesOK
<1> QED
  BY <1>4 DEF SkillsInv, Init, NotServing

LEMMA SkillsNext == SkillsInv /\ [Next]_vars => SkillsInv'
<1> SUFFICES ASSUME SkillsInv, [Next]_vars PROVE SkillsInv'
  OBVIOUS
<1> USE DEF SkillsInv
<1>1. CASE UNCHANGED <<disk, skills, stale, up>>
  BY <1>1
<1>2. ASSUME FilesOK(disk'), skills' = LoadSkills(disk')
      PROVE  SkillsInv'
  BY <1>2, LoadedOK
<1>3. CASE Start
  BY <1>3, <1>2 DEF Start, Serve, AuthoringStart
<1>4. CASE Stop
  <2>1. FilesOK(disk')
    <3>1. CASE \E slot \in Slots : disk' = [disk EXCEPT ![slot] = Torn]
      BY <3>1, NoFileLeft
    <3> QED
      BY <1>4, <3>1 DEF Stop, Exit, AuthoringStop
  <2> QED
    BY <1>4, <2>1 DEF Stop, Exit
<1>5. CASE AuthoringStep
  <2>0. up /\ up'
    BY <1>5 DEF AuthoringStep, Asked
  <2>1. ASSUME NEW slot \in Slots, NEW body, CreateSkill(slot, body) PROVE SkillsInv'
    <3>1. skills[slot[2]] = NoSkill /\ disk[slot] = Free
      BY <2>1 DEF CreateSkill, IsNew, Known
    <3>2. CASE disk' = [disk EXCEPT ![slot] = File("user", body)] /\ Reload
      <4>1. \A o \in Slots : o[2] = slot[2] => ~Holds(disk, o)
        BY <2>0, <3>1 DEF SkillsOK
      <4> QED
        BY <1>2, <3>2, <4>1, OneMoreFile DEF Reload
    <3>3. CASE \E left \in {Empty, Torn} : disk' = [disk EXCEPT ![slot] = left] /\ NotReloaded(skills)
      <4>1. PICK left \in {Empty, Torn} : disk' = [disk EXCEPT ![slot] = left] /\ NotReloaded(skills)
        BY <3>3
      <4>2. FilesOK(disk') /\ SkillsOK(skills, disk')
        BY <2>0, <4>1, NoFileLeft
      <4> QED
        BY <4>1, <4>2 DEF NotReloaded
    <3> QED
      BY <2>1, <3>2, <3>3 DEF CreateSkill
  <2>2. ASSUME NEW name \in SkillNames, Users(name)
        PROVE  /\ skills[name].slot \in Slots /\ skills[name].slot[2] = name
               /\ \A o \in Slots : o[2] = name /\ Holds(disk, o) => o = skills[name].slot
    BY <2>0, <2>2 DEF Users, SkillsOK
  <2>3. ASSUME NEW name \in SkillNames, NEW body, UpdateSkill(name, body) PROVE SkillsInv'
    <3> DEFINE slot == skills[name].slot
    <3>1. /\ slot \in Slots /\ slot[2] = name
          /\ \A o \in Slots : o[2] = name /\ Holds(disk, o) => o = slot
      BY <2>2, <2>3 DEF UpdateSkill
    <3>2. \/ disk' = [disk EXCEPT ![slot] = File("user", BodyFor(name, body))] /\ Reload
          \/ /\ disk' = [disk EXCEPT ![slot] = Torn]
             /\ NotReloaded(Activated(name)) \/ NotReloaded(skills)
      BY <2>3 DEF UpdateSkill
    <3> HIDE DEF slot
    <3>3. CASE disk' = [disk EXCEPT ![slot] = File("user", BodyFor(name, body))] /\ Reload
      BY <1>2, <3>1, <3>3, OneMoreFile DEF Reload
    <3>4. CASE /\ disk' = [disk EXCEPT ![slot] = Torn]
               /\ NotReloaded(Activated(name)) \/ NotReloaded(skills)
      <4>1. FilesOK(disk') /\ SkillsOK(skills, disk') /\ SkillsOK(Activated(name), disk')
        BY <2>0, <3>1, <3>4, NoFileLeft, ActivatedOK
      <4> QED
        BY <3>4, <4>1 DEF NotReloaded
    <3> QED
      BY <3>2, <3>3, <3>4
  <2>4. ASSUME NEW name \in SkillNames, DeleteSkill(name) PROVE SkillsInv'
    <3> DEFINE slot == skills[name].slot
    <3>1. slot \in Slots
      BY <2>2, <2>4 DEF DeleteSkill, MayDelete
    <3>2. PICK left \in {Free, Empty, disk[slot]} : disk' = [disk EXCEPT ![slot] = left]
      BY <2>4 DEF DeleteSkill
    <3> HIDE DEF slot
    <3>3. FilesOK(disk')
      <4>1. CASE left = disk[slot]
        BY <3>1, <3>2, <4>1 DEF FilesOK
      <4>2. CASE left \in {Free, Empty}
        BY <3>1, <3>2, <4>2, NoFileLeft
      <4> QED
        BY <3>2, <4>1, <4>2
    <3> QED
      BY <1>2, <2>4, <3>3 DEF DeleteSkill, Reload
  <2>5. ASSUME NEW agents, Rostered(agents) PROVE SkillsInv'
    BY <2>0, <2>5, <1>1 DEF Rostered, skillVars
  <2> QED
    BY <1>5, <2>1, <2>3, <2>4, <2>5 DEF AuthoringStep, CreateAgent, UpdateAgent, DeleteAgent
<1>6. CASE Activation
  <2>1. PICK name \in SkillNames : ActivateSkill(name)
    BY <1>6 DEF Activation
  <2>2. /\ up /\ UNCHANGED <<disk, stale, up>> /\ skills = [n \in SkillNames |-> skills[n]]
        /\ ~skills[name].activated /\ skills' = Activated(name)
    BY <1>6, <2>1 DEF Activation, ActivateSkill, processVars, SkillsOK
  <2>3. SkillsOK(skills', disk')
    BY <2>2, ActivatedOK
  <2>4. ~stale => Fresh(skills', disk')
    BY <2>2, ActivatedSkills DEF Fresh, SameFiles
  <2> QED
    BY <2>2, <2>3, <2>4
<1>7. CASE SettingsStep /\ UNCHANGED authoringVars
  BY <1>7, <1>1 DEF SettingsStep, Asked, authoringVars, skillVars
<1>8. CASE UNCHANGED vars
  BY <1>8, <1>1 DEF vars, processVars, authoringVars, skillVars
<1> QED
  BY <1>3, <1>4, <1>5, <1>6, <1>7, <1>8 DEF Next

\* Whatever sequence of requests, of failures to write a file and of ends of the process:
\* a skill of the user's is found under its name, in the one directory that holds it, and
\* is what its file says.
THEOREM SkillsAreReachable == Spec => []SkillsReachable
<1>1. SkillsInv => SkillsReachable
  <2> SUFFICES ASSUME SkillsInv, up, ~stale, NEW slot \in Slots,
                      disk[slot].source = "user",
                      \A c \in 1..Categories : disk[<<c, slot[2]>>] # Torn
               PROVE  /\ skills[slot[2]].slot = slot /\ skills[slot[2]].source = "user"
                      /\ skills[slot[2]].activated => skills[slot[2]].body = disk[slot].body
    BY DEF SkillsReachable
  <2> DEFINE name == slot[2]
  <2>1. name \in SkillNames
    BY SlotParts
  <2>2. Holds(disk, slot) /\ slot[1] \in Found(name, disk)
    <3>1. slot = <<slot[1], slot[2]>> /\ slot[1] \in 1..Categories
      BY SlotParts
    <3>2. Holds(disk, slot)
      BY DEF SkillsInv, FilesOK
    <3> QED
      BY <3>1, <3>2 DEF Found, Holds
  <2>3. \A c \in Found(name, disk) : <<c, name>> \in Slots /\ Holds(disk, <<c, name>>)
    <3>1. ASSUME NEW c \in Found(name, disk) PROVE <<c, name>> \in Slots /\ Holds(disk, <<c, name>>)
      <4>1. <<c, name>> \in Slots /\ disk[<<c, name>>].state \in {"torn", "file"}
        <5>1. <<c, name>> \in Slots
          BY <2>1, FoundSlots
        <5> QED
          BY <5>1 DEF Found
      <4>2. disk[<<c, name>>].state = "torn" => disk[<<c, name>>] = Torn
        BY <4>1 DEF SkillsInv, FilesOK
      <4>3. disk[<<c, name>>] # Torn
        BY <4>1 DEF Found
      <4> QED
        BY <4>1, <4>2, <4>3 DEF Holds
    <3> QED
      BY <3>1
  <2>4. \A c \in Found(name, disk) : <<c, name>> = slot
    BY <2>1, <2>2, <2>3 DEF SkillsInv, FilesOK
  <2>5. LoadSkills(disk)[name] = Read(slot, disk)
    BY <2>1, <2>2, <2>4, LastFound, FoundSlots
  <2>6. skills[name].slot = slot /\ skills[name].source = "user"
    BY <2>1, <2>5, ReadOf DEF SkillsInv, Fresh
  <2> QED
    BY <2>1, <2>6 DEF SkillsInv, Fresh
<1> QED BY SkillsInit, SkillsNext, <1>1, PTL DEF Spec
=================================================================================
