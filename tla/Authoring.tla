-------------------------------- MODULE Authoring --------------------------------
(***************************************************************************)
(* Authoring from the headset: the skills, which are files, each in a      *)
(* directory <category>/<name> of the skills root, and what the backend    *)
(* has read of them; the user's own agents, a list in a file, and the      *)
(* routes from tools to agents that follow from it.                        *)
(*                                                                         *)
(* A category is its place in the order in which load_skills reads the     *)
(* directories.  Of a skill the source and the body are kept; its owner,   *)
(* description and tools are carried like the body.  Of an agent the role  *)
(* and the tools are kept; its name, persona and skills are carried like   *)
(* the tools.  Refusals that look only at the form of a request (names,    *)
(* reserved words, an empty description) are left out of the model.        *)
(***************************************************************************)
EXTENDS ServingBackend, FiniteSetsExt, SequencesExt

CONSTANTS
  Categories,  \* how many categories
  SkillNames,  \* names of skills
  Shipped,     \* those of the skills that come with the backend
  Bodies,      \* bodies given to skills
  Roles,       \* roles of user agents
  Tools        \* tools that agents list, those nobody provides included

ASSUME AuthoringAssumption ==
  /\ Categories \in Nat \ {0}
  /\ Shipped \subseteq SkillNames
  /\ "" \notin Bodies

Slots == (1..Categories) \X SkillNames   \* directories of skills

(***************************************************************************)
(* The built-in agents and their tools.                                    *)
(***************************************************************************)

Roster == [
  perception    |-> {"identify_object", "describe_view", "read_text", "find_object",
                     "remember_object", "identify_sound"},
  research      |-> {"get_weather", "web_search", "get_news", "get_stocks"},
  productivity  |-> {"start_timer", "stop_timer", "get_time", "take_note", "list_notes",
                     "set_reminder", "get_calendar"},
  smart_home    |-> {"show_smart_home"},
  navigation    |-> {"navigate_to", "measure"},
  media         |-> {"play_media", "show_media_player", "show_music_visualizer"},
  communication |-> {"translate_text", "translate_view"},
  stage         |-> {"show_text", "show_panel", "open_widget"},
  system        |-> {"show_settings"} ]

Builtin == DOMAIN Roster
Owned == UNION {Roster[role] : role \in Builtin}

\* role_for_tool without the user's agents.
BuiltinRole(tool) ==
  IF tool \in Owned THEN CHOOSE role \in Builtin : tool \in Roster[role]
  ELSE CASE tool = "show_system_launcher" -> "system"
         [] tool \in {"show_navigation", "show_map"} -> "navigation"
         [] OTHER -> "stage"

\* A tool no registry has: a user agent is created without it.
Unregistered == {"made_up"}

VARIABLES
  disk,     \* [Slots -> what the directory holds]
  skills,   \* agent.skills: [SkillNames -> what was read of the skill of that name]
  stale,    \* history: a file of a skill was touched since skills was read
  roster,   \* agent.user_agents, in the order of its dictionary
  routes,   \* agent._user_tool_to_role
  saved     \* user_agents.json

skillVars  == <<disk, skills, stale>>
agentVars  == <<roster, routes, saved>>
authoringVars == <<skillVars, agentVars>>

(***************************************************************************)
(* Skills.  A directory is "free", "empty" (made, without a file), "torn"  *)
(* (its file is empty or cut short) or holds the file of a skill.          *)
(***************************************************************************)

Free  == [state |-> "free",  source |-> "builtin", body |-> ""]
Empty == [state |-> "empty", source |-> "builtin", body |-> ""]
Torn  == [state |-> "torn",  source |-> "builtin", body |-> ""]
File(source, body) == [state |-> "file", source |-> source, body |-> body]

\* What is known of a skill: where its file is, its source, and its body once activated.
NoSkill == [slot |-> <<0, "">>, source |-> "builtin", activated |-> FALSE, body |-> ""]
Read(slot, d) == [slot |-> slot, source |-> d[slot].source, activated |-> FALSE, body |-> ""]

\* load_skills: of several files of one name the last one read counts.  A file without
\* front matter is a skill with the name of its directory, and not the user's.
Found(name, d) == {c \in 1..Categories : d[<<c, name>>].state \in {"torn", "file"}}
LoadSkills(d) ==
  [name \in SkillNames |->
     IF Found(name, d) = {} THEN NoSkill ELSE Read(<<Max(Found(name, d)), name>>, d)]

\* Faulty variant: the skills are not read again after an update.
FaultyReload == UNCHANGED skills /\ stale' = FALSE
Reload == skills' = LoadSkills(disk') /\ stale' = FALSE

\* A request that ends in an exception answers "internal" and reads nothing again.
NotReloaded(known) == skills' = known /\ stale' = TRUE

Known(name) == skills[name] # NoSkill
Users(name) == Known(name) /\ skills[name].source = "user"

\* Skill.activate: the body is read once.
Activated(name) ==
  IF skills[name].activated THEN skills
  ELSE [skills EXCEPT ![name] =
          [slot |-> @.slot, source |-> @.source, activated |-> TRUE, body |-> disk[@.slot].body]]

\* By a turn.
ActivateSkill(name) ==
  /\ Known(name)
  /\ ~skills[name].activated
  /\ skills' = Activated(name)
  /\ UNCHANGED <<disk, stale, agentVars>>

\* Faulty variant: only the directory is looked at.
FaultyIsNew(slot) == disk[slot] = Free
IsNew(slot) == ~Known(slot[2]) /\ disk[slot] = Free

CreateSkill(slot, body) ==
  /\ IsNew(slot)
  /\ \/ disk' = [disk EXCEPT ![slot] = File("user", body)] /\ Reload
     \/ \E left \in {Empty, Torn} : disk' = [disk EXCEPT ![slot] = left] /\ NotReloaded(skills)
  /\ UNCHANGED agentVars

\* The body an update writes: the one given, or the one activate has or reads.
BodyFor(name, body) == IF body # "" THEN body ELSE Activated(name)[name].body

UpdateSkill(name, body) ==
  /\ Users(name)
  /\ LET slot == skills[name].slot IN
     \/ disk' = [disk EXCEPT ![slot] = File("user", BodyFor(name, body))] /\ Reload
     \/ /\ disk' = [disk EXCEPT ![slot] = Torn]
        /\ NotReloaded(IF body = "" THEN Activated(name) ELSE skills)
  /\ UNCHANGED agentVars

\* Faulty variant: the source is not looked at.
FaultyMayDelete(name) == Known(name)
MayDelete(name) == Users(name)

\* rmtree ignores its errors: the file may stay, or the directory without it.
DeleteSkill(name) ==
  /\ MayDelete(name)
  /\ LET slot == skills[name].slot IN
     \E left \in {Free, Empty, disk[slot]} : disk' = [disk EXCEPT ![slot] = left]
  /\ Reload
  /\ UNCHANGED agentVars

(***************************************************************************)
(* Agents.                                                                 *)
(***************************************************************************)

UserAgent(role, tools) == [role |-> role, tools |-> tools]
Place(agents, role) == {i \in DOMAIN agents : agents[i].role = role}
Has(role) == Place(roster, role) # {}

\* _rebuild_routing: of several agents with one tool, the last of the dictionary.
Claimants(agents, tool) == {i \in DOMAIN agents : tool \in agents[i].tools \ Owned}
Routing(agents) ==
  [tool \in {t \in Tools : Claimants(agents, t) # {}} |-> agents[Max(Claimants(agents, tool))].role]

\* role_for_tool.
RoleForTool(table, tool) == IF tool \in DOMAIN table THEN table[tool] ELSE BuiltinRole(tool)

\* save_user_agents: the whole list, through a temporary file, or not at all, which is
\* only logged.
Save(agents) == saved' \in {agents, saved}

Rostered(agents) ==
  /\ roster' = agents
  /\ routes' = Routing(agents)
  /\ Save(agents)
  /\ UNCHANGED skillVars

CreateAgent(role, tools) ==
  /\ ~Has(role)
  /\ Rostered(Append(roster, UserAgent(role, tools \ Unregistered)))

\* The agent keeps its place; without tools in the request it keeps its tools.
UpdateAgent(role, tools) ==
  /\ Has(role)
  /\ Rostered([i \in DOMAIN roster |->
                 IF roster[i].role = role THEN UserAgent(role, tools \ Unregistered) ELSE roster[i]])

DeleteAgent(role) ==
  /\ Has(role)
  /\ Rostered(SelectSeq(roster, LAMBDA a : a.role # role))

(***************************************************************************)
(* The backend's start and stop, and its requests.                         *)
(***************************************************************************)

AuthoringInit ==
  /\ disk = [slot \in Slots |->
               IF slot[1] = 1 /\ slot[2] \in Shipped THEN File("builtin", "shipped") ELSE Free]
  /\ skills = [name \in SkillNames |-> NoSkill]
  /\ stale = FALSE
  /\ roster = <<>>
  /\ routes = Routing(<<>>)
  /\ saved = <<>>

\* Agent.build: the skills, the roster as it was saved, its routes.
AuthoringStart ==
  /\ skills' = LoadSkills(disk)
  /\ stale' = FALSE
  /\ roster' = saved
  /\ routes' = Routing(saved)
  /\ UNCHANGED <<disk, saved>>

\* The process ends, perhaps while it writes the file of a skill.
AuthoringStop ==
  /\ \/ UNCHANGED disk
     \/ \E slot \in Slots : disk[slot].source = "user" /\ disk' = [disk EXCEPT ![slot] = Torn]
  /\ skills' = [name \in SkillNames |-> NoSkill]
  /\ stale' = FALSE
  /\ roster' = <<>>
  /\ routes' = Routing(<<>>)
  /\ UNCHANGED saved

AuthoringStep ==
  /\ Asked
  /\ \/ \E slot \in Slots, body \in Bodies : CreateSkill(slot, body)
     \/ \E name \in SkillNames, body \in Bodies \cup {""} : UpdateSkill(name, body)
     \/ \E name \in SkillNames : DeleteSkill(name)
     \/ \E role \in Roles, tools \in SUBSET Tools : CreateAgent(role, tools)
     \/ \E role \in Roles, tools \in SUBSET Tools : UpdateAgent(role, tools)
     \/ \E role \in Roles : DeleteAgent(role)

Activation == up /\ UNCHANGED processVars /\ \E name \in SkillNames : ActivateSkill(name)

(***************************************************************************)
(* Properties.                                                             *)
(***************************************************************************)

\* Every skill the user has written can be found under its name, so that it can be
\* changed and deleted, unless a torn file of that name is in the way; and what has been
\* read of it is what its file says, or an update would write back an old body.
SkillsReachable ==
  up /\ ~stale =>
    \A slot \in Slots :
      LET name == slot[2]
          skill == skills[name]
          torn == \E c \in 1..Categories : disk[<<c, name>>] = Torn
      IN  disk[slot].source = "user" /\ ~torn =>
            /\ skill.slot = slot /\ skill.source = "user"
            /\ skill.activated => skill.body = disk[slot].body

\* What comes with the backend stays: no request touches the file of a shipped skill, and
\* no user agent takes a tool of a built-in one.
BuiltinsStand ==
  /\ \A name \in Shipped : disk[<<1, name>>] = File("builtin", "shipped")
  /\ \A tool \in Tools \cap Owned : RoleForTool(routes, tool) \in Builtin

(***************************************************************************)
(* What a doc says and the code does not do.                               *)
(***************************************************************************)

\* An agent that was created is "persisted to .data/user_agents.json" (README.md of the
\* backend): a restart has the agents that the answers list.
AgentsPersist == up => saved = roster
=================================================================================
