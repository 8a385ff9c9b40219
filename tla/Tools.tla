--------------------------------- MODULE Tools ---------------------------------
(***************************************************************************)
(* What Jarvis does with a request when no language model is configured:   *)
(* the planner of MockLLM maps the text to tool calls, each tool returns   *)
(* render directives, AgentSession checks every spawn against the widget   *)
(* catalog and turns the result into holograms, refs and the annotations   *)
(* of an observation.  A language model calls the same tools with          *)
(* arguments of its own, which nothing checks; touches change or close     *)
(* what is there, and those no handler knows become requests.              *)
(*                                                                         *)
(* A text is the set of intents the planner's patterns find in it.  A prop *)
(* is the class of its value, or the word when the catalog lists words.    *)
(* The lists behind notes and reminders, the wording of replies and the    *)
(* timers' clock are left out; Holograms has the timers' records.          *)
(***************************************************************************)
EXTENDS Integers, SequencesExt

CONSTANTS
  MaxObjects,   \* bound: holograms ever spawned
  Texts,        \* the texts in use, each the set of intents found in it
  Labels,       \* names of things in the room
  Places,       \* where they are
  Alike,        \* pairs of labels of which one contains the other
  Opened,       \* the widgets asked for by name
  Feed          \* the words the weather's source uses for its conditions

ASSUME ToolsAssumption ==
  /\ MaxObjects \in Nat
  /\ {"mug", "laptop"} \subseteq Labels /\ "desk" \in Places
  /\ "nowhere" \notin Places /\ "never" \notin Places

Ids   == 1..MaxObjects
NoId  == 0
NoRef == "no ref"

\* What dict.update leaves: a key of the patch, or else the old one.
Updated(old, patch) ==
  [k \in DOMAIN old \cup DOMAIN patch |-> IF k \in DOMAIN patch THEN patch[k] ELSE old[k]]

(***************************************************************************)
(* The widget catalog: per widget, whether other props are refused, which  *)
(* props are required, and the values each may have.                       *)
(***************************************************************************)

Text == {"text"} \cup Labels
Num  == {"num", "int"}
Int1 == {"int"}
Bool == {"bool"}
Arr  == {"arr"}
Obj  == {"obj"}

Closed(required, props) == [closed |-> TRUE, required |-> required, props |-> props]
Open(required, props)   == [closed |-> FALSE, required |-> required, props |-> props]

Weathers == {"clear", "partly_cloudy", "clouds", "rain", "snow", "storm", "fog", "wind"}
Running  == {"idle", "running", "paused", "completed"}

\* The catalog built into the backend.
Fallback1 == [
  weather_orb  |-> Open({"city", "temp_c", "condition"},
    [city |-> Text, temp_c |-> Num, condition |-> Weathers, humidity_pct |-> Int1, wind_kph |-> Num, unit |-> {"c", "f"}]),
  timer        |-> Open({"duration_ms", "remaining_ms", "state"},
    [label |-> Text, duration_ms |-> Int1, remaining_ms |-> Int1, state |-> Running, mode |-> {"countdown", "stopwatch"}]),
  panel        |-> Open({"title"},
    [title |-> Text, body |-> Text, sections |-> Arr, background |-> {"glass", "solid", "none"}, scrollable |-> Bool]),
  chart_3d     |-> Open({"series"}, [title |-> Text, series |-> Arr, chart_type |-> {"bar", "line", "scatter"}]),
  model_viewer |-> Open({}, [title |-> Text, model_id |-> Text, model_url |-> Text])]

Fallback2 == [
  media_player      |-> Open({}, [title |-> Text, source |-> Text, state |-> {"playing", "paused"}]),
  map_3d            |-> Open({}, [center |-> Arr, zoom |-> Num, markers |-> Arr]),
  smart_home_panel  |-> Open({}, [room |-> Text, devices |-> Arr]),
  vision_annotation |-> Open({"label"}, [label |-> Text, confidence |-> Num, detail |-> Text, color |-> Text]),
  bounding_box_3d   |-> Closed({"label", "size"},
    [label |-> Text, size |-> Arr, confidence |-> Num, color |-> Text, filled |-> Bool, target_object_id |-> Text]),
  live_caption      |-> Closed({"lines"},
    [lines |-> Arr, speaker |-> {"user", "other", "jarvis", "unknown"}, max_lines |-> Int1, language |-> Text, translated |-> Bool])]

Fallback3 == [
  vision_feed   |-> Open({}, [title |-> Text, status |-> Text, frame_count |-> Int1, width |-> Int1, height |-> Int1]),
  scene_label   |-> Open({"text"}, [text |-> Text, color |-> Text]),
  clock         |-> Open({}, [time |-> Text, date |-> Text, tz |-> Text, label |-> Text]),
  world_clock   |-> Open({}, [title |-> Text, zones |-> Arr]),
  calendar      |-> Closed({"events"},
    [title |-> Text, view |-> {"day", "week", "month", "agenda"}, date |-> Text, events |-> Arr]),
  stocks_ticker |-> Closed({"symbols"}, [title |-> Text, symbols |-> Arr, scroll |-> Bool]),
  news_feed     |-> Closed({"articles"}, [title |-> Text, category |-> Text, articles |-> Arr])]

Translator == Closed({"source_lang", "target_lang"},
    [source_lang |-> Text, target_lang |-> Text, source_text |-> Text, translated_text |-> Text,
     mode |-> {"text", "conversation", "sign"}, listening |-> Bool])
Arrow      == Closed({"direction"},
    [target_label |-> Text, direction |-> Arr, distance_m |-> Num, eta_min |-> Num, color |-> Text, style |-> {"arrow", "beam", "path"}])
Tape       == Closed({"points"},
    [points |-> Arr, unit |-> {"m", "cm", "ft", "in"}, distance_m |-> Num, mode |-> {"distance", "area", "angle"}, label |-> Text])
WebPanel   == Closed({"url"},
    [url |-> Text, title |-> Text, width_m |-> Num, height_m |-> Num, interactive |-> Bool, scroll_y |-> Num])

Fallback4 == [
  translator       |-> Translator,
  navigation_arrow |-> Arrow,
  measuring_tape   |-> Tape,
  data_table       |-> Open({}, [title |-> Text, columns |-> Arr, rows |-> Arr]),
  sticky_note      |-> Open({"text"}, [text |-> Text, color |-> Text]),
  web_panel        |-> WebPanel,
  text_label       |-> Open({"text"}, [text |-> Text, color |-> Text])]

Fallback5 == [
  todo_list   |-> Open({"items"}, [title |-> Text, items |-> Arr]),
  image_board |-> Open({"images"}, [title |-> Text, images |-> Arr])]

Fallback == Updated(Fallback1, Updated(Fallback2, Updated(Fallback3, Updated(Fallback4, Fallback5))))

\* holo-tools/registry.json: the published schema of the same widgets, every one closed; those
\* that read alike in both are not repeated, and the widgets only this file has are left out.
Published1 == [
  weather_orb  |-> Closed({"city", "temp_c", "condition"}, Updated(Fallback1["weather_orb"].props, [forecast |-> Arr])),
  timer        |-> Closed({"duration_ms", "remaining_ms", "state"}, Fallback1["timer"].props),
  panel        |-> Closed({"title"}, Updated(Fallback1["panel"].props, [width_m |-> Num, height_m |-> Num])),
  chart_3d     |-> Closed({"chart_type", "series"},
    [chart_type |-> {"bar", "line", "scatter", "pie", "surface"}, title |-> Text, labels |-> Arr, series |-> Arr,
     x_axis_label |-> Text, y_axis_label |-> Text, z_axis_label |-> Text, show_legend |-> Bool]),
  model_viewer |-> Closed({"model_url"},
    [model_url |-> Text, name |-> Text, format |-> {"glb", "gltf", "obj", "fbx"}, auto_rotate |-> Bool,
     animation |-> Text, scale_factor |-> Num])]

Published2 == [
  media_player      |-> Closed({"source_url", "media_type"},
    [title |-> Text, source_url |-> Text, media_type |-> {"audio", "video"}, poster_url |-> Text,
     state |-> {"playing", "paused", "stopped", "buffering"}, position_ms |-> Int1, duration_ms |-> Int1, volume |-> Num, loop |-> Bool]),
  map_3d            |-> Closed({"center"},
    [center |-> Obj, zoom |-> Num, style |-> {"streets", "satellite", "terrain", "dark"}, pitch_deg |-> Num, markers |-> Arr]),
  smart_home_panel  |-> Closed({"devices"}, [room |-> Text, devices |-> Arr]),
  vision_annotation |-> Closed({"label"}, Updated(Fallback2["vision_annotation"].props,
    [leader_line |-> Bool, target_object_id |-> Text, target_position |-> Arr, icon |-> Text])),
  bounding_box_3d   |-> Fallback2["bounding_box_3d"],
  live_caption      |-> Fallback2["live_caption"]]

Published3 == [
  vision_feed   |-> Closed({}, [title |-> Text, source |-> {"rgb_center", "rgb_left", "rgb_right"}, frozen |-> Bool,
                                fps |-> Num, frame_url |-> Text, show_detections |-> Bool]),
  scene_label   |-> Closed({"text"}, [text |-> Text, icon |-> Text, color |-> Text, pin |-> Bool]),
  clock         |-> Closed({}, [timezone |-> Text, format |-> {"12h", "24h"}, style |-> {"analog", "digital"},
                                show_seconds |-> Bool, show_date |-> Bool, label |-> Text]),
  world_clock   |-> Closed({"zones"}, [zones |-> Arr, style |-> {"list", "row"}])]

Published4 == [
  data_table  |-> Closed({"columns", "rows"}, Updated(Fallback4["data_table"].props, [sortable |-> Bool, page |-> Int1])),
  sticky_note |-> Closed({"text"},
    [text |-> Text, color |-> {"yellow", "pink", "blue", "green", "orange"}, pinned |-> Bool, author |-> Text]),
  text_label  |-> Closed({"text"}, [text |-> Text, font_size_m |-> Num, color |-> Text,
                                    align |-> {"left", "center", "right"}, weight |-> {"regular", "bold"}]),
  todo_list   |-> Closed({"items"}, [title |-> Text, items |-> Arr]),
  image_board |-> Closed({"images"}, [title |-> Text, images |-> Arr, layout |-> {"grid", "carousel", "stack"}, columns |-> Int1])]

Published == Updated(Published1, Updated(Published2, Updated(Published3, Published4)))

Widgets == DOMAIN Fallback

\* WidgetCatalog.load: published widgets always win, the built-in ones fill the gaps.
Loaded == Updated(Fallback, Published)
Catalog(registry) == IF registry THEN Loaded ELSE Fallback

\* WidgetCatalog.validate.
Conforms(registry, w, props) ==
  LET spec == Catalog(registry)[w] IN
  /\ spec.required \subseteq DOMAIN props
  /\ spec.closed => DOMAIN props \subseteq DOMAIN spec.props
  /\ \A k \in DOMAIN props \cap DOMAIN spec.props : props[k] \in spec.props[k]

(***************************************************************************)
(* The state.                                                              *)
(***************************************************************************)

VARIABLES
  registry,     \* registry.json was there when the backend started
  objects,      \* every hologram of the session: its widget, props, place, and whether it is live
  refs,         \* SessionState.refs
  lastTimer,    \* store["last_timer_ref"]: the timer's hologram
  pending,      \* the tool calls of the turn that are still to be made
  sees,         \* PerceptionBuffer.scene_objects: what the headset last detected
  spatial,      \* EpisodicMemory's index: [Labels -> place]
  observation,  \* the annotations of the last agent.observation
  refused,      \* the tool whose hologram the catalog refused in the last step
  caller        \* who called the tools of the turn: the "planner" or a "model"

desk == <<objects, refs>>
vars == <<registry, objects, refs, lastTimer, pending, sees, spatial, observation, refused, caller>>

Init ==
  /\ registry \in BOOLEAN
  /\ objects = <<>>
  /\ refs = <<>>
  /\ lastTimer = NoId
  /\ pending = <<>>
  /\ sees = <<>>
  /\ spatial = [n \in Labels |-> "never"]
  /\ observation = <<>>
  /\ refused = "none"
  /\ caller = "planner"

Live(o) == o \in DOMAIN objects /\ objects[o].live

(***************************************************************************)
(* Directives.                                                             *)
(***************************************************************************)

Place(w, props, ref, at) == [widget |-> w, props |-> props, ref |-> ref, at |-> at]
Show(w, props, ref)      == Place(w, props, ref, "nowhere")

\* AgentSession._spawn of one directive: refused, an update of what its ref leads to, or
\* a new hologram.  st is the session so far and what became of the call's directives.
Spawned(st, d) ==
  LET o == Len(st.objects) + 1
      known == d.ref \in DOMAIN st.refs /\ st.objects[st.refs[d.ref]].live
  IN  IF ~Conforms(registry, d.widget, d.props)
        THEN [st EXCEPT !.refused = TRUE]
      ELSE IF known
        THEN [st EXCEPT !.objects[st.refs[d.ref]].props = Updated(@, d.props)]
      ELSE [st EXCEPT !.objects = Append(@, [widget |-> d.widget, props |-> d.props, at |-> d.at, live |-> TRUE]),
                      !.refs = IF d.ref = NoRef THEN @ ELSE Updated(@, [r \in {d.ref} |-> o]),
                      !.spawned = Append(@, o)]

\* AgentSession._apply_directives, all of them spawns.
Untouched == [objects |-> objects, refs |-> refs, spawned |-> <<>>, refused |-> FALSE]
Applied(directives) ==
  LET after[n \in 0..Len(directives)] ==
        IF n = 0 THEN Untouched ELSE Spawned(after[n - 1], directives[n])
  IN  after[Len(directives)]

\* AgentSession._update_object and _destroy_object.
UpdateProps(o, props) == objects' = [objects EXCEPT ![o].props = Updated(@, props)]
Untrack(o) ==
  /\ objects' = [objects EXCEPT ![o] = [widget |-> @.widget, props |-> <<>>, at |-> "nowhere", live |-> FALSE]]
  /\ refs' = [r \in {r \in DOMAIN refs : refs[r] # o} |-> refs[r]]

\* AgentSession._emit_observation: the first hologram spawned with an annotation's label (ids grow).
Target(a, named) == [label |-> a.label, at |-> a.at, target |-> IF named = {} THEN NoId ELSE Min(named)]
Annotated(annotations, st) ==
  LET Called(l) == {o \in Range(st.spawned) :
                      "label" \in DOMAIN st.objects[o].props /\ st.objects[o].props["label"] = l}
  IN  [i \in DOMAIN annotations |-> Target(annotations[i], Called(annotations[i].label))]

(***************************************************************************)
(* The planner.                                                            *)
(***************************************************************************)

Intents == {"thanks", "weather", "timer", "stop", "time", "list notes", "take a note", "remember that",
            "reminder", "what is this", "view", "read", "translate this", "translate words", "is there",
            "where", "sound", "search", "news", "stocks", "calendar", "navigate", "measure", "open"}

\* The intents of _plan_perception, in its order.
PerceptionOrder == <<"identify_object", "describe_view", "read_text", "translate_view", "translate_text",
  "remember_object", "find_object", "identify_sound", "web_search", "get_news", "get_stocks", "get_calendar",
  "navigate_to", "measure">>

RemembersPlace(I) == {"remember that", "is there"} \subseteq I
PerceptionAsked(t, I) ==
  CASE t = "identify_object" -> "what is this" \in I
    [] t = "describe_view"   -> "view" \in I /\ "what is this" \notin I
    [] t = "read_text"       -> "read" \in I /\ I \cap {"list notes", "take a note"} = {}
    [] t = "translate_view"  -> "translate this" \in I
    [] t = "translate_text"  -> "translate words" \in I /\ "translate this" \notin I
    [] t = "remember_object" -> RemembersPlace(I)
    [] t = "find_object"     -> "where" \in I /\ ~RemembersPlace(I)
    [] t = "identify_sound"  -> "sound" \in I
    [] t = "web_search"      -> "search" \in I
    [] t = "get_news"        -> "news" \in I
    [] t = "get_stocks"      -> "stocks" \in I
    [] t = "get_calendar"    -> "calendar" \in I
    [] t = "navigate_to"     -> "navigate" \in I
    [] t = "measure"         -> "measure" \in I

PlanOrder == <<"get_weather", "stop_timer", "start_timer", "get_time", "list_notes", "take_note", "set_reminder">>
Asked(t, I) ==
  CASE t = "get_weather"  -> "weather" \in I
    [] t = "stop_timer"   -> {"timer", "stop"} \subseteq I
    [] t = "start_timer"  -> "timer" \in I /\ "stop" \notin I
    [] t = "get_time"     -> "time" \in I
    [] t = "list_notes"   -> "list notes" \in I
    [] t = "take_note"    -> I \cap {"take a note", "remember that"} # {} /\ "list notes" \notin I
    [] t = "set_reminder" -> "reminder" \in I

\* plan_tool_calls.
PlannedCalls(I) ==
  LET calls == SelectSeq(PlanOrder, LAMBDA t : Asked(t, I))
               \o SelectSeq(PerceptionOrder, LAMBDA t : PerceptionAsked(t, I))
  IN  IF "thanks" \in I THEN <<>>
      ELSE IF calls # <<>> THEN calls
      ELSE IF "open" \in I THEN <<"open_widget">>
      ELSE <<"show_text">>

ASSUME TextsAssumption == Texts \subseteq SUBSET Intents
ASSUME OpenedAssumption == Opened \subseteq Widgets \ {"weather_orb", "timer", "panel"}

(***************************************************************************)
(* The tools.                                                              *)
(***************************************************************************)

Panel(ref)  == <<Show("panel", [title |-> "text", body |-> "text"], ref)>>
AskBack     == <<>>   \* a tool that is given an empty text asks for it, and shows nothing

\* Of one city, whose orb is one hologram.
WeatherOrb(condition) ==
  <<Show("weather_orb", [city |-> "text", temp_c |-> "int", condition |-> condition, humidity_pct |-> "int",
                         wind_kph |-> "int", unit |-> "c"], "weather")>>
GetWeather   == {WeatherOrb(c) : c \in Feed}
Timer(label) ==
  <<Show("timer", [label |-> label, duration_ms |-> "int", remaining_ms |-> "int",
                   state |-> "running", mode |-> "countdown"], NoRef)>>
StartTimer   == {Timer("text")}
GetTime      == {Panel("time_panel")}
NotesPanel   == Panel("notes_panel")
TakeNote     == {AskBack, NotesPanel}
ListNotes    == {NotesPanel}
SetReminder  == {AskBack, Panel(NoRef)}
ShowText     == {Panel("info_panel")}
OpenWidget   == {<<Show(w, <<>>, NoRef)>> : w \in Opened}
ReadText     == {Panel("ocr_panel")}

FaultyTranslation(mode) == <<Show("translator", [source_lang |-> "text", target_lang |-> "text", source_text |-> "text",
                                                 translated_text |-> "text", mode |-> mode], "live_caption")>>
Translation(mode) == <<Show("translator", [source_lang |-> "text", target_lang |-> "text", source_text |-> "text",
                                           translated_text |-> "text", mode |-> mode], "translator")>>
TranslateText == {AskBack, Translation("text")}
TranslateView == {Translation("sign")}

FaultyCaption == <<Show("live_caption", [text |-> "text", speaker |-> "other"], "live_caption")>>
Caption       == <<Show("live_caption", [lines |-> "arr", speaker |-> "other"], "live_caption")>>
IdentifySound == {<<>>, Caption}

WebSearch   == {AskBack, <<Show("web_panel", [url |-> "text", title |-> "text"], "web_panel")>>}
GetNews     == {<<Show("news_feed", [title |-> "text", category |-> "text", articles |-> "arr"], "news_feed")>>}
GetStocks   == {<<Show("stocks_ticker", [title |-> "text", symbols |-> "arr"], "stocks")>>}
GetCalendar == {<<Show("calendar", [title |-> "text", view |-> "agenda", events |-> "arr"], "calendar")>>}
NavigateTo  == {AskBack, <<Show("navigation_arrow", [target_label |-> "text", direction |-> "arr",
                                                     distance_m |-> "num", eta_min |-> "num"], "nav_arrow")>>}
Measure     == {<<Show("measuring_tape", [points |-> "arr", distance_m |-> "num", label |-> "text",
                                          unit |-> "m", mode |-> "distance"], "measure")>>}

\* The props a language model may give: what the schema asks for, one of them missing,
\* of the wrong type, or one more.
Given(w) ==
  LET spec == Catalog(registry)[w]
      least == [k \in spec.required |-> CHOOSE v \in spec.props[k] : TRUE]
  IN  {least, Updated(least, [extra |-> "text"])}
      \cup {[j \in spec.required \ {k} |-> least[j]] : k \in spec.required}
      \cup {[least EXCEPT ![k] = "wrong"] : k \in spec.required}

ShowWidget == UNION {{<<Show(w, props, w)>> : props \in Given(w)} : w \in Opened}

\* The title and body of a panel, and the label of a timer, are the arguments as they
\* are; so are the props of a widget that is opened.
WrongPanel == {<<Show("panel", [title |-> "wrong", body |-> "text"], "info_panel")>>,
               <<Show("panel", [title |-> "text", body |-> "wrong"], "info_panel")>>}
OpenGiven  == UNION {{<<Show(w, props, NoRef)>> : props \in Given(w)} : w \in Opened}

\* What else the arguments of a language model make a tool ask for; the other tools
\* convert them, or fail.
PassesOn == {"start_timer", "show_text", "show_panel", "open_widget", "show_widget"}
Willed(t) ==
  CASE t = "start_timer" -> {Timer("wrong")}
    [] t \in {"show_text", "show_panel"} -> WrongPanel
    [] t = "open_widget" -> OpenGiven
    [] OTHER             -> {}

\* What a tool may ask to show.
Plain(t) ==
  CASE t = "get_weather"    -> GetWeather
    [] t = "start_timer"    -> StartTimer
    [] t = "get_time"       -> GetTime
    [] t = "list_notes"     -> ListNotes
    [] t = "take_note"      -> TakeNote
    [] t = "set_reminder"   -> SetReminder
    [] t \in {"show_text", "show_panel"} -> ShowText
    [] t = "open_widget"    -> OpenWidget
    [] t = "show_widget"    -> ShowWidget
    [] t = "read_text"      -> ReadText
    [] t = "translate_text" -> TranslateText
    [] t = "translate_view" -> TranslateView
    [] t = "identify_sound" -> IdentifySound
    [] t = "web_search"     -> WebSearch
    [] t = "get_news"       -> GetNews
    [] t = "get_stocks"     -> GetStocks
    [] t = "get_calendar"   -> GetCalendar
    [] t = "navigate_to"    -> NavigateTo
    [] t = "measure"        -> Measure
PlainTools == {"get_weather", "start_timer", "get_time", "list_notes", "take_note", "set_reminder", "show_text",
  "show_panel", "open_widget", "show_widget", "read_text", "translate_text", "translate_view", "identify_sound", "web_search",
  "get_news", "get_stocks", "get_calendar", "navigate_to", "measure"}

\* scene_objects: what was detected, or the canned scene.
Thing(label, at) == [label |-> label, at |-> at]
Canned == <<Thing("mug", "desk"), Thing("laptop", "desk")>>
Scene == IF sees = <<>> THEN Canned ELSE sees

\* _annotation_transform and the annotation of an object.
Spot(thing) == IF thing.at = "nowhere" THEN "head" ELSE thing.at
Marker(thing, detail) ==
  Place("vision_annotation", Updated([label |-> thing.label], detail), NoRef, Spot(thing))
Seen(thing) == Marker(thing, [confidence |-> "num"])
Annotation(thing) == [label |-> thing.label, at |-> Spot(thing)]

\* _remember_seen; EpisodicMemory.remember_object: a later place replaces the earlier one.
Remembered(things) ==
  FoldLeft(LAMBDA index, thing : [index EXCEPT ![thing.label] = thing.at], spatial, things)

\* EpisodicMemory.recall_object: the name itself, or else one like it.
Recalled(name) ==
  IF spatial[name] # "never" THEN {name}
  ELSE {n \in Labels : spatial[n] # "never" /\ {n, name} \in Alike}

\* _find_object of what was recalled.
FindDirectives(thing) ==
  IF thing.at = "nowhere" THEN <<>>
  ELSE <<Marker(thing, [detail |-> "text"]),
         Place("navigation_arrow", [target_label |-> thing.label, direction |-> "arr", distance_m |-> "num"], NoRef, "head")>>

(***************************************************************************)
(* The steps.                                                              *)
(***************************************************************************)

\* A turn that planned its calls; it holds the lock until none is pending.
Turn(calls, by) ==
  /\ pending = <<>>
  /\ pending' = calls
  /\ caller' = by
  /\ observation' = <<>>
  /\ refused' = "none"

Hear(I) == Turn(PlannedCalls(I), "planner") /\ UNCHANGED <<registry, desk, lastTimer, sees, spatial>>

\* The same through a language model, which may call any tool.
AnyTool == "any"
ModelCalls == Turn(<<AnyTool>>, "model") /\ UNCHANGED <<registry, desk, lastTimer, sees, spatial>>

\* client.barge_in: the calls that are left are not made.
Cut ==
  /\ pending # <<>>
  /\ pending' = <<>>
  /\ observation' = <<>>
  /\ refused' = "none"
  /\ UNCHANGED <<registry, desk, lastTimer, sees, spatial, caller>>

\* The directives and the observation of one tool call; a tool that does not suspend and
\* the directives it returns are one step.
Render(t, directives, annotations) ==
  LET st == Applied(directives) IN
  /\ Len(st.objects) <= MaxObjects
  /\ objects' = st.objects
  /\ refs' = st.refs
  /\ observation' = Annotated(annotations, st)
  /\ refused' = IF st.refused THEN t ELSE "none"

\* The specialists of a crew make their calls in any order, a single agent in that of the plan.
Calls(t) == \E call \in Range(pending) \cap {t, AnyTool} : pending' = Remove(pending, call)

\* A timer that is refused is the last one all the same, and leads nowhere.
CallPlain(t) ==
  /\ Calls(t)
  /\ \E directives \in Plain(t) \cup (IF caller = "model" THEN Willed(t) ELSE {}) :
       Render(t, directives, <<>>)
  /\ lastTimer' = CASE t # "start_timer" -> lastTimer
                    [] refused' = t      -> NoId
                    [] OTHER             -> Len(objects) + 1
  /\ UNCHANGED <<registry, sees, spatial, caller>>

\* _stop_timer: DestroyDirective of the last timer started, or of one that a model names.
StopTimer ==
  /\ Calls("stop_timer")
  /\ \/ \E o \in Ids :
          /\ Live(o) /\ objects[o].widget = "timer"
          /\ o = lastTimer \/ caller = "model"
          /\ Untrack(o)
          /\ lastTimer' = IF lastTimer = o THEN NoId ELSE lastTimer
     \/ /\ ~Live(lastTimer)
        /\ UNCHANGED <<desk, lastTimer>>
  /\ observation' = <<>>
  /\ refused' = "none"
  /\ UNCHANGED <<registry, sees, spatial, caller>>

DescribeView ==
  /\ Calls("describe_view")
  /\ Render("describe_view", [i \in DOMAIN Scene |-> Seen(Scene[i])], [i \in DOMAIN Scene |-> Annotation(Scene[i])])
  /\ spatial' = Remembered(Scene)
  /\ UNCHANGED <<registry, lastTimer, sees, caller>>

\* _identify_object of the focus_object: where the gaze rests, else the first.
IdentifyObject ==
  /\ Calls("identify_object")
  /\ \E i \in DOMAIN Scene :
       /\ Render("identify_object", <<Seen(Scene[i])>>, <<Annotation(Scene[i])>>)
       /\ spatial' = Remembered(<<Scene[i]>>)
  /\ UNCHANGED <<registry, lastTimer, sees, caller>>

\* _remember_object at the gaze, or where the focus_object is.
RememberObject ==
  /\ Calls("remember_object")
  /\ \E name \in Labels, at \in Places \cup {Scene[i].at : i \in DOMAIN Scene} :
       /\ Render("remember_object",
                 IF at = "nowhere" THEN <<>> ELSE <<Marker(Thing(name, at), [detail |-> "text"])>>, <<>>)
       /\ spatial' = Remembered(<<Thing(name, at)>>)
  /\ UNCHANGED <<registry, lastTimer, sees, caller>>

FindObject ==
  /\ Calls("find_object")
  /\ \E name \in Labels :
       \/ /\ Recalled(name) = {}
          /\ Render("find_object", <<>>, <<>>)
       \/ \E found \in Recalled(name) :
            LET thing == Thing(found, spatial[found]) IN
            Render("find_object", FindDirectives(thing),
                   IF thing.at = "nowhere" THEN <<>> ELSE <<Annotation(thing)>>)
  /\ UNCHANGED <<registry, lastTimer, sees, spatial, caller>>

\* handle_audio_event of a notable sound when Jarvis is proactive: at any time.
HearSound ==
  /\ Render("none", Caption, <<>>)
  /\ UNCHANGED <<registry, lastTimer, pending, sees, spatial, caller>>

\* ingest_scene_objects: what has a place is remembered at once.
Detect(things) ==
  /\ sees' = things
  /\ spatial' = Remembered(SelectSeq(things, LAMBDA thing : thing.at # "nowhere"))
  /\ observation' = <<>>
  /\ refused' = "none"
  /\ UNCHANGED <<registry, desk, lastTimer, pending, caller>>

(***************************************************************************)
(* Touches: client.interaction, a turn of its own.                         *)
(***************************************************************************)

PanelLike == {"panel", "weather_orb", "vision_annotation", "live_caption", "scene_label", "bounding_box_3d",
              "vision_feed", "translator"}

Quiet ==
  pending = <<>> /\ observation' = <<>> /\ refused' = "none" /\ UNCHANGED <<registry, sees, spatial, caller>>

\* What a handler closes: the timer by its cancel element, a panel by close or dismiss.
TouchClose(o) ==
  /\ Live(o) /\ objects[o].widget \in PanelLike \cup {"timer"}
  /\ Untrack(o)
  /\ Quiet /\ UNCHANGED <<pending, lastTimer>>

FaultyNextState(o) == IF objects[o].widget = "timer" THEN "resumed" ELSE "playing"
NextState(o) ==
  LET props == objects[o].props
      now   == IF "state" \in DOMAIN props THEN props["state"] ELSE "none"
  IN  IF objects[o].widget = "timer"
        THEN IF now = "running" THEN "paused" ELSE "running"
        ELSE IF now = "playing" THEN "paused" ELSE "playing"

\* _interact_timer, pausing or resuming, and _interact_media.
TouchToggle(o) ==
  /\ Live(o) /\ objects[o].widget \in {"timer", "media_player"}
  /\ UpdateProps(o, IF objects[o].widget = "timer" THEN [state |-> NextState(o), remaining_ms |-> "int"]
                    ELSE [state |-> NextState(o)])
  /\ Quiet /\ UNCHANGED <<pending, refs, lastTimer>>

\* Any other touch becomes the request "I just taped the <widget> hologram."
Words(w) ==
  CASE w = "weather_orb" -> {"weather"}
    [] w = "timer"       -> {"timer"}
    [] w = "calendar"    -> {"calendar"}
    [] OTHER             -> {}

TouchOther(o) ==
  /\ o \in DOMAIN objects
  /\ Live(o) => objects[o].widget \notin {"timer", "media_player"}
  /\ Hear(Words(objects[o].widget))

Placed == {Thing(n, p) : n \in Labels, p \in Places}
Scenes == {<<>>} \cup {<<Thing(n, "nowhere")>> : n \in Labels}
          \cup {s \in Placed \X Placed : s[1] # s[2]}

Next ==
  \/ \E I \in Texts : Hear(I)
  \/ ModelCalls
  \/ Cut
  \/ \E t \in PlainTools : CallPlain(t)
  \/ StopTimer
  \/ DescribeView \/ IdentifyObject \/ RememberObject \/ FindObject
  \/ HearSound
  \/ \E things \in Scenes : Detect(things)
  \/ \E o \in Ids : TouchClose(o) \/ TouchToggle(o) \/ TouchOther(o)

Spec == Init /\ [][Next]_vars

(***************************************************************************)
(* Properties.                                                             *)
(***************************************************************************)

\* Typing; a ref leads to a hologram that is live.
TypeOK ==
  /\ Len(objects) <= MaxObjects
  /\ \A o \in DOMAIN objects : objects[o].widget \in Widgets /\ objects[o].live \in BOOLEAN
  /\ \A r \in DOMAIN refs : Live(refs[r])
  /\ lastTimer \in {NoId} \cup Ids

\* Only spawns are checked against the catalog; updates of a hologram, by a tool that shows
\* its widget again under the same ref or by a touch, are not, and the catalog comes from
\* one of two files.  Still no sequence of requests, tools and touches gives a hologram
\* props its widget does not have.
HologramsConform ==
  \A o \in Ids : Live(o) => Conforms(registry, objects[o].widget, objects[o].props)

\* A tool has said what it shows before the catalog is asked.  With either catalog and
\* whatever ways the tools go, refused is only what comes from outside and is passed on
\* as it is: an argument of a language model, a widget opened by its name without the
\* props it requires, a word of the weather's source that the catalog does not know.
\* What a tool composes itself is never refused.
OnlyTheAskedForIsRefused ==
  \/ refused = "none"
  \/ refused \in PassesOn /\ caller = "model"
  \/ refused \in {"open_widget", "show_widget"}
  \/ refused = "get_weather" /\ \E word \in Feed : word \notin Weathers

(***************************************************************************)
(* What a doc says and the code does not do.                               *)
(***************************************************************************)

\* The annotations of an observation "map directly onto" the holograms that realize
\* them (HOLO_TOOLS.md): the one an annotation names is the one at its place.
AnnotationsMatch ==
  \A i \in DOMAIN observation :
    LET a == observation[i] IN
    Live(a.target) => /\ objects[a.target].props["label"] = a.label
                      /\ objects[a.target].at = a.at
================================================================================
