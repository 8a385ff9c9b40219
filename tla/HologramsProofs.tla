---------------------------- MODULE HologramsProofs ----------------------------
(***************************************************************************)
(* Holograms for every number of holograms, sessions and messages on the   *)
(* way, and every choice of widgets: the headset will show what the        *)
(* session has, and the refs and timers of the session agree with it.      *)
(***************************************************************************)
EXTENDS Holograms, SequenceTheorems, WellFoundedInduction, TLAPS

(***************************************************************************)
(* Induction: a set of naturals has a least member.                        *)
(***************************************************************************)

LEMMA Least ==
  ASSUME NEW T \in SUBSET Nat, T # {}
  PROVE  \E n \in T : \A m \in T : n <= m
<1> DEFINE Less == OpToRel(<, Nat)
<1>1. IsWellFoundedOn(Less, Nat)
  BY NatLessThanWellFounded
<1>2. \A m, n \in Nat : m < n => <<m, n>> \in Less
  BY DEF OpToRel
<1> HIDE DEF Less
<1>3. PICK n \in T : \A m \in T : <<m, n>> \notin Less
  BY <1>1, WFMin
<1>4. n \in Nat /\ \A m \in T : m \in Nat /\ ~(m < n)
  BY <1>2, <1>3
<1> QED
  BY <1>4

\* What holds at 0 and is kept by every step up to N holds up to N.
LEMMA UpTo ==
  ASSUME NEW N \in Nat, NEW S, 0 \in S, \A n \in 1..N : n - 1 \in S => n \in S
  PROVE  0..N \subseteq S
<1> DEFINE T == 0..N \ S
<1> SUFFICES ASSUME T # {} PROVE FALSE
  OBVIOUS
<1>1. T \in SUBSET Nat
  OBVIOUS
<1> HIDE DEF T
<1>2. PICK n \in T : \A m \in T : n <= m
  BY <1>1, Least
<1> USE DEF T
<1>3. n \in 1..N /\ n - 1 \in 0..N
  BY <1>2
<1>4. n - 1 \in S
  BY <1>2, <1>3
<1> QED
  BY <1>2, <1>3, <1>4

(***************************************************************************)
(* What the messages on the way do to what the headset shows.              *)
(***************************************************************************)

AnyLook  == AllLooks \cup {"none"}
Messages == [op : {"spawn", "update", "destroy"}, id : Ids, look : AnyLook]
Views    == [Ids -> AnyLook]

LEMMA AppliedTo ==
  ASSUME NEW view \in Views, NEW m \in Messages
  PROVE  /\ Applied(view, m) \in Views
         /\ \A o \in Ids : Applied(view, m)[o] =
              IF o = m.id /\ (m.op = "spawn" \/ view[o] # "none") THEN m.look ELSE view[o]
BY DEF Applied, Views, Messages

\* A step of the definition, over the first n messages.
Unfolds(view, messages, f, n) ==
  f = [k \in 0..n |-> IF k = 0 THEN view ELSE Applied(f[k - 1], messages[k])]

LEMMA ArrivalsUnfold ==
  ASSUME NEW view, NEW messages, Len(messages) \in Nat
  PROVE  Unfolds(view, messages, Arrivals(view, messages), Len(messages))
<1> DEFINE N == Len(messages)
           S == {n \in 0..N : \E f : Unfolds(view, messages, f, n)}
<1>1. 0 \in S
  <2>1. Unfolds(view, messages, [k \in 0..0 |-> view], 0)
    BY DEF Unfolds
  <2> QED
    BY <2>1
<1>2. ASSUME NEW n \in 1..N, n - 1 \in S
      PROVE  n \in S
  <2>1. PICK f : Unfolds(view, messages, f, n - 1)
    BY <1>2
  <2> DEFINE g == [k \in 0..n |-> IF k = n THEN Applied(f[n - 1], messages[n]) ELSE f[k]]
  <2>2. \A k \in 0..n : g[k] = IF k = 0 THEN view ELSE Applied(g[k - 1], messages[k])
    <3>1. ASSUME NEW k \in 0..(n - 1)
          PROVE  g[k] = f[k] /\ f[k] = IF k = 0 THEN view ELSE Applied(f[k - 1], messages[k])
      BY <2>1, <3>1 DEF Unfolds
    <3>2. g[n] = Applied(f[n - 1], messages[n]) /\ g[n - 1] = f[n - 1]
      OBVIOUS
    <3>3. ASSUME NEW k \in 1..(n - 1) PROVE g[k - 1] = f[k - 1]
      OBVIOUS
    <3> HIDE DEF g
    <3>4. ASSUME NEW k \in 0..n
          PROVE  g[k] = IF k = 0 THEN view ELSE Applied(g[k - 1], messages[k])
      <4>1. CASE k = n
        BY <3>2, <4>1
      <4>2. CASE k = 0
        BY <3>1, <4>2
      <4>3. CASE k \in 1..(n - 1)
        BY <3>1, <3>3, <4>3
      <4> QED
        BY <4>1, <4>2, <4>3
    <3> QED
      BY <3>4
  <2>3. Unfolds(view, messages, g, n)
    <3>1. g = [k \in 0..n |-> g[k]]
      OBVIOUS
    <3> HIDE DEF g
    <3> QED
      BY <2>2, <3>1 DEF Unfolds
  <2> QED
    BY <2>3
<1> HIDE DEF S
<1>3. 0..N \subseteq S
  BY <1>1, <1>2, UpTo
<1>4. \E f : Unfolds(view, messages, f, N)
  BY <1>3 DEF S
<1>5. Arrivals(view, messages) = CHOOSE f : Unfolds(view, messages, f, N)
  BY DEF Arrivals, Unfolds
<1> QED
  BY <1>4, <1>5

LEMMA ArrivalsFacts ==
  ASSUME NEW view \in Views, NEW messages \in Seq(Messages)
  PROVE  /\ Arrivals(view, messages)[0] = view
         /\ \A n \in 1..Len(messages) :
              Arrivals(view, messages)[n] = Applied(Arrivals(view, messages)[n - 1], messages[n])
         /\ \A n \in 0..Len(messages) : Arrivals(view, messages)[n] \in Views
<1> DEFINE N == Len(messages)
           V == Arrivals(view, messages)
           S == {n \in 0..N : V[n] \in Views}
<1>1. N \in Nat /\ \A n \in 1..N : messages[n] \in Messages
  OBVIOUS
<1>2. Unfolds(view, messages, V, N)
  BY <1>1, ArrivalsUnfold
<1> HIDE DEF N, V
<1>3. V[0] = view /\ \A n \in 1..N : V[n] = Applied(V[n - 1], messages[n])
  BY <1>1, <1>2 DEF Unfolds
<1>4. \A n \in 1..N : n - 1 \in S => n \in S
  BY <1>1, <1>3, AppliedTo
<1>5. 0 \in S
  BY <1>1, <1>3
<1> HIDE DEF S
<1>6. 0..N \subseteq S
  BY <1>1, <1>4, <1>5, UpTo
<1> QED
  BY <1>3, <1>6 DEF S, N, V

\* One more message is applied last.
LEMMA ArrivalsAppend ==
  ASSUME NEW view \in Views, NEW messages \in Seq(Messages), NEW m \in Messages
  PROVE  /\ \A n \in 0..Len(messages) :
              Arrivals(view, Append(messages, m))[n] = Arrivals(view, messages)[n]
         /\ Arrivals(view, Append(messages, m))[Len(messages) + 1] =
              Applied(Arrivals(view, messages)[Len(messages)], m)
<1> DEFINE N == Len(messages)
           more == Append(messages, m)
           V == Arrivals(view, messages)
           W == Arrivals(view, more)
           S == {n \in 0..N : W[n] = V[n]}
<1>1. /\ N \in Nat
      /\ more \in Seq(Messages) /\ Len(more) = N + 1
      /\ \A n \in 1..N : more[n] = messages[n]
      /\ more[N + 1] = m
  OBVIOUS
<1>2. V[0] = view /\ \A n \in 1..N : V[n] = Applied(V[n - 1], messages[n])
  BY ArrivalsFacts
<1> HIDE DEF more
<1>3. W[0] = view /\ \A n \in 1..(N + 1) : W[n] = Applied(W[n - 1], more[n])
  BY <1>1, ArrivalsFacts
<1> HIDE DEF N, V, W
<1>4. 0 \in S /\ \A n \in 1..N : n - 1 \in S => n \in S
  BY <1>1, <1>2, <1>3
<1> HIDE DEF S
<1>5. 0..N \subseteq S
  BY <1>1, <1>4, UpTo
<1>6. W[N] = V[N]
  BY <1>1, <1>5 DEF S
<1>7. N + 1 \in 1..(N + 1) /\ (N + 1) - 1 = N
  BY <1>1
<1>8. W[N + 1] = Applied(V[N], m)
  BY <1>1, <1>3, <1>6, <1>7
<1> QED
  BY <1>5, <1>8 DEF S, N, V, W, more

\* The first message is applied first.
LEMMA ArrivalsTail ==
  ASSUME NEW view \in Views, NEW messages \in Seq(Messages), messages # <<>>
  PROVE  \A n \in 0..(Len(messages) - 1) :
           Arrivals(Applied(view, Head(messages)), Tail(messages))[n] =
             Arrivals(view, messages)[n + 1]
<1> DEFINE N == Len(messages) - 1
           V == Arrivals(view, messages)
           next == Applied(view, Head(messages))
           rest == Tail(messages)
           W == Arrivals(next, rest)
           S == {n \in 0..N : W[n] = V[n + 1]}
<1>1. /\ N \in Nat
      /\ rest \in Seq(Messages) /\ Len(rest) = N
      /\ \A n \in 1..N : rest[n] = messages[n + 1]
      /\ Head(messages) = messages[1] /\ Head(messages) \in Messages
  OBVIOUS
<1>2. V[0] = view /\ \A n \in 1..(N + 1) : V[n] = Applied(V[n - 1], messages[n])
  BY ArrivalsFacts
<1>3. next \in Views
  BY <1>1, AppliedTo
<1>4. V[1] = next
  BY <1>1, <1>2
<1> HIDE DEF next, rest
<1>5. W[0] = next /\ \A n \in 1..N : W[n] = Applied(W[n - 1], rest[n])
  BY <1>1, <1>3, ArrivalsFacts
<1> HIDE DEF N, V, W
<1>6. \A n \in 1..N : V[n + 1] = Applied(V[n], messages[n + 1])
  <2> TAKE n \in 1..N
  <2>1. n + 1 \in 1..(N + 1) /\ (n + 1) - 1 = n
    BY <1>1
  <2> QED
    BY <1>2, <2>1
<1>7. 0 \in S
  BY <1>1, <1>5, <1>4
<1>8. ASSUME NEW n \in 1..N, n - 1 \in S
      PROVE  n \in S
  <2>1. W[n - 1] = V[n]
    BY <1>8
  <2> QED
    BY <1>1, <1>5, <1>6, <2>1
<1> HIDE DEF S
<1>9. 0..N \subseteq S
  BY <1>1, <1>7, <1>8, UpTo
<1> QED
  BY <1>9 DEF S, N, V, W, next, rest

\* A view changed behind the session's back: where it showed something it still does,
\* where it was not changed or a message has come it is as it would have been.
LEMMA ArrivalsRestored ==
  ASSUME NEW view \in Views, NEW other \in Views, NEW messages \in Seq(Messages),
         \A o \in Ids : view[o] # "none" => other[o] # "none",
         \A n \in 1..Len(messages) :
           /\ messages[n].op = "update" =>
                Arrivals(view, messages)[n - 1][messages[n].id] # "none"
           /\ messages[n].op = "destroy" => messages[n].look = "none"
  PROVE  \A n \in 0..Len(messages), o \in Ids :
           /\ Arrivals(view, messages)[n][o] # "none" => Arrivals(other, messages)[n][o] # "none"
           /\ view[o] = other[o] \/ (\E k \in 1..n : messages[k].id = o)
                => Arrivals(other, messages)[n][o] = Arrivals(view, messages)[n][o]
<1> DEFINE N == Len(messages)
           V == Arrivals(view, messages)
           W == Arrivals(other, messages)
           Kept(n, o) == V[n][o] # "none" => W[n][o] # "none"
           Same(n, o) == view[o] = other[o] \/ (\E k \in 1..n : messages[k].id = o)
                           => W[n][o] = V[n][o]
           S == {n \in 0..N : \A o \in Ids : Kept(n, o) /\ Same(n, o)}
<1>1. N \in Nat /\ \A n \in 1..N : messages[n] \in Messages
  OBVIOUS
<1>2. /\ V[0] = view /\ \A n \in 1..N : V[n] = Applied(V[n - 1], messages[n])
      /\ \A n \in 0..N : V[n] \in Views
  BY ArrivalsFacts
<1>3. /\ W[0] = other /\ \A n \in 1..N : W[n] = Applied(W[n - 1], messages[n])
      /\ \A n \in 0..N : W[n] \in Views
  BY ArrivalsFacts
<1>4. \A n \in 1..N : /\ messages[n].op = "update" => V[n - 1][messages[n].id] # "none"
                      /\ messages[n].op = "destroy" => messages[n].look = "none"
  OBVIOUS
<1> HIDE DEF N, V, W
<1>5. 0 \in S
  BY <1>1, <1>2, <1>3
<1>6. ASSUME NEW n \in 1..N, n - 1 \in S
      PROVE  n \in S
  <2> DEFINE m == messages[n]
  <2>1. n - 1 \in 0..N /\ m \in Messages /\ V[n - 1] \in Views /\ W[n - 1] \in Views
    BY <1>1, <1>2, <1>3
  <2>2. \A o \in Ids :
          /\ V[n][o] = IF o = m.id /\ (m.op = "spawn" \/ V[n - 1][o] # "none")
                       THEN m.look ELSE V[n - 1][o]
          /\ W[n][o] = IF o = m.id /\ (m.op = "spawn" \/ W[n - 1][o] # "none")
                       THEN m.look ELSE W[n - 1][o]
    <3>1. V[n] = Applied(V[n - 1], m) /\ W[n] = Applied(W[n - 1], m)
      BY <1>2, <1>3
    <3> HIDE DEF m
    <3> QED
      BY <2>1, <3>1, AppliedTo
  <2>3. /\ m.op \in {"spawn", "update", "destroy"}
        /\ m.op = "update" => V[n - 1][m.id] # "none"
        /\ m.op = "destroy" => m.look = "none"
    BY <1>4, <2>1 DEF Messages
  <2>4. \A o \in Ids : Kept(n - 1, o) /\ Same(n - 1, o)
    BY <1>6
  <2> HIDE DEF m
  <2>5. ASSUME NEW o \in Ids
        PROVE  Kept(n, o) /\ Same(n, o)
    <3>1. CASE o = m.id
      BY <2>2, <2>3, <2>4, <3>1
    <3>2. CASE o # m.id
      <4>1. V[n][o] = V[n - 1][o] /\ W[n][o] = W[n - 1][o]
        BY <2>2, <3>2
      <4>2. (\E k \in 1..n : messages[k].id = o) => \E k \in 1..(n - 1) : messages[k].id = o
        BY <1>1, <3>2 DEF m
      <4> QED
        BY <2>4, <4>1, <4>2
    <3> QED
      BY <3>1, <3>2
  <2> QED
    BY <2>5
<1> HIDE DEF S
<1>7. 0..N \subseteq S
  BY <1>1, <1>5, <1>6, UpTo
<1> QED
  BY <1>7 DEF S, N, V, W

(***************************************************************************)
(* Types.                                                                  *)
(***************************************************************************)

LEMMA TypeInit == Init => TypeOK
<1> SUFFICES ASSUME Init PROVE TypeOK
  OBVIOUS
<1>1. 1 \in 1..MaxSessions
  BY HologramsAssumption
<1> QED
  BY <1>1 DEF Init, TypeOK, Nothing

LEMMA LooksOfWidgets ==
  /\ "none" \notin AllLooks
  /\ \A w \in Widgets : w # "none" /\ Starts(w) \subseteq AllLooks
  /\ "timer" \in Widgets => {"running", "paused"} \subseteq AllLooks
  /\ "media" \in Widgets => {"playing", "paused"} \subseteq AllLooks
<1>1. \A w \in Widgets : w \in {"panel", "media", "timer"}
  BY HologramsAssumption
<1>2. \A w \in Widgets : Looks(w) \subseteq AllLooks
  BY DEF AllLooks
<1>3. "none" \notin Contents
  BY HologramsAssumption
<1>4. \A w \in Widgets : "none" \notin Looks(w) /\ Starts(w) \subseteq Looks(w)
  BY <1>1, <1>3 DEF Looks, Starts
<1>5. "none" \notin AllLooks
  BY <1>4 DEF AllLooks
<1>6. Looks("timer") = {"running", "paused"} /\ Looks("media") = {"playing", "paused"}
  BY DEF Looks, Starts
<1> QED
  BY <1>1, <1>2, <1>4, <1>5, <1>6

\* A message that the session emits: what it says of a hologram is so from now on.
Says(m) ==
  /\ m \in Messages
  /\ m.op = "destroy" <=> m.look = "none"
  /\ m.op = "update" => objects[m.id] # "none"
  /\ objects' = [objects EXCEPT ![m.id] = m.look]
  /\ down' = Append(down, m)

LEMMA TrackSays ==
  ASSUME TypeOK, NEW o \in Ids, NEW w \in Widgets, NEW look \in Starts(w), Track(o, w, look)
  PROVE  /\ Says(Msg("spawn", o, look))
         /\ widget' = [widget EXCEPT ![o] = w] /\ widget[o] = "none"
BY LooksOfWidgets DEF Track, Fresh, Says, Messages, Msg, Emit, AnyLook, TypeOK

LEMMA PatchSays ==
  ASSUME TypeOK, NEW o \in Ids, objects[o] # "none", NEW look \in AllLooks, Patch(o, look)
  PROVE  Says(Msg("update", o, look))
BY LooksOfWidgets DEF Patch, Says, Messages, Msg, Emit, AnyLook, TypeOK

LEMMA DestroySays ==
  ASSUME TypeOK, NEW o \in Ids, Destroy(o)
  PROVE  /\ Says(Msg("destroy", o, "none"))
         /\ refs' = [r \in Shared |-> IF refs[r] = o THEN NoId ELSE refs[r]]
         /\ timerRefs' = timerRefs \ {o}
BY DEF Destroy, Forget, Says, Messages, Msg, Emit, AnyLook, TypeOK

\* What the session's requests do, seen from its refs and timers.
Creates(o, w, look) ==
  /\ widget[o] = "none" /\ widget' = [widget EXCEPT ![o] = w]
  /\ Says(Msg("spawn", o, look))
  /\ \/ UNCHANGED refs
     \/ w \in Shared /\ refs' = [refs EXCEPT ![w] = o]
  /\ \/ UNCHANGED <<timerRefs, timers, lastTimer>>
     \/ /\ w = "timer" /\ look = "running"
        /\ timerRefs' = timerRefs \cup {o}
        /\ timers' = [timers EXCEPT ![o] = "running"]
        /\ lastTimer' = o

Changes(o, look) ==
  /\ objects[o] # "none"
  /\ Says(Msg("update", o, look))
  /\ UNCHANGED <<widget, refs, timerRefs, lastTimer>>
  /\ \/ widget[o] # "timer" /\ UNCHANGED timers
     \/ /\ widget[o] = "timer" /\ look \in {"running", "paused"}
        /\ timers' = IF o \in timerRefs THEN [timers EXCEPT ![o] = look] ELSE timers

Removes(o) ==
  /\ widget[o] # "none" /\ objects[o] # "none"
  /\ Says(Msg("destroy", o, "none"))
  /\ refs' = [r \in Shared |-> IF refs[r] = o THEN NoId ELSE refs[r]]
  /\ timerRefs' = timerRefs \ {o}
  /\ lastTimer' \in {lastTimer, NoId}
  /\ UNCHANGED widget
  /\ \/ widget[o] # "timer" /\ UNCHANGED timers
     \/ timers' = IF o \in timerRefs THEN [timers EXCEPT ![o] = "none"] ELSE timers

\* A timer whose spawn was refused has a record and nothing else, until it is stopped.
Refuses(o) ==
  /\ widget[o] = "none" /\ widget' = [widget EXCEPT ![o] = "refused"]
  /\ timers' = [timers EXCEPT ![o] = "running"] /\ lastTimer' = o
  /\ UNCHANGED <<objects, refs, timerRefs, down>>

Drops(o) ==
  /\ widget[o] = "refused" /\ o \notin timerRefs
  /\ timers' = [timers EXCEPT ![o] = "none"]
  /\ lastTimer' \in {lastTimer, NoId}
  /\ UNCHANGED <<widget, objects, refs, timerRefs, down>>

Requests ==
  /\ UNCHANGED <<link, session, shown, saved, restored, left>>
  /\ up' = up \/ (up # <<>> /\ up' = Tail(up))
  /\ \/ \E o \in Ids, w \in Widgets : \E look \in Starts(w) : Creates(o, w, look)
     \/ \E o \in Ids, look \in AllLooks : Changes(o, look)
     \/ \E o \in Ids : Removes(o)
     \/ \E o \in Ids : Refuses(o)
     \/ \E o \in Ids : Drops(o)
     \/ UNCHANGED <<widget, objects, refs, timerRefs, timers, lastTimer, down>>

LEMMA HeadOf ==
  ASSUME NEW S, NEW s \in Seq(S), s # <<>>
  PROVE  Head(s) \in S /\ Tail(s) \in Seq(S)
OBVIOUS

\* Only what was spawned is anywhere: the type of a widget is known when it is touched.
Known ==
  \A o \in Ids :
    /\ objects[o] # "none" \/ shown[o] # "none" \/ saved[o] # "none" => widget[o] \in Widgets
    /\ \A n \in 1..Len(down) : down[n].id = o => widget[o] \in Widgets

SessionOK == TypeOK /\ Known /\ RefsResolve /\ TimersMatchHolograms

LEMMA Requested ==
  ASSUME SessionOK,
         \/ \E r \in Shared : Show(r)
         \/ \E w \in Widgets : OpenWidget(w)
         \/ StartTimer
         \/ StopTimer
         \/ Interact
  PROVE  Requests
<1> USE DEF SessionOK
<1>1. ASSUME NEW r \in Shared, Show(r)
      PROVE  Requests
  <2>1. PICK look \in Starts(r) :
          \/ IsLive(r) /\ Patch(refs[r], look) /\ UNCHANGED <<widget, refs>>
          \/ ~IsLive(r) /\ \E o \in Ids : Track(o, r, look) /\ refs' = [refs EXCEPT ![r] = o]
    BY <1>1 DEF Show
  <2>2. /\ UNCHANGED <<timerRefs, timers, lastTimer, up, link, session, shown, saved,
                        restored, left>>
        /\ r \in Widgets /\ r # "timer" /\ look \in AllLooks
    BY <1>1, LooksOfWidgets DEF Show, Shared, linkVars, headsetVars, history
  <2>3. ASSUME IsLive(r), Patch(refs[r], look), UNCHANGED <<widget, refs>>
        PROVE  Requests
    <3>1. refs[r] \in Ids /\ objects[refs[r]] # "none" /\ widget[refs[r]] = r
      BY <2>3 DEF IsLive, RefsResolve, TypeOK
    <3>2. Says(Msg("update", refs[r], look))
      BY <2>2, <2>3, <3>1, PatchSays
    <3>3. Changes(refs[r], look)
      BY <2>2, <2>3, <3>1, <3>2 DEF Changes
    <3> QED
      BY <2>2, <3>1, <3>3 DEF Requests
  <2>4. ASSUME NEW o \in Ids, Track(o, r, look), refs' = [refs EXCEPT ![r] = o]
        PROVE  Requests
    <3>1. /\ Says(Msg("spawn", o, look))
          /\ widget' = [widget EXCEPT ![o] = r] /\ widget[o] = "none"
      BY <2>2, <2>4, TrackSays
    <3>2. Creates(o, r, look)
      BY <2>2, <2>4, <3>1 DEF Creates
    <3> QED
      BY <2>2, <3>2 DEF Requests
  <2> QED
    BY <2>1, <2>3, <2>4
<1>2. ASSUME NEW w \in Widgets, OpenWidget(w)
      PROVE  Requests
  <2>1. PICK o \in Ids, look \in Starts(w) : Track(o, w, look)
    BY <1>2 DEF OpenWidget
  <2>2. UNCHANGED <<refs, timerRefs, timers, lastTimer, up, link, session, shown, saved,
                    restored, left>>
    BY <1>2 DEF OpenWidget, linkVars, headsetVars, history
  <2>3. /\ Says(Msg("spawn", o, look))
        /\ widget' = [widget EXCEPT ![o] = w] /\ widget[o] = "none"
    BY <2>1, TrackSays
  <2>4. Creates(o, w, look)
    BY <2>2, <2>3 DEF Creates
  <2> QED
    BY <2>2, <2>4 DEF Requests
<1>3. ASSUME StartTimer
      PROVE  Requests
  <2>1. PICK o \in Ids : /\ timers' = [timers EXCEPT ![o] = "running"]
                         /\ lastTimer' = o
                         /\ \/ /\ Track(o, "timer", "running")
                               /\ timerRefs' = timerRefs \cup {o}
                            \/ Refuse(o)
    BY <1>3 DEF StartTimer
  <2>2. /\ UNCHANGED <<refs, up, link, session, shown, saved, restored, left>>
        /\ "timer" \in Widgets /\ "running" \in Starts("timer")
    BY <1>3 DEF StartTimer, linkVars, headsetVars, history, Starts
  <2>3. ASSUME Track(o, "timer", "running"), timerRefs' = timerRefs \cup {o}
        PROVE  Requests
    <3>1. /\ Says(Msg("spawn", o, "running"))
          /\ widget' = [widget EXCEPT ![o] = "timer"] /\ widget[o] = "none"
      BY <2>2, <2>3, TrackSays
    <3>2. Creates(o, "timer", "running")
      BY <2>1, <2>2, <2>3, <3>1 DEF Creates
    <3> QED
      BY <2>2, <3>2 DEF Requests
  <2>4. ASSUME Refuse(o)
        PROVE  Requests
    <3>1. Refuses(o)
      BY <2>1, <2>2, <2>4 DEF Refuses, Refuse, Fresh
    <3> QED
      BY <2>2, <3>1 DEF Requests
  <2> QED
    BY <2>1, <2>3, <2>4
<1>4. ASSUME StopTimer
      PROVE  Requests
  <2>1. PICK t : Active(t) /\ DropRecord(t) /\ DestroyRef(t)
                 /\ lastTimer' = IF lastTimer = t THEN NoId ELSE lastTimer
    BY <1>4 DEF StopTimer
  <2>2. UNCHANGED <<widget, up, link, session, shown, saved, restored, left>>
    BY <1>4 DEF StopTimer, linkVars, headsetVars, history
  <2>3. t \in Ids /\ (t \in timerRefs \/ widget[t] = "refused")
    BY <2>1 DEF Active, TimersMatchHolograms
  <2>4. CASE t \in timerRefs
    <3>1. widget[t] # "none" /\ objects[t] # "none"
      BY <2>4 DEF RefsResolve
    <3>2. Destroy(t)
      BY <2>1, <2>4 DEF DestroyRef
    <3>3. Removes(t)
      BY <2>1, <2>2, <2>3, <2>4, <3>1, <3>2, DestroySays DEF Removes, DropRecord
    <3> QED
      BY <2>2, <2>3, <3>3 DEF Requests
  <2>5. CASE t \notin timerRefs
    <3>1. Drops(t)
      BY <2>1, <2>2, <2>3, <2>5 DEF Drops, DropRecord, DestroyRef
    <3> QED
      BY <2>2, <2>3, <3>1 DEF Requests
  <2> QED
    BY <2>4, <2>5
<1>5. ASSUME Interact
      PROVE  Requests
  <2> DEFINE o == Head(up).id
             el == Head(up).element
  <2>1. /\ up # <<>> /\ up' = Tail(up)
        /\ UNCHANGED <<widget, lastTimer, link, session, shown, saved, restored, left>>
        /\ \/ Unhandled(o, el)
           \/ /\ objects[o] # "none"
              /\ \/ widget[o] = "timer" /\ InteractTimer(o, el)
                 \/ widget[o] = "media" /\ InteractMedia(o)
                 \/ widget[o] # "timer" /\ InteractPanel(o, el)
    BY <1>5 DEF Interact, linkVars, headsetVars, history
  <2>2. o \in Ids
    <3> DEFINE Touches == [id : Ids, element : UNION {Elements(w) : w \in Widgets}]
    <3>1. up \in Seq(Touches) /\ up # <<>>
      BY <2>1 DEF TypeOK
    <3>2. Head(up) \in Touches
      BY <3>1, HeadOf
    <3> QED
      BY <3>2
  <2> HIDE DEF o, el
  <2>3. ASSUME Unhandled(o, el) PROVE Requests
    BY <2>1, <2>3 DEF Requests, Unhandled
  <2>4. ASSUME objects[o] # "none", widget[o] = "timer", InteractTimer(o, el) PROVE Requests
    <3>0. {"running", "paused"} \subseteq AllLooks
      BY <2>2, <2>4, LooksOfWidgets DEF TypeOK
    <3>1. ASSUME CancelTimer(o) PROVE Requests
      <4>1. Removes(o)
        BY <2>1, <2>2, <2>4, <3>1, DestroySays DEF Removes, CancelTimer
      <4> QED
        BY <2>1, <2>2, <4>1 DEF Requests
    <3>2. ASSUME NEW state \in {"running", "paused"}, SetTimer(o, state) PROVE Requests
      <4>1. Changes(o, state)
        BY <2>1, <2>2, <2>4, <3>0, <3>2, PatchSays DEF Changes, SetTimer
      <4> QED
        BY <2>1, <2>2, <3>0, <4>1 DEF Requests
    <3> QED
      BY <2>4, <3>1, <3>2 DEF InteractTimer
  <2>5. ASSUME objects[o] # "none", widget[o] = "media", InteractMedia(o) PROVE Requests
    <3>1. PICK look \in {"playing", "paused"} :
            Patch(o, look) /\ UNCHANGED <<refs, timerRefs, timers>>
      BY <2>5 DEF InteractMedia
    <3>2. look \in AllLooks
      BY <2>2, <2>5, LooksOfWidgets DEF TypeOK
    <3>3. Changes(o, look)
      BY <2>1, <2>2, <2>5, <3>1, <3>2, PatchSays DEF Changes
    <3> QED
      BY <2>1, <2>2, <3>2, <3>3 DEF Requests
  <2>6. ASSUME objects[o] # "none", widget[o] # "timer", InteractPanel(o, el) PROVE Requests
    <3>1. Removes(o)
      BY <2>1, <2>2, <2>6, DestroySays, LooksOfWidgets DEF Removes, InteractPanel, Known
    <3> QED
      BY <2>1, <2>2, <3>1 DEF Requests
  <2> QED
    BY <2>1, <2>3, <2>4, <2>5, <2>6
<1> QED
  BY <1>1, <1>2, <1>3, <1>4, <1>5

LEMMA RequestTypes ==
  ASSUME TypeOK, Requests
  PROVE  TypeOK'
<1>1. /\ link' \in BOOLEAN /\ session' \in 1..MaxSessions
      /\ shown' \in [Ids -> AllLooks \cup {"none"}] /\ saved' \in [Ids -> AllLooks \cup {"none"}]
      /\ restored' \subseteq Ids /\ left' \subseteq Ids
  BY DEF TypeOK, Requests
<1>2. up' \in Seq([id : Ids, element : UNION {Elements(w) : w \in Widgets}])
  <2> DEFINE Touches == [id : Ids, element : UNION {Elements(w) : w \in Widgets}]
  <2>1. up \in Seq(Touches) /\ (up' = up \/ (up # <<>> /\ up' = Tail(up)))
    BY DEF TypeOK, Requests
  <2>2. up' \in Seq(Touches)
    BY <2>1, HeadOf
  <2> QED
    BY <2>2
<1>3. ASSUME NEW m, Says(m)
      PROVE  /\ objects' \in [Ids -> AllLooks \cup {"none"}]
             /\ down' \in Seq([op : {"spawn", "update", "destroy"}, id : Ids,
                               look : AllLooks \cup {"none"}])
  BY <1>3 DEF TypeOK, Says, Messages, AnyLook
<1>4. /\ objects' \in [Ids -> AllLooks \cup {"none"}]
      /\ down' \in Seq([op : {"spawn", "update", "destroy"}, id : Ids,
                        look : AllLooks \cup {"none"}])
  <2>1. (\E m : Says(m)) \/ UNCHANGED <<objects, down>>
    BY DEF Requests, Creates, Changes, Removes, Refuses, Drops
  <2> QED
    BY <1>3, <2>1 DEF TypeOK
<1>5. /\ widget' \in [Ids -> Widgets \cup {"none", "refused"}]
      /\ refs' \in [Shared -> Ids \cup {NoId}]
      /\ timerRefs' \subseteq Ids
      /\ timers' \in [Ids -> {"running", "paused", "none"}]
      /\ lastTimer' \in Ids \cup {NoId}
  <2>1. ASSUME NEW o \in Ids, NEW w \in Widgets, NEW look \in Starts(w), Creates(o, w, look)
        PROVE  <1>5
    <3>1. /\ timerRefs' \subseteq Ids
          /\ timers' \in [Ids -> {"running", "paused", "none"}]
          /\ lastTimer' \in Ids \cup {NoId}
      BY <2>1 DEF TypeOK, Creates
    <3>2. widget' \in [Ids -> Widgets \cup {"none", "refused"}]
      BY <2>1 DEF TypeOK, Creates
    <3>3. refs' \in [Shared -> Ids \cup {NoId}]
      <4>1. refs' = refs \/ (w \in Shared /\ refs' = [refs EXCEPT ![w] = o])
        BY <2>1 DEF Creates
      <4> QED
        BY <4>1 DEF TypeOK
    <3> QED
      BY <3>1, <3>2, <3>3
  <2>2. ASSUME NEW o \in Ids, NEW look \in AllLooks, Changes(o, look)
        PROVE  <1>5
    BY <2>2 DEF TypeOK, Changes
  <2>3. ASSUME NEW o \in Ids, Removes(o)
        PROVE  <1>5
    BY <2>3 DEF TypeOK, Removes
  <2>4. CASE UNCHANGED <<widget, objects, refs, timerRefs, timers, lastTimer, down>>
    BY <2>4 DEF TypeOK
  <2>5. ASSUME NEW o \in Ids, Refuses(o) \/ Drops(o)
        PROVE  <1>5
    BY <2>5 DEF TypeOK, Refuses, Drops
  <2> QED
    BY <2>1, <2>2, <2>3, <2>4, <2>5 DEF Requests
<1> QED
  BY <1>1, <1>2, <1>4, <1>5 DEF TypeOK

\* The headset's steps and the connection's leave the session's data alone, or drop all.
Elsewhere ==
  \/ Deliver
  \/ \E o \in Ids : Touch(o)
  \/ SaveLayout
  \/ RestoreLayout
  \/ Disconnect
  \/ Reconnect

LEMMA StepSplit ==
  ASSUME SessionOK, [Next]_vars
  PROVE  Requests \/ Elsewhere
<1>1. CASE UNCHANGED vars
  BY <1>1 DEF Requests, vars, serverVars, linkVars, headsetVars, history
<1>2. CASE \/ \E r \in Shared : Show(r)
           \/ \E w \in Widgets : OpenWidget(w)
           \/ StartTimer
           \/ StopTimer
           \/ Interact
  BY <1>2, Requested
<1> QED
  BY <1>1, <1>2 DEF Next, Elsewhere

LEMMA ElsewhereTypes ==
  ASSUME TypeOK, Known, Elsewhere
  PROVE  TypeOK'
<1>0. AnyLook = AllLooks \cup {"none"}
  BY DEF AnyLook
<1>1. CASE Deliver
  <2>1. down \in Seq(Messages) /\ down # <<>> /\ shown \in Views
    BY <1>1 DEF Deliver, TypeOK, Messages, Views, AnyLook
  <2>2. Head(down) \in Messages /\ Tail(down) \in Seq(Messages)
    BY <2>1, HeadOf
  <2>3. Applied(shown, Head(down)) \in Views
    BY <2>1, <2>2, AppliedTo
  <2>4. shown' \in Views /\ down' \in Seq(Messages) /\ restored' \subseteq Ids
    BY <1>1, <2>2, <2>3 DEF Deliver, TypeOK
  <2> QED
    BY <1>1, <2>4 DEF Deliver, TypeOK, Messages, Views, AnyLook, serverVars, linkVars
<1>2. ASSUME NEW o \in Ids, Touch(o)
      PROVE  TypeOK'
  <2> DEFINE Parts == UNION {Elements(w) : w \in Widgets}
             Touches == [id : Ids, element : Parts]
  <2>1. PICK el \in Elements(widget[o]) : up' = Append(up, Tapped(o, el))
    BY <1>2 DEF Touch
  <2>2. widget[o] \in Widgets
    BY <1>2 DEF Touch, TypeOK, Known
  <2>3. el \in Parts
    BY <2>1, <2>2
  <2>4. up \in Seq(Touches)
    BY DEF TypeOK
  <2> HIDE DEF Parts
  <2>5. up' \in Seq(Touches)
    BY <2>1, <2>3, <2>4 DEF Tapped
  <2> USE DEF Parts
  <2> QED
    BY <1>2, <2>5 DEF Touch, TypeOK, serverVars, linkVars, headsetVars, history
<1>3. CASE SaveLayout
  BY <1>3 DEF SaveLayout, TypeOK, serverVars, linkVars, headsetVars, history
<1>4. CASE RestoreLayout
  BY <1>4 DEF RestoreLayout, TypeOK, serverVars, linkVars, headsetVars, history
<1>5. CASE Disconnect
  <2>1. down' \in Seq(Messages) /\ up' \in Seq([id : Ids, element : UNION {Elements(w) : w \in Widgets}])
    BY <1>5 DEF Disconnect, LoseWires
  <2>2. objects' = Nothing /\ timers' = Nothing /\ Nothing \in [Ids -> {"none"}]
    BY <1>5 DEF Disconnect, Nothing
  <2> QED
    BY <1>5, <2>1, <2>2 DEF Disconnect, TypeOK, Messages, AnyLook, linkVars, headsetVars, history
<1>6. CASE Reconnect
  BY <1>6, HologramsAssumption
  DEF Reconnect, TypeOK, serverVars, linkVars, headsetVars, history
<1> QED
  BY <1>1, <1>2, <1>3, <1>4, <1>5, <1>6 DEF Elsewhere

(***************************************************************************)
(* The refs and the timers.                                                *)
(***************************************************************************)

LEMMA SessionInit == Init => SessionOK
<1> SUFFICES ASSUME Init PROVE SessionOK
  OBVIOUS
<1>1. TypeOK
  BY TypeInit
<1>2. \A o \in Ids : Nothing[o] = "none"
  BY DEF Nothing
<1>3. Known /\ TimersMatchHolograms
  BY <1>2 DEF Init, Known, TimersMatchHolograms
<1>4. RefsResolve
  BY DEF Init, RefsResolve
<1> QED
  BY <1>1, <1>3, <1>4 DEF SessionOK

LEMMA CreatesKeeps ==
  ASSUME SessionOK, NEW o \in Ids, NEW w \in Widgets, NEW look \in Starts(w),
         Creates(o, w, look), UNCHANGED <<shown, saved>>
  PROVE  Known' /\ RefsResolve' /\ TimersMatchHolograms'
<1>1. /\ widget[o] = "none" /\ widget' = [widget EXCEPT ![o] = w]
      /\ objects' = [objects EXCEPT ![o] = look]
      /\ down' = Append(down, Msg("spawn", o, look)) /\ Msg("spawn", o, look).id = o
  BY DEF Creates, Says, Msg
<1>2. /\ widget \in [Ids -> Widgets \cup {"none", "refused"}]
      /\ objects \in [Ids -> AllLooks \cup {"none"}]
      /\ timers \in [Ids -> {"running", "paused", "none"}]
      /\ refs \in [Shared -> Ids \cup {NoId}]
      /\ down \in Seq(Messages)
  BY DEF SessionOK, TypeOK, Messages, AnyLook
<1>3. look # "none" /\ w # "none"
  BY LooksOfWidgets
<1>4. objects[o] = "none" /\ o \notin timerRefs /\ \A r \in Shared : refs[r] # o
  <2>1. objects[o] = "none"
    BY <1>1, LooksOfWidgets DEF SessionOK, Known
  <2>2. ~ (o \in timerRefs)
    BY <2>1 DEF SessionOK, RefsResolve
  <2>3. \A r \in Shared : refs[r] # o
    BY <2>1 DEF SessionOK, RefsResolve, Ids, NoId
  <2> QED
    BY <2>1, <2>2, <2>3
<1>5. Known'
  BY <1>1, <1>2, <1>3 DEF SessionOK, Known
<1>6. RefsResolve'
  <2>1. ASSUME NEW r \in Shared, refs'[r] # NoId
        PROVE  objects'[refs'[r]] # "none" /\ widget'[refs'[r]] = r
    <3>1. refs' = refs \/ (w \in Shared /\ refs' = [refs EXCEPT ![w] = o])
      BY DEF Creates
    <3>2. refs'[r] = refs[r] \/ (refs'[r] = o /\ r = w)
      BY <1>2, <3>1
    <3>3. CASE refs'[r] = refs[r]
      BY <1>1, <1>2, <1>4, <2>1, <3>3 DEF SessionOK, RefsResolve
    <3>4. CASE refs'[r] = o /\ r = w
      BY <1>1, <1>2, <1>3, <3>4
    <3> QED
      BY <3>2, <3>3, <3>4
  <2>2. ASSUME NEW t \in timerRefs'
        PROVE  objects'[t] # "none" /\ widget'[t] = "timer"
    <3>1. t \in timerRefs \/ (t = o /\ w = "timer")
      BY <2>2 DEF Creates
    <3> QED
      BY <1>1, <1>2, <1>3, <1>4, <3>1 DEF SessionOK, RefsResolve, TypeOK
  <2> QED
    BY <2>1, <2>2 DEF RefsResolve
<1>7. TimersMatchHolograms'
  <2>1. timers[o] = "none"
    BY <1>1, <1>4 DEF SessionOK, TimersMatchHolograms
  <2>2. CASE UNCHANGED <<timerRefs, timers>>
    BY <1>1, <1>2, <1>4, <2>2 DEF SessionOK, TimersMatchHolograms
  <2>3. CASE /\ look = "running"
             /\ timerRefs' = timerRefs \cup {o} /\ timers' = [timers EXCEPT ![o] = "running"]
    BY <1>1, <1>2, <1>4, <2>3 DEF SessionOK, TimersMatchHolograms
  <2> QED
    BY <2>2, <2>3 DEF Creates
<1> QED
  BY <1>5, <1>6, <1>7

LEMMA ChangesKeeps ==
  ASSUME SessionOK, NEW o \in Ids, NEW look \in AllLooks,
         Changes(o, look), UNCHANGED <<shown, saved>>
  PROVE  Known' /\ RefsResolve' /\ TimersMatchHolograms'
<1>1. /\ objects[o] # "none"
      /\ objects' = [objects EXCEPT ![o] = look]
      /\ down' = Append(down, Msg("update", o, look)) /\ Msg("update", o, look).id = o
      /\ UNCHANGED <<widget, refs, timerRefs>>
  BY DEF Changes, Says, Msg
<1>2. /\ objects \in [Ids -> AllLooks \cup {"none"}]
      /\ timers \in [Ids -> {"running", "paused", "none"}]
      /\ refs \in [Shared -> Ids \cup {NoId}]
      /\ timerRefs \subseteq Ids
      /\ down \in Seq(Messages)
  BY DEF SessionOK, TypeOK, Messages, AnyLook
<1>3. look # "none"
  BY LooksOfWidgets
<1>5. Known'
  BY <1>1, <1>2 DEF SessionOK, Known
<1>6. RefsResolve'
  <2>1. ASSUME NEW p \in Ids PROVE objects[p] # "none" => objects'[p] # "none"
    BY <1>1, <1>2, <1>3
  <2> QED
    BY <1>1, <1>2, <2>1 DEF SessionOK, RefsResolve
<1>7. TimersMatchHolograms'
  <2>1. CASE o \in timerRefs
    <3>1. timers' = [timers EXCEPT ![o] = look]
      BY <2>1 DEF Changes, SessionOK, RefsResolve
    <3> QED
      BY <1>1, <1>2, <1>3, <2>1, <3>1 DEF SessionOK, TimersMatchHolograms
  <2>2. CASE o \notin timerRefs
    <3>1. timers' = timers
      BY <2>2 DEF Changes
    <3> QED
      BY <1>1, <1>2, <2>2, <3>1 DEF SessionOK, TimersMatchHolograms
  <2> QED
    BY <2>1, <2>2
<1> QED
  BY <1>5, <1>6, <1>7

LEMMA RemovesKeeps ==
  ASSUME SessionOK, NEW o \in Ids, Removes(o), UNCHANGED <<shown, saved>>
  PROVE  Known' /\ RefsResolve' /\ TimersMatchHolograms'
<1>1. /\ objects[o] # "none" /\ UNCHANGED widget
      /\ objects' = [objects EXCEPT ![o] = "none"]
      /\ down' = Append(down, Msg("destroy", o, "none")) /\ Msg("destroy", o, "none").id = o
      /\ refs' = [r \in Shared |-> IF refs[r] = o THEN NoId ELSE refs[r]]
      /\ timerRefs' = timerRefs \ {o}
  BY DEF Removes, Says, Msg
<1>2. /\ objects \in [Ids -> AllLooks \cup {"none"}]
      /\ timers \in [Ids -> {"running", "paused", "none"}]
      /\ refs \in [Shared -> Ids \cup {NoId}]
      /\ timerRefs \subseteq Ids
      /\ down \in Seq(Messages)
  BY DEF SessionOK, TypeOK, Messages, AnyLook
<1>5. Known'
  BY <1>1, <1>2 DEF SessionOK, Known
<1>6. RefsResolve'
  BY <1>1, <1>2 DEF SessionOK, RefsResolve
<1>7. TimersMatchHolograms'
  <2>1. timers' = IF o \in timerRefs THEN [timers EXCEPT ![o] = "none"] ELSE timers
    BY DEF Removes, SessionOK, RefsResolve
  <2> QED
    BY <1>1, <1>2, <2>1 DEF SessionOK, TimersMatchHolograms
<1> QED
  BY <1>5, <1>6, <1>7

LEMMA RecordsKeep ==
  ASSUME SessionOK, NEW o \in Ids, Refuses(o) \/ Drops(o), UNCHANGED <<shown, saved>>
  PROVE  Known' /\ RefsResolve' /\ TimersMatchHolograms'
<1>1. /\ UNCHANGED <<objects, refs, timerRefs, down>>
      /\ \A p \in Ids : p # o => widget'[p] = widget[p] /\ timers'[p] = timers[p]
      /\ \A p \in Ids : widget[p] \in Widgets => widget'[p] = widget[p]
      /\ o \notin timerRefs
      /\ timers'[o] # "none" => widget'[o] = "refused"
  BY LooksOfWidgets DEF SessionOK, TypeOK, RefsResolve, Refuses, Drops
<1>2. Known'
  BY <1>1 DEF SessionOK, Known
<1>3. RefsResolve'
  <2>1. ASSUME NEW r \in Shared, refs[r] # NoId
        PROVE  objects[refs[r]] # "none" /\ widget'[refs[r]] = r
    <3>1. refs[r] \in Ids /\ widget[refs[r]] = r /\ r \in Widgets
      BY <2>1 DEF SessionOK, TypeOK, RefsResolve, Shared
    <3> QED
      BY <1>1, <2>1, <3>1 DEF SessionOK, RefsResolve
  <2> QED
    BY <1>1, <2>1 DEF SessionOK, TypeOK, RefsResolve
<1>4. TimersMatchHolograms'
  BY <1>1 DEF SessionOK, TimersMatchHolograms
<1> QED
  BY <1>2, <1>3, <1>4

LEMMA RequestsKeep ==
  ASSUME SessionOK, Requests
  PROVE  SessionOK'
<1>1. TypeOK' /\ UNCHANGED <<shown, saved>>
  BY RequestTypes DEF SessionOK, Requests
<1>2. CASE UNCHANGED <<widget, objects, refs, timerRefs, timers, lastTimer, down>>
  BY <1>1, <1>2 DEF SessionOK, Known, RefsResolve, TimersMatchHolograms
<1>3. Known' /\ RefsResolve' /\ TimersMatchHolograms'
  BY <1>1, <1>2, CreatesKeeps, ChangesKeeps, RemovesKeeps, RecordsKeep DEF Requests, SessionOK
<1> QED
  BY <1>1, <1>3 DEF SessionOK

LEMMA ElsewhereKeeps ==
  ASSUME SessionOK, Elsewhere
  PROVE  SessionOK'
<1>1. TypeOK'
  BY ElsewhereTypes DEF SessionOK
<1>2. CASE Disconnect
  <2>1. \A o \in Ids : Nothing[o] = "none"
    BY DEF Nothing
  <2> QED
    BY <1>1, <1>2, <2>1
    DEF Disconnect, LoseWires, headsetVars, SessionOK, Known, RefsResolve, TimersMatchHolograms
<1>3. CASE ~Disconnect
  <2>1. UNCHANGED <<widget, objects, refs, timerRefs, timers>>
    BY <1>3 DEF Elsewhere, Deliver, Touch, SaveLayout, RestoreLayout, Reconnect, serverVars
  <2>2. RefsResolve' /\ TimersMatchHolograms'
    BY <2>1 DEF SessionOK, RefsResolve, TimersMatchHolograms
  <2>3. Known'
    <3>1. CASE Deliver
      <4>1. down \in Seq(Messages) /\ down # <<>> /\ shown \in Views
        BY <3>1 DEF Deliver, SessionOK, TypeOK, Messages, Views, AnyLook
      <4>2. /\ Head(down) = down[1] /\ down[1] \in Messages /\ 1 \in 1..Len(down)
            /\ \A n \in 1..Len(Tail(down)) : Tail(down)[n] = down[n + 1] /\ n + 1 \in 1..Len(down)
        BY <4>1
      <4>3. \A o \in Ids : shown'[o] = shown[o] \/ o = down[1].id
        BY <3>1, <4>1, <4>2, AppliedTo DEF Deliver
      <4> QED
        BY <2>1, <3>1, <4>2, <4>3 DEF Deliver, SessionOK, Known
    <3>2. CASE UNCHANGED <<down, shown, saved>>
      BY <2>1, <3>2 DEF SessionOK, Known
    <3>3. CASE SaveLayout
      BY <2>1, <3>3 DEF SaveLayout, SessionOK, Known
    <3>4. CASE RestoreLayout
      BY <2>1, <3>4 DEF RestoreLayout, SessionOK, Known
    <3> QED
      BY <1>3, <3>1, <3>2, <3>3, <3>4 DEF Elsewhere, Touch, Reconnect, headsetVars
  <2> QED
    BY <1>1, <2>2, <2>3 DEF SessionOK
<1> QED
  BY <1>2, <1>3

LEMMA SessionStep == SessionOK /\ [Next]_vars => SessionOK'
BY StepSplit, RequestsKeep, ElsewhereKeeps

LEMMA SessionCorrect == Spec => []SessionOK
<1> QED
  BY SessionInit, SessionStep, PTL DEF Spec

\* Every variable has a value of its kind, and only what was spawned is anywhere.
THEOREM TypeCorrect == Spec => [](TypeOK /\ Known)
<1>1. SessionOK => TypeOK /\ Known
  BY DEF SessionOK
<1> QED
  BY <1>1, SessionCorrect, PTL

\* Whatever tools, interactions and disconnections come, a ref leads to an object of
\* the session and no two refs to the same: what Show relies on to update the
\* hologram it made.
THEOREM RefsAlwaysResolve == Spec => []RefsResolve
<1>1. SessionOK => RefsResolve
  BY DEF SessionOK
<1> QED
  BY <1>1, SessionCorrect, PTL

\* The record of a timer and its hologram change and go together, for every number of
\* timers, refused starts among them, and whichever of stop_timer and the buttons acts:
\* only a refused start leaves a record without a hologram.
THEOREM TimersAlwaysMatch == Spec => []TimersMatchHolograms
<1>1. SessionOK => TimersMatchHolograms
  BY DEF SessionOK
<1> QED
  BY <1>1, SessionCorrect, PTL

(***************************************************************************)
(* What the headset will show.                                             *)
(***************************************************************************)

\* No update on its way comes before its spawn or after its destroy; the last word on a
\* hologram is what the session has; and what the session has will be shown.
LastWord ==
  /\ \A n \in 1..Len(down) :
       /\ down[n].op = "update" => Arrivals(shown, down)[n - 1][down[n].id] # "none"
       /\ down[n].op = "destroy" => down[n].look = "none"
       /\ Settled[down[n].id] = objects[down[n].id]
  /\ \A o \in Ids : objects[o] # "none" => Settled[o] # "none"

Mirrored == SessionOK /\ LastWord /\ MirrorsSession

LEMMA MessageTypes ==
  ASSUME TypeOK
  PROVE  /\ down \in Seq(Messages) /\ Len(down) \in Nat /\ shown \in Views
         /\ objects \in [Ids -> AnyLook] /\ Settled \in Views
<1>1. down \in Seq(Messages) /\ shown \in Views /\ objects \in [Ids -> AnyLook]
  BY DEF TypeOK, Messages, Views, AnyLook
<1>2. Len(down) \in Nat /\ Len(down) \in 0..Len(down)
  BY <1>1
<1> QED
  BY <1>1, <1>2, ArrivalsFacts DEF Settled

LEMMA MirroredInit == Init => Mirrored
<1> SUFFICES ASSUME Init PROVE Mirrored
  OBVIOUS
<1>1. SessionOK /\ down = <<>> /\ shown = objects /\ Len(down) = 0
  BY SessionInit DEF Init
<1>2. Settled = objects
  BY <1>1, MessageTypes, ArrivalsFacts DEF Settled, SessionOK
<1> QED
  BY <1>1, <1>2 DEF Mirrored, LastWord, MirrorsSession

LEMMA SaysMirrors ==
  ASSUME Mirrored, TypeOK', NEW m, Says(m), UNCHANGED <<shown, restored, left>>
  PROVE  LastWord' /\ MirrorsSession'
<1> DEFINE N == Len(down)
<1>1. /\ m \in Messages /\ down' = Append(down, m) /\ shown' = shown
      /\ objects' = [objects EXCEPT ![m.id] = m.look]
      /\ m.op = "destroy" <=> m.look = "none"
      /\ m.op = "update" => objects[m.id] # "none"
  BY DEF Says
<1>2. /\ down \in Seq(Messages) /\ N \in Nat /\ shown \in Views
      /\ objects \in [Ids -> AnyLook] /\ Settled \in Views
  BY MessageTypes DEF Mirrored, SessionOK
<1>3. /\ \A n \in 0..N : Arrivals(shown', down')[n] = Arrivals(shown, down)[n]
      /\ Arrivals(shown', down')[N + 1] = Applied(Settled, m)
  BY <1>1, <1>2, ArrivalsAppend DEF Settled
<1>4. /\ Len(down') = N + 1 /\ down'[N + 1] = m
      /\ \A n \in 1..N : down'[n] = down[n]
  BY <1>1, <1>2
<1>5. Settled' = Applied(Settled, m)
  BY <1>3, <1>4 DEF Settled
<1>6. /\ m.id \in Ids /\ m.op \in {"spawn", "update", "destroy"}
      /\ objects'[m.id] = m.look /\ \A o \in Ids : o # m.id => objects'[o] = objects[o]
  BY <1>1, <1>2 DEF Messages
<1>7. m.op # "spawn" /\ Settled[m.id] = "none" => m.look = "none"
  BY <1>1, <1>6 DEF Mirrored, LastWord
<1>8. /\ Settled'[m.id] = m.look
      /\ \A o \in Ids : o # m.id => Settled'[o] = Settled[o]
  BY <1>1, <1>2, <1>5, <1>6, <1>7, AppliedTo
<1>9. LastWord'
  <2>1. ASSUME NEW n \in 1..(N + 1)
        PROVE  /\ down'[n].op = "update" => Arrivals(shown', down')[n - 1][down'[n].id] # "none"
               /\ down'[n].op = "destroy" => down'[n].look = "none"
               /\ Settled'[down'[n].id] = objects'[down'[n].id]
    <3>1. CASE n = N + 1
      <4>1. n - 1 = N /\ N \in 0..N
        BY <1>2, <3>1
      <4>2. Arrivals(shown', down')[n - 1] = Settled
        BY <1>3, <4>1 DEF Settled
      <4>3. m.op = "update" => Settled[m.id] # "none"
        BY <1>1, <1>6 DEF Mirrored, LastWord
      <4> QED
        BY <1>1, <1>4, <1>6, <1>8, <3>1, <4>2, <4>3
    <3>2. CASE n \in 1..N
      <4>0. down[n] \in Messages
        BY <1>2, <3>2
      <4>1. n - 1 \in 0..N /\ down'[n] = down[n] /\ down[n].id \in Ids
        BY <1>2, <1>4, <3>2, <4>0 DEF Messages
      <4>2. Arrivals(shown', down')[n - 1] = Arrivals(shown, down)[n - 1]
        BY <1>3, <4>1
      <4> QED
        BY <1>6, <1>8, <3>2, <4>1, <4>2 DEF Mirrored, LastWord
    <3> QED
      BY <1>2, <3>1, <3>2
  <2>2. ASSUME NEW o \in Ids, objects'[o] # "none"
        PROVE  Settled'[o] # "none"
    BY <1>6, <1>8, <2>2 DEF Mirrored, LastWord
  <2> QED
    BY <1>4, <2>1, <2>2 DEF LastWord
<1>10. MirrorsSession'
  BY <1>6, <1>8 DEF Mirrored, MirrorsSession
<1> QED
  BY <1>9, <1>10

LEMMA DeliverMirrors ==
  ASSUME Mirrored, Deliver
  PROVE  LastWord' /\ MirrorsSession'
<1> DEFINE N == Len(down) - 1
           m == Head(down)
<1>1. /\ down # <<>> /\ down' = Tail(down) /\ shown' = Applied(shown, m)
      /\ restored' = restored \ {m.id}
      /\ UNCHANGED <<objects, left>>
  BY DEF Deliver, serverVars
<1>2. down \in Seq(Messages) /\ shown \in Views
  BY MessageTypes DEF Mirrored, SessionOK
<1>3. /\ N \in Nat /\ Len(down') = N /\ Len(down) = N + 1 /\ m = down[1]
      /\ m \in Messages
      /\ \A n \in 1..N : down'[n] = down[n + 1] /\ n + 1 \in 1..Len(down)
  BY <1>1, <1>2
<1>4. \A n \in 0..N : Arrivals(shown', down')[n] = Arrivals(shown, down)[n + 1]
  BY <1>1, <1>2, ArrivalsTail
<1>5. Settled' = Settled
  <2>1. N \in 0..N
    BY <1>3
  <2> QED
    BY <1>3, <1>4, <2>1 DEF Settled
<1>6. m.id \in Ids /\ Settled[m.id] = objects[m.id]
  <2>1. 1 \in 1..Len(down)
    BY <1>3
  <2> QED
    BY <1>3, <2>1 DEF Mirrored, LastWord, Messages
<1> HIDE DEF N, m
<1>7. LastWord'
  <2>1. ASSUME NEW n \in 1..N
        PROVE  /\ down'[n].op = "update" => Arrivals(shown', down')[n - 1][down'[n].id] # "none"
               /\ down'[n].op = "destroy" => down'[n].look = "none"
               /\ Settled'[down'[n].id] = objects'[down'[n].id]
    <3>1. n - 1 \in 0..N /\ (n - 1) + 1 = n /\ (n + 1) - 1 = n
      BY <1>3
    <3>2. Arrivals(shown', down')[n - 1] = Arrivals(shown, down)[n]
      BY <1>4, <3>1
    <3>3. /\ down[n + 1].op = "update" => Arrivals(shown, down)[n][down[n + 1].id] # "none"
          /\ down[n + 1].op = "destroy" => down[n + 1].look = "none"
          /\ Settled[down[n + 1].id] = objects[down[n + 1].id]
      BY <1>3, <3>1 DEF Mirrored, LastWord
    <3> QED
      BY <1>1, <1>3, <1>5, <3>2, <3>3
  <2>2. \A o \in Ids : objects'[o] # "none" => Settled'[o] # "none"
    BY <1>1, <1>5 DEF Mirrored, LastWord
  <2> QED
    BY <1>3, <2>1, <2>2 DEF LastWord
<1>8. MirrorsSession'
  BY <1>1, <1>5, <1>6 DEF Mirrored, MirrorsSession
<1> QED
  BY <1>7, <1>8

LEMMA RestoreMirrors ==
  ASSUME Mirrored, TypeOK', RestoreLayout
  PROVE  LastWord' /\ MirrorsSession'
<1> DEFINE again == {o \in Ids : saved[o] # "none"}
           N == Len(down)
<1>1. /\ shown' = [o \in Ids |-> IF o \in again THEN saved[o] ELSE shown[o]]
      /\ restored' = restored \cup again /\ left' = left \cup again
      /\ UNCHANGED <<objects, down>>
  BY DEF RestoreLayout, serverVars
<1>2. /\ down \in Seq(Messages) /\ shown \in Views /\ shown' \in Views /\ N \in Nat
      /\ \A n \in 1..N : down[n] \in Messages
  BY MessageTypes DEF Mirrored, SessionOK, TypeOK, Views, AnyLook
<1>3. /\ \A o \in Ids : shown[o] # "none" => shown'[o] # "none"
      /\ \A o \in Ids : o \in again \/ shown'[o] = shown[o]
  BY <1>1
<1> HIDE DEF again
<1>4. \A n \in 0..N, o \in Ids :
        /\ Arrivals(shown, down)[n][o] # "none" => Arrivals(shown', down)[n][o] # "none"
        /\ shown[o] = shown'[o] \/ (\E k \in 1..n : down[k].id = o)
             => Arrivals(shown', down)[n][o] = Arrivals(shown, down)[n][o]
  <2>1. \A n \in 1..N : /\ down[n].op = "update" =>
                             Arrivals(shown, down)[n - 1][down[n].id] # "none"
                        /\ down[n].op = "destroy" => down[n].look = "none"
    BY DEF Mirrored, LastWord
  <2> QED
    BY <1>2, <1>3, <2>1, ArrivalsRestored
<1>5. Settled = Arrivals(shown, down)[N] /\ Settled' = Arrivals(shown', down)[N] /\ N \in 0..N
  BY <1>1, <1>2 DEF Settled
<1>6. \A o \in Ids :
        /\ Settled[o] # "none" => Settled'[o] # "none"
        /\ shown[o] = shown'[o] \/ (\E k \in 1..N : down[k].id = o) => Settled'[o] = Settled[o]
  BY <1>4, <1>5
<1>7. LastWord'
  <2>1. ASSUME NEW n \in 1..N
        PROVE  /\ down[n].op = "update" => Arrivals(shown', down)[n - 1][down[n].id] # "none"
               /\ down[n].op = "destroy" => down[n].look = "none"
               /\ Settled'[down[n].id] = objects[down[n].id]
    <3>1. down[n].id \in Ids /\ n - 1 \in 0..N
      BY <1>2 DEF Messages
    <3> QED
      BY <1>4, <1>6, <3>1 DEF Mirrored, LastWord
  <2>2. \A o \in Ids : objects[o] # "none" => Settled'[o] # "none"
    BY <1>6 DEF Mirrored, LastWord
  <2> QED
    BY <1>1, <2>1, <2>2 DEF LastWord
<1>8. MirrorsSession'
  BY <1>1, <1>3, <1>6 DEF Mirrored, MirrorsSession
<1> QED
  BY <1>7, <1>8

LEMMA DisconnectMirrors ==
  ASSUME TypeOK', Disconnect
  PROVE  LastWord' /\ MirrorsSession'
<1>1. /\ down' = <<>> /\ Len(down') = 0 /\ objects' = Nothing /\ shown' = shown
      /\ left' = left \cup {o \in Ids : shown[o] # "none"}
  BY DEF Disconnect, LoseWires, headsetVars
<1>2. down' \in Seq(Messages) /\ shown' \in Views
  BY <1>1 DEF TypeOK, Views, AnyLook
<1>3. Settled' = shown
  BY <1>1, <1>2, ArrivalsFacts DEF Settled
<1>4. \A o \in Ids : objects'[o] = "none"
  BY <1>1 DEF Nothing
<1> QED
  BY <1>1, <1>3, <1>4 DEF LastWord, MirrorsSession

LEMMA MirroredStep == Mirrored /\ [Next]_vars => Mirrored'
<1> SUFFICES ASSUME Mirrored, [Next]_vars PROVE Mirrored'
  OBVIOUS
<1>1. SessionOK'
  BY SessionStep DEF Mirrored
<1>2. ASSUME UNCHANGED <<objects, down, shown, restored, left>>
      PROVE  LastWord' /\ MirrorsSession'
  <2>1. Settled' = Settled
    BY <1>2 DEF Settled
  <2> QED
    BY <1>2, <2>1 DEF Mirrored, LastWord, MirrorsSession
<1>3. CASE Requests
  <2>1. UNCHANGED <<shown, restored, left>> /\ ((\E m : Says(m)) \/ UNCHANGED <<objects, down>>)
    BY <1>3 DEF Requests, Creates, Changes, Removes, Refuses, Drops
  <2> QED
    BY <1>1, <1>2, <2>1, SaysMirrors DEF Mirrored, SessionOK
<1>4. CASE Elsewhere
  <2>1. ASSUME \/ \E o \in Ids : Touch(o)
               \/ SaveLayout
               \/ Reconnect
        PROVE  UNCHANGED <<objects, down, shown, restored, left>>
    BY <2>1 DEF Touch, SaveLayout, Reconnect, serverVars, headsetVars, history
  <2> QED
    BY <1>1, <1>2, <1>4, <2>1, DeliverMirrors, RestoreMirrors, DisconnectMirrors
    DEF Elsewhere, Mirrored, SessionOK
<1> QED
  BY <1>1, <1>3, <1>4, StepSplit DEF Mirrored

LEMMA MirroredAlways == Spec => []Mirrored
<1> QED
  BY MirroredInit, MirroredStep, PTL DEF Spec

\* The headset's widgets hold the props the session has as soon as the messages on the
\* way have arrived, whatever number of them, of holograms and of sessions: the abstract
\* view the backend keeps in SessionState is what HologramManager converges to.
THEOREM HeadsetMirrorsSession == Spec => []MirrorsSession
<1>1. Mirrored => MirrorsSession
  BY DEF Mirrored
<1> QED
  BY <1>1, MirroredAlways, PTL

\* No update is lost on a hologram that is not there: each one on its way finds its
\* hologram when it arrives, and the last word on a hologram is what the session has.
THEOREM UpdatesFindTheirHologram == Spec => []LastWord
<1>1. Mirrored => LastWord
  BY DEF Mirrored
<1> QED
  BY <1>1, MirroredAlways, PTL

(***************************************************************************)
(* The holograms implement MirrorAbs: a request of the session is one made *)
(* or changed, a message that arrives one that is repeated.                *)
(***************************************************************************)

Spawned == {o \in Ids : widget[o] \notin {"none", "refused"}}

Assignments == [id : Ids, look : AnyLook]

LEMMA FunctionIsSeq ==
  ASSUME NEW S, NEW n \in Nat, NEW f \in [1..n -> S]
  PROVE  f \in Seq(S) /\ Len(f) = n
OBVIOUS

LEMMA ComingTypes ==
  ASSUME down \in Seq(Messages)
  PROVE  Coming \in Seq(Assignments) /\ Len(Coming) = Len(down) /\ Len(down) \in Nat
<1>1. Len(down) \in Nat /\ \A n \in 1..Len(down) : down[n] \in Messages
  OBVIOUS
<1>2. \A m \in Messages : [id |-> m.id, look |-> m.look] \in Assignments
  BY DEF Messages, Assignments
<1>3. Coming \in [1..Len(down) -> Assignments]
  BY <1>1, <1>2 DEF Coming
<1> QED
  BY <1>1, <1>3, FunctionIsSeq

LEMMA ComingJoins ==
  ASSUME down \in Seq(Messages), NEW m \in Messages, down' = Append(down, m)
  PROVE  Coming' = Append(Coming, [id |-> m.id, look |-> m.look])
<1> DEFINE a == [id |-> m.id, look |-> m.look]
<1>1. /\ Len(down) \in Nat /\ Len(down') = Len(down) + 1 /\ down'[Len(down) + 1] = m
      /\ \A n \in 1..Len(down) : down'[n] = down[n]
  OBVIOUS
<1>2. Coming' = [n \in 1..(Len(down) + 1) |-> IF n = Len(down) + 1 THEN a ELSE Coming[n]]
  BY <1>1 DEF Coming
<1>3. Coming \in Seq(Assignments) /\ Len(Coming) = Len(down) /\ a \in Assignments
  BY ComingTypes DEF Messages, Assignments
<1> HIDE DEF a
<1>4. Coming' = Append(Coming, a)
  <2>1. Coming' \in [1..(Len(down) + 1) -> Assignments]
    BY <1>1, <1>2, <1>3
  <2>2. Coming' \in Seq(Assignments) /\ Len(Coming') = Len(down) + 1
    BY <1>1, <2>1, FunctionIsSeq
  <2>3. /\ Append(Coming, a) \in Seq(Assignments) /\ Len(Append(Coming, a)) = Len(down) + 1
        /\ \A n \in 1..(Len(down) + 1) :
             Append(Coming, a)[n] = IF n = Len(down) + 1 THEN a ELSE Coming[n]
    BY <1>3, AppendProperties
  <2>4. \A n \in 1..(Len(down) + 1) : Coming'[n] = Append(Coming, a)[n]
    BY <1>1, <1>2, <2>3
  <2> QED
    BY <2>2, <2>3, <2>4, SeqEqual
<1> QED
  BY <1>4 DEF a

LEMMA ComingRest ==
  ASSUME down \in Seq(Messages), down # <<>>, down' = Tail(down)
  PROVE  /\ Coming # <<>> /\ Coming' = Tail(Coming)
         /\ Head(Coming) = [id |-> down[1].id, look |-> down[1].look]
<1>1. /\ Len(down) \in Nat /\ Len(down) > 0 /\ Len(down') = Len(down) - 1
      /\ \A n \in 1..(Len(down) - 1) : down'[n] = down[n + 1]
  OBVIOUS
<1>2. Coming \in Seq(Assignments) /\ Len(Coming) = Len(down) /\ Coming # <<>>
  <2>1. Coming \in Seq(Assignments) /\ Len(Coming) = Len(down)
    BY ComingTypes
  <2>2. Len(<<>>) = 0
    OBVIOUS
  <2> QED
    BY <1>1, <2>1, <2>2
<1>3. \A n \in 1..Len(down) : Coming[n] = [id |-> down[n].id, look |-> down[n].look]
  BY DEF Coming
<1>4. Coming' = [n \in 1..(Len(Coming) - 1) |-> Coming[n + 1]]
  BY <1>1, <1>2, <1>3 DEF Coming
<1>5. Coming' = Tail(Coming)
  <2>1. /\ Tail(Coming) \in Seq(Assignments) /\ Len(Tail(Coming)) = Len(Coming) - 1
        /\ \A n \in 1..(Len(Coming) - 1) : Tail(Coming)[n] = Coming[n + 1]
    BY <1>2
  <2>2. Coming' \in Seq(Assignments) /\ Len(Coming') = Len(Coming) - 1
    <3> DEFINE N == Len(Coming) - 1
    <3>1. N \in Nat
      BY <1>1, <1>2
    <3>2. Coming' \in [1..N -> Assignments]
      BY <1>1, <1>2, <1>4
    <3> HIDE DEF N
    <3>3. Coming' \in Seq(Assignments) /\ Len(Coming') = N
      BY <3>1, <3>2, FunctionIsSeq
    <3> QED
      BY <3>3 DEF N
  <2>3. \A n \in 1..(Len(Coming) - 1) : Coming'[n] = Tail(Coming)[n]
    BY <1>4, <2>1
  <2> QED
    BY <2>1, <2>2, <2>3, SeqEqual
<1>6. Head(Coming) = Coming[1] /\ 1 \in 1..Len(down)
  BY <1>1, <1>2
<1> QED
  BY <1>2, <1>3, <1>5, <1>6

\* A message that the session emits is a change that MirrorAbs has the headset repeat.
LEMMA SaysBecomes ==
  ASSUME TypeOK, NEW op, NEW o \in Ids, NEW look, Says(Msg(op, o, look)), UNCHANGED <<link, shown>>
  PROVE  objects'[o] = look /\ Abs!Becomes(o, objects'[o])
<1> DEFINE m == Msg(op, o, look)
<1>1. /\ m \in Messages /\ down' = Append(down, m) /\ objects' = [objects EXCEPT ![m.id] = m.look]
      /\ m.id = o /\ m.look = look
  BY DEF Says, Msg
<1>2. down \in Seq(Messages) /\ objects \in [Ids -> AnyLook]
  BY MessageTypes
<1> HIDE DEF m
<1>3. Coming' = Append(Coming, [id |-> m.id, look |-> m.look])
  BY <1>1, <1>2, ComingJoins
<1> QED
  BY <1>1, <1>2, <1>3 DEF Abs!Becomes

LEMMA RequestImplements ==
  ASSUME SessionOK, Requests, link
  PROVE  [Abs!Next]_(Abs!vars)
<1>0. /\ UNCHANGED <<link, shown>> /\ TypeOK
      /\ widget \in [Ids -> Widgets \cup {"none", "refused"}]
  BY DEF Requests, SessionOK, TypeOK
<1>1. ASSUME NEW o \in Ids, NEW w \in Widgets, NEW look \in Starts(w), Creates(o, w, look)
      PROVE  Abs!Make(o)
  <2>1. objects'[o] = look /\ Abs!Becomes(o, objects'[o])
    BY <1>0, <1>1, SaysBecomes DEF Creates
  <2>2. look # "none" /\ w \notin {"none", "refused"}
    BY LooksOfWidgets, HologramsAssumption
  <2>3. Spawned' = Spawned \cup {o} /\ o \notin Spawned
    BY <1>0, <1>1, <2>2 DEF Spawned, Creates
  <2> QED
    BY <2>1, <2>2, <2>3 DEF Abs!Make, Spawned
<1>2. ASSUME NEW o \in Ids, NEW look \in AllLooks, Changes(o, look)
      PROVE  Abs!Change(o)
  <2>1. objects'[o] = look /\ Abs!Becomes(o, objects'[o])
    BY <1>0, <1>2, SaysBecomes DEF Changes
  <2> QED
    BY <1>2, <2>1 DEF Abs!Change, Changes
<1>3. ASSUME NEW o \in Ids, Removes(o)
      PROVE  Abs!Change(o)
  <2>1. objects'[o] = "none" /\ Abs!Becomes(o, objects'[o])
    BY <1>0, <1>3, SaysBecomes DEF Removes
  <2> QED
    BY <1>3, <2>1 DEF Abs!Change, Removes
<1>4. CASE UNCHANGED <<widget, objects, refs, timerRefs, timers, lastTimer, down>>
  BY <1>0, <1>4 DEF Abs!vars, Coming
<1>5. ASSUME NEW o \in Ids, Refuses(o) \/ Drops(o)
      PROVE  UNCHANGED Abs!vars
  <2>1. Spawned' = Spawned
    BY <1>0, <1>5 DEF Spawned, Refuses, Drops
  <2> QED
    BY <1>0, <1>5, <2>1 DEF Abs!vars, Coming, Spawned, Refuses, Drops
<1> QED
  BY <1>1, <1>2, <1>3, <1>4, <1>5 DEF Requests, Abs!Next

\* No message is ignored to any effect: an update finds its hologram, and a destroy that
\* does not says what is so already.
LEMMA DeliverRepeats ==
  ASSUME Mirrored, Deliver
  PROVE  Abs!Repeat
<1> DEFINE m == down[1]
<1>1. /\ down # <<>> /\ down' = Tail(down) /\ shown' = Applied(shown, Head(down))
      /\ link /\ UNCHANGED <<link, objects, widget>>
  BY DEF Deliver, serverVars, linkVars
<1>2. down \in Seq(Messages) /\ shown \in Views
  BY MessageTypes DEF Mirrored, SessionOK
<1>3. m \in Messages /\ Head(down) = m /\ 1 \in 1..Len(down)
  BY <1>1, <1>2
<1>4. /\ m.op = "update" => shown[m.id] # "none"
      /\ m.op = "destroy" => m.look = "none"
  <2>1. Arrivals(shown, down)[1 - 1] = shown
    BY <1>2, ArrivalsFacts
  <2> QED
    BY <1>3, <2>1 DEF Mirrored, LastWord
<1>5. /\ Coming # <<>> /\ Coming' = Tail(Coming)
      /\ Head(Coming) = [id |-> m.id, look |-> m.look]
  BY <1>1, <1>2, ComingRest
<1> HIDE DEF m
<1>6. m.id \in Ids /\ m.op \in {"spawn", "update", "destroy"}
  BY <1>3 DEF Messages
<1>7. Applied(shown, m) = [shown EXCEPT ![m.id] = m.look]
  BY <1>2, <1>4, <1>6 DEF Applied, Views
<1> QED
  BY <1>1, <1>3, <1>5, <1>7 DEF Abs!Repeat

LEMMA RestoreImplements ==
  ASSUME SessionOK, TypeOK', RestoreLayout
  PROVE  Abs!Restore
<1>1. /\ shown' = [o \in Ids |-> IF saved[o] # "none" THEN saved[o] ELSE shown[o]]
      /\ UNCHANGED <<link, objects, widget, down>>
  BY DEF RestoreLayout, serverVars, linkVars
<1>2. \A o \in Ids : shown'[o] # shown[o] => /\ widget[o] \notin {"none", "refused"}
                                              /\ shown'[o] # "none"
  BY <1>1, LooksOfWidgets, HologramsAssumption DEF SessionOK, Known
<1>3. shown' \in [Ids -> {shown'[o] : o \in Ids}]
  BY <1>1
<1>4. Coming' = Coming
  BY <1>1 DEF Coming
<1> QED
  BY <1>1, <1>2, <1>3, <1>4 DEF Abs!Restore

LEMMA DisconnectImplements ==
  ASSUME Disconnect
  PROVE  Abs!End
<1>1. /\ link /\ link' = FALSE /\ objects' = Nothing /\ down' = <<>>
      /\ UNCHANGED <<widget, shown>>
  BY DEF Disconnect, LoseWires, headsetVars
<1>2. Coming' = <<>>
  BY <1>1 DEF Coming
<1> QED
  BY <1>1, <1>2 DEF Abs!End, Abs!Empty, Nothing

LEMMA StepImplements ==
  ASSUME Mirrored, Mirrored', [Next]_vars
  PROVE  [Abs!Next]_(Abs!vars)
<1>1. SessionOK /\ TypeOK'
  BY DEF Mirrored, SessionOK
<1>2. ASSUME UNCHANGED <<link, objects, widget, down, shown>>
      PROVE  UNCHANGED Abs!vars
  BY <1>2 DEF Abs!vars, Coming
<1>3. CASE UNCHANGED vars
  BY <1>2, <1>3 DEF vars, serverVars, linkVars, headsetVars
<1>4. CASE Next /\ ~Elsewhere
  <2>1. link
    BY <1>4 DEF Next, Elsewhere, Show, OpenWidget, StartTimer, StopTimer, Interact
  <2> QED
    BY <1>1, <1>4, <2>1, StepSplit, RequestImplements
<1>5. CASE Elsewhere
  <2>1. ASSUME (\E o \in Ids : Touch(o)) \/ SaveLayout
        PROVE  UNCHANGED <<link, objects, widget, down, shown>>
    BY <2>1 DEF Touch, SaveLayout, serverVars, linkVars, headsetVars
  <2>2. ASSUME Reconnect PROVE Abs!Begin
    BY <2>2 DEF Reconnect, Abs!Begin, serverVars, headsetVars, Coming
  <2> QED
    BY <1>1, <1>2, <1>5, <2>1, <2>2, DeliverRepeats, RestoreImplements, DisconnectImplements
    DEF Elsewhere, Abs!Next
<1> QED
  BY <1>3, <1>4, <1>5

\* Spawns, updates and destroys, each of which the headset may ignore, amount to plain
\* assignments that it repeats in order, whatever number of holograms, messages on the way
\* and sessions there is, and no session changes what an earlier one left in the room.
THEOREM Implements == Spec => ImplementsMirrorAbs
<1>1. Init => Abs!Init
  BY DEF Init, Abs!Init, Abs!Empty, Nothing, Coming
<1>2. Mirrored /\ Mirrored' /\ [Next]_vars => [Abs!Next]_(Abs!vars)
  BY StepImplements
<1> QED
  BY <1>1, <1>2, MirroredAlways, PTL DEF Spec, ImplementsMirrorAbs, Abs!Spec
=============================================================================
