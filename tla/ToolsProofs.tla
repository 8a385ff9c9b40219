------------------------------- MODULE ToolsProofs -------------------------------
(***************************************************************************)
(* Tools for every number of holograms, all texts, labels and places, and  *)
(* both widget catalogs: what touches and repeated calls make of a         *)
(* hologram still conforms to its widget, and what is refused is only      *)
(* what a tool was given from outside and passes on.                       *)
(***************************************************************************)
EXTENDS Tools, WellFoundedInduction, TLAPS

(***************************************************************************)
(* The invariant behind HologramsConform: a ref is used for one widget, so *)
(* that what is merged into a hologram was checked against its schema.     *)
(***************************************************************************)

WidgetUnder(ref) ==
  CASE ref = "weather"   -> "weather_orb"
    [] ref \in {"time_panel", "notes_panel", "info_panel", "ocr_panel"} -> "panel"
    [] ref = "stocks"    -> "stocks_ticker"
    [] ref = "nav_arrow" -> "navigation_arrow"
    [] ref = "measure"   -> "measuring_tape"
    [] OTHER             -> ref

IsHologram(h) == h = [widget |-> h.widget, props |-> h.props, at |-> h.at, live |-> h.live]

\* What objects and refs of a session must be.
Holds(holograms) ==
  /\ holograms \in Seq(Range(holograms))
  /\ \A o \in DOMAIN holograms :
       /\ IsHologram(holograms[o])
       /\ holograms[o].live => Conforms(registry, holograms[o].widget, holograms[o].props)
Leads(names, holograms) ==
  /\ NoRef \notin DOMAIN names
  /\ \A r \in DOMAIN names :
       /\ names[r] \in DOMAIN holograms
       /\ holograms[names[r]].live => holograms[names[r]].widget = WidgetUnder(r)

Sound == Holds(objects) /\ Leads(refs, objects)

(***************************************************************************)
(* Merging.                                                                *)
(***************************************************************************)

LEMMA UpdatedIs ==
  ASSUME NEW old, NEW patch
  PROVE  /\ DOMAIN Updated(old, patch) = DOMAIN old \cup DOMAIN patch
         /\ \A k \in DOMAIN patch : Updated(old, patch)[k] = patch[k]
         /\ \A k \in DOMAIN old \ DOMAIN patch : Updated(old, patch)[k] = old[k]
BY DEF Updated

\* What a patch must be: all that a schema says of the props but for the required ones.
Fits(catalog, w, patch) ==
  LET spec == Catalog(catalog)[w] IN
  /\ spec.closed => DOMAIN patch \subseteq DOMAIN spec.props
  /\ \A k \in DOMAIN patch \cap DOMAIN spec.props : patch[k] \in spec.props[k]

LEMMA ConformingFits ==
  ASSUME NEW catalog, NEW w, NEW props, Conforms(catalog, w, props)
  PROVE  Fits(catalog, w, props)
BY DEF Conforms, Fits

LEMMA PatchedConforms ==
  ASSUME NEW catalog, NEW w, NEW props, NEW patch, Conforms(catalog, w, props), Fits(catalog, w, patch)
  PROVE  Conforms(catalog, w, Updated(props, patch))
<1> DEFINE spec == Catalog(catalog)[w]
           new  == Updated(props, patch)
<1>1. /\ spec.required \subseteq DOMAIN props
      /\ spec.closed => DOMAIN props \subseteq DOMAIN spec.props
      /\ \A k \in DOMAIN props \cap DOMAIN spec.props : props[k] \in spec.props[k]
  BY DEF Conforms
<1>2. /\ spec.closed => DOMAIN patch \subseteq DOMAIN spec.props
      /\ \A k \in DOMAIN patch \cap DOMAIN spec.props : patch[k] \in spec.props[k]
  BY DEF Fits
<1> HIDE DEF spec
<1>3. /\ DOMAIN new = DOMAIN props \cup DOMAIN patch
      /\ \A k \in DOMAIN patch : new[k] = patch[k]
      /\ \A k \in DOMAIN props \ DOMAIN patch : new[k] = props[k]
  BY UpdatedIs
<1> HIDE DEF new
<1>4. /\ spec.required \subseteq DOMAIN new
      /\ spec.closed => DOMAIN new \subseteq DOMAIN spec.props
  BY <1>1, <1>2, <1>3
<1>5. \A k \in DOMAIN new \cap DOMAIN spec.props : new[k] \in spec.props[k]
  BY <1>1, <1>2, <1>3
<1> QED
  BY <1>4, <1>5 DEF Conforms, spec, new

(***************************************************************************)
(* One directive.                                                          *)
(***************************************************************************)

IsOutcome(st) ==
  st = [objects |-> st.objects, refs |-> st.refs, spawned |-> st.spawned, refused |-> st.refused]

\* A directive that shows the widget its ref stands for.
Directed(d) == d.ref # NoRef => d.widget = WidgetUnder(d.ref)

New(d) == [widget |-> d.widget, props |-> d.props, at |-> d.at, live |-> TRUE]

LEMMA AppendedTo ==
  ASSUME NEW s, s \in Seq(Range(s)), NEW e
  PROVE  /\ Append(s, e) \in Seq(Range(Append(s, e)))
         /\ DOMAIN Append(s, e) = DOMAIN s \cup {Len(s) + 1}
         /\ Len(s) + 1 \notin DOMAIN s
         /\ Append(s, e)[Len(s) + 1] = e
         /\ \A n \in DOMAIN s : Append(s, e)[n] = s[n]
<1> DEFINE S == Range(s) \cup {e}
           t == Append(s, e)
<1>1. s \in Seq(S)
  OBVIOUS
<1>2. e \in S
  OBVIOUS
<1> HIDE DEF S
<1>3. /\ t \in Seq(S) /\ Len(t) = Len(s) + 1 /\ Len(s) \in Nat
      /\ DOMAIN s = 1..Len(s) /\ DOMAIN t = 1..Len(t)
      /\ t[Len(s) + 1] = e /\ \A n \in 1..Len(s) : t[n] = s[n]
  BY <1>1, <1>2
<1> HIDE DEF t
<1>4. t \in Seq(Range(t))
  <2>1. \A n \in 1..Len(t) : t[n] \in Range(t)
    BY <1>3 DEF Range
  <2> QED
    BY <1>3, <2>1
<1>5. /\ DOMAIN t = DOMAIN s \cup {Len(s) + 1} /\ Len(s) + 1 \notin DOMAIN s
      /\ \A n \in DOMAIN s : t[n] = s[n]
  BY <1>3
<1> QED
  BY <1>3, <1>4, <1>5 DEF t

\* The three things a directive can do.
LEMMA SpawnedIs ==
  ASSUME NEW st, IsOutcome(st), NEW d, Holds(st.objects), Leads(st.refs, st.objects)
  PROVE  LET to == Spawned(st, d) IN
         /\ IsOutcome(to)
         /\ \/ /\ ~Conforms(registry, d.widget, d.props)
               /\ to.objects = st.objects /\ to.refs = st.refs /\ to.spawned = st.spawned
               /\ to.refused = TRUE
            \/ /\ Conforms(registry, d.widget, d.props)
               /\ d.ref \in DOMAIN st.refs /\ st.objects[st.refs[d.ref]].live
               /\ to.objects = [st.objects EXCEPT ![st.refs[d.ref]].props = Updated(@, d.props)]
               /\ to.refs = st.refs /\ to.spawned = st.spawned /\ to.refused = st.refused
            \/ /\ Conforms(registry, d.widget, d.props)
               /\ to.objects = Append(st.objects, New(d))
               /\ to.refs = IF d.ref = NoRef THEN st.refs
                            ELSE Updated(st.refs, [r \in {d.ref} |-> Len(st.objects) + 1])
               /\ to.spawned = Append(st.spawned, Len(st.objects) + 1)
               /\ to.refused = st.refused
<1> DEFINE known == d.ref \in DOMAIN st.refs /\ st.objects[st.refs[d.ref]].live
<1>1. CASE ~Conforms(registry, d.widget, d.props)
  <2>1. Spawned(st, d) = [st EXCEPT !.refused = TRUE]
    BY <1>1 DEF Spawned
  <2> QED
    BY <1>1, <2>1 DEF IsOutcome
<1>2. CASE Conforms(registry, d.widget, d.props) /\ known
  <2>1. Spawned(st, d) = [st EXCEPT !.objects[st.refs[d.ref]].props = Updated(@, d.props)]
    BY <1>2 DEF Spawned
  <2> QED
    BY <1>2, <2>1 DEF IsOutcome
<1>3. CASE Conforms(registry, d.widget, d.props) /\ ~known
  <2> DEFINE names == IF d.ref = NoRef THEN st.refs
                      ELSE Updated(st.refs, [r \in {d.ref} |-> Len(st.objects) + 1])
             holograms == Append(st.objects, New(d))
             made == Append(st.spawned, Len(st.objects) + 1)
  <2>1. Spawned(st, d) = [st EXCEPT !.objects = holograms, !.refs = names, !.spawned = made]
    BY <1>3 DEF Spawned, New
  <2> HIDE DEF names, holograms, made
  <2>2. /\ Spawned(st, d) = [objects |-> holograms, refs |-> names, spawned |-> made, refused |-> st.refused]
    BY <2>1 DEF IsOutcome
  <2> QED
    BY <1>3, <2>2 DEF IsOutcome, names, holograms, made
<1> QED
  BY <1>1, <1>2, <1>3

\* Changing one hologram of a sequence.
LEMMA ChangedAt ==
  ASSUME NEW s, s \in Seq(Range(s)), NEW o \in DOMAIN s, NEW h
  PROVE  LET t == [s EXCEPT ![o] = h] IN
         /\ t \in Seq(Range(t))
         /\ DOMAIN t = DOMAIN s
         /\ t[o] = h
         /\ \A n \in DOMAIN s \ {o} : t[n] = s[n]
<1> DEFINE t == [s EXCEPT ![o] = h]
           S == Range(s) \cup {h}
<1>1. s \in Seq(S) /\ h \in S
  OBVIOUS
<1> HIDE DEF S
<1>2. /\ t \in Seq(S) /\ Len(t) = Len(s) /\ DOMAIN t = DOMAIN s
      /\ t[o] = h /\ \A n \in DOMAIN s \ {o} : t[n] = s[n]
  BY <1>1
<1> HIDE DEF t
<1>3. t \in Seq(Range(t))
  <2>1. \A n \in 1..Len(t) : t[n] \in Range(t)
    BY <1>2 DEF Range
  <2> QED
    BY <1>2, <2>1
<1> QED
  BY <1>2, <1>3 DEF t

\* A hologram that is changed keeps the session sound if it keeps its widget and conforms.
LEMMA ChangeKeeps ==
  ASSUME NEW holograms, NEW names, Holds(holograms), Leads(names, holograms),
         NEW o \in DOMAIN holograms, NEW h, IsHologram(h),
         h.live => holograms[o].live /\ h.widget = holograms[o].widget /\ Conforms(registry, h.widget, h.props)
  PROVE  LET t == [holograms EXCEPT ![o] = h] IN Holds(t) /\ Leads(names, t)
<1> DEFINE t == [holograms EXCEPT ![o] = h]
<1>1. /\ t \in Seq(Range(t)) /\ DOMAIN t = DOMAIN holograms
      /\ t[o] = h /\ \A n \in DOMAIN holograms \ {o} : t[n] = holograms[n]
  BY ChangedAt DEF Holds
<1> HIDE DEF t
<1>2. \A n \in DOMAIN t : IsHologram(t[n]) /\ (t[n].live => Conforms(registry, t[n].widget, t[n].props))
  <2> SUFFICES ASSUME NEW n \in DOMAIN t
               PROVE  IsHologram(t[n]) /\ (t[n].live => Conforms(registry, t[n].widget, t[n].props))
    OBVIOUS
  <2>1. CASE n = o
    BY <1>1, <2>1
  <2>2. CASE n # o
    BY <1>1, <2>2 DEF Holds
  <2> QED
    BY <2>1, <2>2
<1>3. \A n \in DOMAIN t : t[n].live => holograms[n].live /\ t[n].widget = holograms[n].widget
  BY <1>1
<1>4. Leads(names, t)
  BY <1>1, <1>3 DEF Leads
<1> QED
  BY <1>1, <1>2, <1>4 DEF Holds, t

LEMMA PatchKeeps ==
  ASSUME NEW holograms, NEW names, Holds(holograms), Leads(names, holograms),
         NEW o \in DOMAIN holograms, holograms[o].live,
         NEW patch, Fits(registry, holograms[o].widget, patch)
  PROVE  LET t == [holograms EXCEPT ![o].props = Updated(@, patch)] IN
         Holds(t) /\ Leads(names, t)
<1> DEFINE old == holograms[o]
           h   == [widget |-> old.widget, props |-> Updated(old.props, patch), at |-> old.at, live |-> old.live]
<1>1. IsHologram(old) /\ Conforms(registry, old.widget, old.props)
  BY DEF Holds
<1>2. Conforms(registry, old.widget, Updated(old.props, patch))
  BY <1>1, PatchedConforms
<1>3. [old EXCEPT !.props = Updated(@, patch)] = h
  <2>1. \A w, p, a, l, q : [[widget |-> w, props |-> p, at |-> a, live |-> l] EXCEPT !.props = q]
                           = [widget |-> w, props |-> q, at |-> a, live |-> l]
    OBVIOUS
  <2>2. old = [widget |-> old.widget, props |-> old.props, at |-> old.at, live |-> old.live]
    BY <1>1 DEF IsHologram
  <2> HIDE DEF old
  <2> QED
    BY <2>1, <2>2
<1>4. [holograms EXCEPT ![o].props = Updated(@, patch)] = [holograms EXCEPT ![o] = h]
  BY <1>3
<1>5. IsHologram(h) /\ h.live = old.live /\ h.widget = old.widget /\ Conforms(registry, h.widget, h.props)
  BY <1>2 DEF IsHologram
<1> HIDE DEF h
<1> QED
  BY <1>4, <1>5, ChangeKeeps

LEMMA SpawnedKeeps ==
  ASSUME NEW st, IsOutcome(st), NEW d, Directed(d), Holds(st.objects), Leads(st.refs, st.objects)
  PROVE  LET to == Spawned(st, d) IN
         IsOutcome(to) /\ Holds(to.objects) /\ Leads(to.refs, to.objects)
<1> DEFINE to == Spawned(st, d)
<1>0. IsOutcome(to)
  BY SpawnedIs
<1>1. CASE to.objects = st.objects /\ to.refs = st.refs
  BY <1>0, <1>1
<1>2. CASE /\ Conforms(registry, d.widget, d.props)
           /\ d.ref \in DOMAIN st.refs /\ st.objects[st.refs[d.ref]].live
           /\ to.objects = [st.objects EXCEPT ![st.refs[d.ref]].props = Updated(@, d.props)]
           /\ to.refs = st.refs
  <2> DEFINE o == st.refs[d.ref]
  <2>1. o \in DOMAIN st.objects /\ st.objects[o].live /\ st.objects[o].widget = d.widget
    BY <1>2 DEF Leads, Directed
  <2>2. Fits(registry, st.objects[o].widget, d.props)
    BY <1>2, <2>1, ConformingFits
  <2> DEFINE t == [st.objects EXCEPT ![o].props = Updated(@, d.props)]
  <2>3. to.objects = t /\ to.refs = st.refs
    BY <1>2
  <2> HIDE DEF o, to
  <2>4. Holds(t) /\ Leads(st.refs, t)
    BY <2>1, <2>2, PatchKeeps
  <2> HIDE DEF t
  <2>5. Holds(to.objects) /\ Leads(to.refs, to.objects)
    BY <2>3, <2>4
  <2> QED
    BY <1>0, <2>5 DEF to
<1>3. CASE /\ Conforms(registry, d.widget, d.props)
           /\ to.objects = Append(st.objects, New(d))
           /\ to.refs = IF d.ref = NoRef THEN st.refs
                        ELSE Updated(st.refs, [r \in {d.ref} |-> Len(st.objects) + 1])
  <2> DEFINE o == Len(st.objects) + 1
  <2>1. /\ to.objects \in Seq(Range(to.objects))
        /\ DOMAIN to.objects = DOMAIN st.objects \cup {o} /\ o \notin DOMAIN st.objects
        /\ to.objects[o] = New(d)
        /\ \A n \in DOMAIN st.objects : to.objects[n] = st.objects[n]
    BY <1>3, AppendedTo DEF Holds
  <2>2. IsHologram(New(d)) /\ New(d).widget = d.widget /\ New(d).props = d.props
    BY DEF IsHologram, New
  <2> HIDE DEF o, to
  <2>3. Holds(to.objects)
    BY <1>3, <2>1, <2>2 DEF Holds
  <2>4. CASE d.ref = NoRef
    <3>1. to.refs = st.refs
      BY <1>3, <2>4
    <3>2. Leads(to.refs, to.objects)
      BY <2>1, <3>1 DEF Leads
    <3> QED
      BY <1>0, <2>3, <3>2 DEF to
  <2>5. CASE d.ref # NoRef
    <3>1. to.refs = Updated(st.refs, [r \in {d.ref} |-> o])
      BY <1>3, <2>5 DEF o
    <3>2. /\ DOMAIN to.refs = DOMAIN st.refs \cup {d.ref} /\ to.refs[d.ref] = o
          /\ \A r \in DOMAIN st.refs \ {d.ref} : to.refs[r] = st.refs[r]
      BY <3>1 DEF Updated
    <3>3. d.widget = WidgetUnder(d.ref)
      BY <2>5 DEF Directed
    <3>4. Leads(to.refs, to.objects)
      BY <2>1, <2>2, <2>5, <3>2, <3>3 DEF Leads
    <3> QED
      BY <1>0, <2>3, <3>4 DEF to
  <2> QED
    BY <2>4, <2>5
<1> QED
  BY <1>1, <1>2, <1>3, SpawnedIs

(***************************************************************************)
(* All directives of a tool call, by induction along the sequence.         *)
(***************************************************************************)

\* A set of naturals has a least member.
LEMMA Least ==
  ASSUME NEW T \in SUBSET Nat, T # {}
  PROVE  \E n \in T : \A m \in T : n <= m
<1> DEFINE Less == OpToRel(<, Nat)
<1>1. IsWellFoundedOn(Less, Nat)
  BY NatLessThanWellFounded
<1>2. \A m, n \in Nat : m < n => <<m, n>> \in Less
  BY DEF OpToRel
<1> HIDE DEF Less
<1>3. PICK n \in T : \A m \in T : <<m, n>> \notin Less
  BY <1>1, WFMin
<1>4. n \in Nat /\ \A m \in T : m \in Nat /\ ~(m < n)
  BY <1>2, <1>3
<1> QED
  BY <1>4

\* What holds at 0 and is kept by every step up to N holds up to N.
LEMMA UpTo ==
  ASSUME NEW N \in Nat, NEW S, 0 \in S, \A n \in 1..N : n - 1 \in S => n \in S
  PROVE  0..N \subseteq S
<1> DEFINE T == 0..N \ S
<1> SUFFICES ASSUME T # {} PROVE FALSE
  OBVIOUS
<1>1. T \in SUBSET Nat
  OBVIOUS
<1> HIDE DEF T
<1>2. PICK n \in T : \A m \in T : n <= m
  BY <1>1, Least
<1> USE DEF T
<1>3. n \in 1..N /\ n - 1 \in 0..N
  BY <1>2
<1>4. n - 1 \in S
  BY <1>2, <1>3
<1> QED
  BY <1>2, <1>3, <1>4

\* The outcomes of the first n directives, one after the other.
Unfolds(directives, f, n) ==
  f = [k \in 0..n |-> IF k = 0 THEN Untouched ELSE Spawned(f[k - 1], directives[k])]

LEMMA AppliedUnfold ==
  ASSUME NEW ds, Len(ds) \in Nat
  PROVE  \E f : /\ f[0] = Untouched
                /\ \A n \in 1..Len(ds) : f[n] = Spawned(f[n - 1], ds[n])
                /\ Applied(ds) = f[Len(ds)]
<1> DEFINE N == Len(ds)
           S == {n \in 0..N : \E f : Unfolds(ds, f, n)}
<1>1. 0 \in S
  <2>1. Unfolds(ds, [k \in 0..0 |-> Untouched], 0)
    BY DEF Unfolds
  <2> QED
    BY <2>1
<1>2. ASSUME NEW n \in 1..N, n - 1 \in S
      PROVE  n \in S
  <2>1. PICK f : Unfolds(ds, f, n - 1)
    BY <1>2
  <2> DEFINE g == [k \in 0..n |-> IF k = n THEN Spawned(f[n - 1], ds[n]) ELSE f[k]]
  <2>2. \A k \in 0..n : g[k] = IF k = 0 THEN Untouched ELSE Spawned(g[k - 1], ds[k])
    <3>1. ASSUME NEW k \in 0..(n - 1)
          PROVE  g[k] = f[k] /\ f[k] = IF k = 0 THEN Untouched ELSE Spawned(f[k - 1], ds[k])
      BY <2>1, <3>1 DEF Unfolds
    <3>2. g[n] = Spawned(f[n - 1], ds[n]) /\ g[n - 1] = f[n - 1]
      OBVIOUS
    <3>3. ASSUME NEW k \in 1..(n - 1) PROVE g[k - 1] = f[k - 1]
      OBVIOUS
    <3> HIDE DEF g
    <3>4. ASSUME NEW k \in 0..n
          PROVE  g[k] = IF k = 0 THEN Untouched ELSE Spawned(g[k - 1], ds[k])
      <4>1. CASE k = n
        BY <3>2, <4>1
      <4>2. CASE k = 0
        BY <3>1, <4>2
      <4>3. CASE k \in 1..(n - 1)
        BY <3>1, <3>3, <4>3
      <4> QED
        BY <4>1, <4>2, <4>3
    <3> QED
      BY <3>4
  <2>3. Unfolds(ds, g, n)
    <3>1. g = [k \in 0..n |-> g[k]]
      OBVIOUS
    <3> HIDE DEF g
    <3> QED
      BY <2>2, <3>1 DEF Unfolds
  <2> QED
    BY <2>3
<1> HIDE DEF S
<1>3. 0..N \subseteq S
  BY <1>1, <1>2, UpTo
<1>4. \E f : Unfolds(ds, f, N)
  BY <1>3 DEF S
<1> DEFINE after == CHOOSE f : Unfolds(ds, f, N)
<1>5. Applied(ds) = after[N]
  BY DEF Applied, Unfolds
<1>6. Unfolds(ds, after, N)
  BY <1>4
<1> HIDE DEF after
<1>7. after[0] = Untouched /\ \A n \in 1..N : after[n] = Spawned(after[n - 1], ds[n])
  BY <1>6 DEF Unfolds
<1> QED
  BY <1>5, <1>7

\* What has been spawned, when every directive made a hologram of its own or none.
Drawn(ds, st, n) ==
  \A o \in Range(st.spawned) :
    /\ o \in DOMAIN st.objects
    /\ \E i \in 1..n : st.objects[o].props = ds[i].props /\ st.objects[o].at = ds[i].at

\* What is known after n directives.
Outcome(ds, st, n) ==
  /\ IsOutcome(st) /\ Holds(st.objects) /\ Leads(st.refs, st.objects)
  /\ st.spawned \in Seq(Range(st.spawned))
  /\ (\A i \in 1..n : Conforms(registry, ds[i].widget, ds[i].props)) => ~st.refused
  /\ (\A i \in 1..n : ds[i].ref = NoRef) => Drawn(ds, st, n)

LEMMA SpawnedDraws ==
  ASSUME NEW ds, NEW n \in Nat \ {0}, NEW st, Outcome(ds, st, n - 1), Directed(ds[n])
  PROVE  Outcome(ds, Spawned(st, ds[n]), n)
<1> DEFINE d  == ds[n]
           to == Spawned(st, d)
           conforming == \A i \in 1..n : Conforms(registry, ds[i].widget, ds[i].props)
<1>1. IsOutcome(st) /\ Holds(st.objects) /\ Leads(st.refs, st.objects)
  BY DEF Outcome
<1>2. IsOutcome(to) /\ Holds(to.objects) /\ Leads(to.refs, to.objects)
  BY <1>1, SpawnedKeeps
<1>3. n \in 1..n /\ 1..(n - 1) \subseteq 1..n
  OBVIOUS
<1>4. \/ /\ ~Conforms(registry, d.widget, d.props)
         /\ to.objects = st.objects /\ to.spawned = st.spawned
      \/ /\ d.ref \in DOMAIN st.refs
         /\ to.spawned = st.spawned /\ to.refused = st.refused
      \/ /\ to.objects = Append(st.objects, New(d))
         /\ to.spawned = Append(st.spawned, Len(st.objects) + 1)
         /\ to.refused = st.refused
  BY <1>1, SpawnedIs
<1> HIDE DEF to
<1>5. to.spawned \in Seq(Range(to.spawned))
  <2>1. st.spawned \in Seq(Range(st.spawned))
    BY DEF Outcome
  <2>2. to.spawned = st.spawned \/ to.spawned = Append(st.spawned, Len(st.objects) + 1)
    BY <1>4
  <2>3. CASE to.spawned = Append(st.spawned, Len(st.objects) + 1)
    BY <2>1, <2>3, AppendedTo
  <2>4. CASE to.spawned = st.spawned
    BY <2>1, <2>4
  <2> QED
    BY <2>2, <2>3, <2>4
<1>6. conforming => ~to.refused
  <2>1. conforming => ~st.refused /\ Conforms(registry, d.widget, d.props)
    BY <1>3 DEF Outcome
  <2> QED
    BY <1>4, <2>1
<1>7. ASSUME \A i \in 1..n : ds[i].ref = NoRef PROVE Drawn(ds, to, n)
  <2>1. Drawn(ds, st, n - 1) /\ d.ref = NoRef
    BY <1>3, <1>7 DEF Outcome
  <2>2. d.ref \notin DOMAIN st.refs
    BY <1>1, <2>1 DEF Leads
  <2>3. CASE to.objects = st.objects /\ to.spawned = st.spawned
    BY <1>3, <2>1, <2>3 DEF Drawn
  <2>4. CASE to.objects = Append(st.objects, New(d)) /\ to.spawned = Append(st.spawned, Len(st.objects) + 1)
    <3> DEFINE o == Len(st.objects) + 1
    <3>1. /\ DOMAIN to.objects = DOMAIN st.objects \cup {o}
          /\ to.objects[o] = New(d) /\ \A m \in DOMAIN st.objects : to.objects[m] = st.objects[m]
      BY <1>1, <2>4, AppendedTo DEF Holds
    <3>2. Range(to.spawned) \subseteq Range(st.spawned) \cup {o}
      <4>1. st.spawned \in Seq(Range(st.spawned))
        BY DEF Outcome
      <4>2. /\ DOMAIN to.spawned = DOMAIN st.spawned \cup {Len(st.spawned) + 1}
            /\ to.spawned[Len(st.spawned) + 1] = o
            /\ \A m \in DOMAIN st.spawned : to.spawned[m] = st.spawned[m]
        BY <2>4, <4>1, AppendedTo
      <4> QED
        BY <4>2 DEF Range
    <3> HIDE DEF o
    <3>3. New(d).props = ds[n].props /\ New(d).at = ds[n].at
      BY DEF New
    <3>4. ASSUME NEW m \in Range(to.spawned)
          PROVE  /\ m \in DOMAIN to.objects
                 /\ \E i \in 1..n : to.objects[m].props = ds[i].props /\ to.objects[m].at = ds[i].at
      <4>1. CASE m = o
        BY <1>3, <3>1, <3>3, <4>1
      <4>2. CASE m \in Range(st.spawned)
        BY <1>3, <2>1, <3>1, <4>2 DEF Drawn
      <4> QED
        BY <3>2, <4>1, <4>2
    <3> QED
      BY <3>4 DEF Drawn
  <2> QED
    BY <1>4, <2>2, <2>3, <2>4
<1> QED
  BY <1>2, <1>5, <1>6, <1>7 DEF Outcome, to

LEMMA AppliedKeeps ==
  ASSUME NEW ds, Len(ds) \in Nat, \A n \in 1..Len(ds) : Directed(ds[n]), Sound
  PROVE  Outcome(ds, Applied(ds), Len(ds))
<1> DEFINE N == Len(ds)
<1>1. PICK f : /\ f[0] = Untouched
               /\ \A n \in 1..N : f[n] = Spawned(f[n - 1], ds[n])
               /\ Applied(ds) = f[N]
  BY AppliedUnfold
<1> DEFINE S == {n \in 0..N : Outcome(ds, f[n], n)}
<1>2. Outcome(ds, Untouched, 0)
  BY DEF Outcome, Sound, IsOutcome, Untouched, Drawn, Range
<1>3. 0 \in S
  BY <1>1, <1>2
<1>4. ASSUME NEW n \in 1..N, n - 1 \in S PROVE n \in S
  <2>1. Outcome(ds, f[n - 1], n - 1) /\ Directed(ds[n]) /\ n \in Nat \ {0}
    BY <1>4
  <2>2. Outcome(ds, Spawned(f[n - 1], ds[n]), n)
    BY <2>1, SpawnedDraws
  <2> QED
    BY <1>1, <2>2
<1> HIDE DEF S
<1>5. 0..N \subseteq S
  BY <1>3, <1>4, UpTo
<1> QED
  BY <1>1, <1>5 DEF S

(***************************************************************************)
(* What the tools ask for.                                                 *)
(***************************************************************************)

LEMMA WidgetNames ==
  /\ Widgets = DOMAIN Fallback1 \cup DOMAIN Fallback2 \cup DOMAIN Fallback3
               \cup DOMAIN Fallback4 \cup DOMAIN Fallback5
  /\ DOMAIN Fallback1 = {"weather_orb", "timer", "panel", "chart_3d", "model_viewer"}
  /\ DOMAIN Fallback2 = {"media_player", "map_3d", "smart_home_panel", "vision_annotation",
                         "bounding_box_3d", "live_caption"}
  /\ DOMAIN Fallback3 = {"vision_feed", "scene_label", "clock", "world_clock", "calendar",
                         "stocks_ticker", "news_feed"}
  /\ DOMAIN Fallback4 = {"translator", "navigation_arrow", "measuring_tape", "data_table",
                         "sticky_note", "web_panel", "text_label"}
  /\ DOMAIN Fallback5 = {"todo_list", "image_board"}
<1>1. Widgets = DOMAIN Fallback1 \cup DOMAIN Fallback2 \cup DOMAIN Fallback3
               \cup DOMAIN Fallback4 \cup DOMAIN Fallback5
  <2> DEFINE F4 == Updated(Fallback4, Fallback5)
             F3 == Updated(Fallback3, F4)
             F2 == Updated(Fallback2, F3)
  <2>1. DOMAIN F4 = DOMAIN Fallback4 \cup DOMAIN Fallback5
    BY DEF Updated
  <2>2. DOMAIN F3 = DOMAIN Fallback3 \cup DOMAIN F4
    BY UpdatedIs
  <2>3. DOMAIN F2 = DOMAIN Fallback2 \cup DOMAIN F3
    BY UpdatedIs
  <2>4. Widgets = DOMAIN Fallback1 \cup DOMAIN F2
    BY UpdatedIs DEF Widgets, Fallback
  <2> HIDE DEF F4, F3, F2
  <2> QED
    BY <2>1, <2>2, <2>3, <2>4
<1>2. DOMAIN Fallback1 = {"weather_orb", "timer", "panel", "chart_3d", "model_viewer"}
  BY DEF Fallback1
<1>3. DOMAIN Fallback2 = {"media_player", "map_3d", "smart_home_panel", "vision_annotation",
                          "bounding_box_3d", "live_caption"}
  BY DEF Fallback2
<1>4. DOMAIN Fallback3 = {"vision_feed", "scene_label", "clock", "world_clock", "calendar",
                          "stocks_ticker", "news_feed"}
  BY DEF Fallback3
<1>5. DOMAIN Fallback4 = {"translator", "navigation_arrow", "measuring_tape", "data_table",
                          "sticky_note", "web_panel", "text_label"}
  BY DEF Fallback4
<1>6. DOMAIN Fallback5 = {"todo_list", "image_board"}
  BY DEF Fallback5
<1> QED
  BY <1>1, <1>2, <1>3, <1>4, <1>5, <1>6

AllDirected(ds) == Len(ds) \in Nat /\ \A n \in 1..Len(ds) : Directed(ds[n])

LEMMA ShowDirected ==
  ASSUME NEW w, NEW props, NEW ref, ref = NoRef \/ w = WidgetUnder(ref)
  PROVE  AllDirected(<<Show(w, props, ref)>>)
BY DEF AllDirected, Directed, Show, Place

LEMMA NothingDirected == AllDirected(<<>>)
BY DEF AllDirected

LEMMA PanelsDirected ==
  ASSUME NEW ref \in {"time_panel", "notes_panel", "info_panel", "ocr_panel", NoRef}
  PROVE  AllDirected(Panel(ref))
<1>1. ref = NoRef \/ "panel" = WidgetUnder(ref)
  BY DEF WidgetUnder
<1> QED
  BY <1>1, ShowDirected DEF Panel

LEMMA PlainDirected ==
  ASSUME NEW t \in PlainTools, NEW ds \in Plain(t)
  PROVE  AllDirected(ds)
<1>1. CASE t = "get_weather"
  <2>1. "weather_orb" = WidgetUnder("weather")
    BY DEF WidgetUnder
  <2>2. \A c \in Feed : AllDirected(WeatherOrb(c))
    BY <2>1, ShowDirected DEF WeatherOrb
  <2> QED
    BY <1>1, <2>2 DEF Plain, GetWeather
<1>2. CASE t = "start_timer"
  BY <1>2, ShowDirected DEF Plain, StartTimer, Timer
<1>3. CASE t \in {"get_time", "list_notes", "take_note", "set_reminder", "show_text", "show_panel", "read_text"}
  <2>1. \/ ds = <<>>
        \/ \E ref \in {"time_panel", "notes_panel", "info_panel", "ocr_panel", NoRef} : ds = Panel(ref)
    BY <1>3 DEF Plain, GetTime, ListNotes, TakeNote, NotesPanel, AskBack, SetReminder, ShowText, ReadText
  <2> QED
    BY <2>1, PanelsDirected, NothingDirected
<1>4. CASE t = "open_widget"
  BY <1>4, ShowDirected DEF Plain, OpenWidget
<1>5. CASE t = "show_widget"
  <2>1. \A w \in Opened : WidgetUnder(w) = w
    BY OpenedAssumption, WidgetNames DEF WidgetUnder
  <2>2. PICK w \in Opened : \E props \in Given(w) : ds = <<Show(w, props, w)>>
    BY <1>5 DEF Plain, ShowWidget
  <2> QED
    BY <2>1, <2>2, ShowDirected
<1>6. CASE t \in {"translate_text", "translate_view"}
  <2>1. "translator" = WidgetUnder("translator")
    BY DEF WidgetUnder
  <2>2. \A mode : AllDirected(Translation(mode))
    BY <2>1, ShowDirected DEF Translation
  <2> QED
    BY <1>6, <2>2, NothingDirected DEF Plain, TranslateText, TranslateView, AskBack
<1>7. CASE t = "identify_sound"
  <2>1. "live_caption" = WidgetUnder("live_caption")
    BY DEF WidgetUnder
  <2> QED
    BY <1>7, <2>1, ShowDirected, NothingDirected DEF Plain, IdentifySound, Caption
<1>8. CASE t \in {"web_search", "get_news", "get_stocks", "get_calendar", "navigate_to", "measure"}
  <2>1. /\ "web_panel" = WidgetUnder("web_panel") /\ "news_feed" = WidgetUnder("news_feed")
        /\ "stocks_ticker" = WidgetUnder("stocks") /\ "calendar" = WidgetUnder("calendar")
        /\ "navigation_arrow" = WidgetUnder("nav_arrow") /\ "measuring_tape" = WidgetUnder("measure")
    BY DEF WidgetUnder
  <2>2. \/ ds = <<>>
        \/ \E props : \/ ds = <<Show("web_panel", props, "web_panel")>>
                      \/ ds = <<Show("news_feed", props, "news_feed")>>
                      \/ ds = <<Show("stocks_ticker", props, "stocks")>>
                      \/ ds = <<Show("calendar", props, "calendar")>>
                      \/ ds = <<Show("navigation_arrow", props, "nav_arrow")>>
                      \/ ds = <<Show("measuring_tape", props, "measure")>>
    BY <1>8 DEF Plain, WebSearch, AskBack, GetNews, GetStocks, GetCalendar, NavigateTo, Measure
  <2> QED
    BY <2>1, <2>2, ShowDirected, NothingDirected
<1> QED
  BY <1>1, <1>2, <1>3, <1>4, <1>5, <1>6, <1>7, <1>8 DEF PlainTools

\* The arguments of a language model change what is shown, not under which ref.
LEMMA WilledDirected ==
  ASSUME NEW t, NEW ds \in Willed(t)
  PROVE  t \in PassesOn /\ AllDirected(ds)
<1>1. CASE t = "start_timer"
  BY <1>1, ShowDirected DEF Willed, Timer, PassesOn
<1>2. CASE t \in {"show_text", "show_panel"}
  <2>1. "panel" = WidgetUnder("info_panel")
    BY DEF WidgetUnder
  <2>2. \E props : ds = <<Show("panel", props, "info_panel")>>
    BY <1>2 DEF Willed, WrongPanel
  <2> QED
    BY <1>2, <2>1, <2>2, ShowDirected DEF PassesOn
<1>3. CASE t = "open_widget"
  <2>1. PICK w \in Opened : \E props \in Given(w) : ds = <<Show(w, props, NoRef)>>
    BY <1>3 DEF Willed, OpenGiven
  <2> QED
    BY <1>3, <2>1, ShowDirected DEF PassesOn
<1> QED
  BY <1>1, <1>2, <1>3 DEF Willed

LEMMA CalledDirected ==
  ASSUME NEW t \in PlainTools, CallPlain(t)
  PROVE  \E ds : /\ AllDirected(ds)
                 /\ Render(t, ds, <<>>)
                 /\ ds \in Plain(t) \/ (t \in PassesOn /\ caller = "model")
<1>1. PICK ds \in Plain(t) \cup (IF caller = "model" THEN Willed(t) ELSE {}) : Render(t, ds, <<>>)
  BY DEF CallPlain
<1>2. CASE ds \in Plain(t)
  BY <1>1, <1>2, PlainDirected
<1>3. CASE caller = "model" /\ ds \in Willed(t)
  BY <1>1, <1>3, WilledDirected
<1> QED
  BY <1>1, <1>2, <1>3

(***************************************************************************)
(* The schemas.                                                            *)
(***************************************************************************)

\* Two tables of different widgets as one.
LEMMA Joined ==
  ASSUME NEW f, NEW g, DOMAIN f \cap DOMAIN g = {}
  PROVE  /\ DOMAIN Updated(f, g) = DOMAIN f \cup DOMAIN g
         /\ \A w \in DOMAIN f : Updated(f, g)[w] = f[w]
         /\ \A w \in DOMAIN g : Updated(f, g)[w] = g[w]
BY UpdatedIs

LEMMA FallbackIs ==
  /\ \A w \in DOMAIN Fallback1 : Fallback[w] = Fallback1[w]
  /\ \A w \in DOMAIN Fallback2 : Fallback[w] = Fallback2[w]
  /\ \A w \in DOMAIN Fallback3 : Fallback[w] = Fallback3[w]
  /\ \A w \in DOMAIN Fallback4 : Fallback[w] = Fallback4[w]
  /\ \A w \in DOMAIN Fallback5 : Fallback[w] = Fallback5[w]
<1> DEFINE F4 == Updated(Fallback4, Fallback5)
           F3 == Updated(Fallback3, F4)
           F2 == Updated(Fallback2, F3)
<1>1. Fallback = Updated(Fallback1, F2)
  BY DEF Fallback
<1>2. /\ DOMAIN F4 = DOMAIN Fallback4 \cup DOMAIN Fallback5
      /\ \A w \in DOMAIN Fallback4 : F4[w] = Fallback4[w]
      /\ \A w \in DOMAIN Fallback5 : F4[w] = Fallback5[w]
  <2>1. DOMAIN Fallback4 \cap DOMAIN Fallback5 = {}
    BY WidgetNames
  <2> QED
    BY <2>1, Joined
<1> HIDE DEF F4
<1>3. /\ DOMAIN F3 = DOMAIN Fallback3 \cup DOMAIN F4
      /\ \A w \in DOMAIN Fallback3 : F3[w] = Fallback3[w]
      /\ \A w \in DOMAIN F4 : F3[w] = F4[w]
  <2>1. DOMAIN Fallback3 \cap DOMAIN F4 = {}
    BY <1>2, WidgetNames
  <2> QED
    BY <2>1, Joined
<1> HIDE DEF F3
<1>4. /\ DOMAIN F2 = DOMAIN Fallback2 \cup DOMAIN F3
      /\ \A w \in DOMAIN Fallback2 : F2[w] = Fallback2[w]
      /\ \A w \in DOMAIN F3 : F2[w] = F3[w]
  <2>1. DOMAIN Fallback2 \cap DOMAIN F3 = {}
    BY <1>2, <1>3, WidgetNames
  <2> QED
    BY <2>1, Joined
<1> HIDE DEF F2
<1>5. /\ \A w \in DOMAIN Fallback1 : Fallback[w] = Fallback1[w]
      /\ \A w \in DOMAIN F2 : Fallback[w] = F2[w]
  <2>1. DOMAIN Fallback1 \cap DOMAIN F2 = {}
    BY <1>2, <1>3, <1>4, WidgetNames
  <2>2. /\ \A w \in DOMAIN Fallback1 : Updated(Fallback1, F2)[w] = Fallback1[w]
        /\ \A w \in DOMAIN F2 : Updated(Fallback1, F2)[w] = F2[w]
    BY <2>1, Joined
  <2> QED
    BY <1>1, <2>2
<1> QED
  BY <1>2, <1>3, <1>4, <1>5

LEMMA PublishedNames ==
  /\ DOMAIN Published = DOMAIN Published1 \cup DOMAIN Published2 \cup DOMAIN Published3 \cup DOMAIN Published4
  /\ DOMAIN Published1 = {"weather_orb", "timer", "panel", "chart_3d", "model_viewer"}
  /\ DOMAIN Published2 = {"media_player", "map_3d", "smart_home_panel", "vision_annotation",
                          "bounding_box_3d", "live_caption"}
  /\ DOMAIN Published3 = {"vision_feed", "scene_label", "clock", "world_clock"}
  /\ DOMAIN Published4 = {"data_table", "sticky_note", "text_label", "todo_list", "image_board"}
<1>2. DOMAIN Published = DOMAIN Published1 \cup DOMAIN Published2 \cup DOMAIN Published3 \cup DOMAIN Published4
  <2> DEFINE F3 == Updated(Published3, Published4)
             F2 == Updated(Published2, F3)
  <2>1. DOMAIN F3 = DOMAIN Published3 \cup DOMAIN Published4
    BY UpdatedIs
  <2>2. DOMAIN F2 = DOMAIN Published2 \cup DOMAIN F3
    BY UpdatedIs
  <2>3. DOMAIN Published = DOMAIN Published1 \cup DOMAIN F2
    BY UpdatedIs DEF Published
  <2> HIDE DEF F3, F2
  <2> QED
    BY <2>1, <2>2, <2>3
<1>3. DOMAIN Published1 = {"weather_orb", "timer", "panel", "chart_3d", "model_viewer"}
  BY DEF Published1
<1>4. DOMAIN Published2 = {"media_player", "map_3d", "smart_home_panel", "vision_annotation",
                           "bounding_box_3d", "live_caption"}
  BY DEF Published2
<1>5. DOMAIN Published3 = {"vision_feed", "scene_label", "clock", "world_clock"}
  BY DEF Published3
<1>6. DOMAIN Published4 = {"data_table", "sticky_note", "text_label", "todo_list", "image_board"}
  BY DEF Published4
<1> QED
  BY <1>2, <1>3, <1>4, <1>5, <1>6

LEMMA PublishedIs ==
  /\ \A w \in DOMAIN Published1 : Published[w] = Published1[w]
  /\ \A w \in DOMAIN Published2 : Published[w] = Published2[w]
<1> DEFINE F3 == Updated(Published3, Published4)
           F2 == Updated(Published2, F3)
<1>1. Published = Updated(Published1, F2)
  BY DEF Published
<1>2. DOMAIN F3 = DOMAIN Published3 \cup DOMAIN Published4
  BY UpdatedIs
<1> HIDE DEF F3
<1>3. /\ DOMAIN F2 = DOMAIN Published2 \cup DOMAIN F3
      /\ \A w \in DOMAIN Published2 : F2[w] = Published2[w]
  <2>1. DOMAIN Published2 \cap DOMAIN F3 = {}
    BY <1>2, PublishedNames
  <2> QED
    BY <2>1, Joined
<1> HIDE DEF F2
<1>4. /\ \A w \in DOMAIN Published1 : Published[w] = Published1[w]
      /\ \A w \in DOMAIN F2 : Published[w] = F2[w]
  <2>1. DOMAIN Published1 \cap DOMAIN F2 = {}
    BY <1>2, <1>3, PublishedNames
  <2>2. /\ \A w \in DOMAIN Published1 : Updated(Published1, F2)[w] = Published1[w]
        /\ \A w \in DOMAIN F2 : Updated(Published1, F2)[w] = F2[w]
    BY <2>1, Joined
  <2> QED
    BY <1>1, <2>2
<1> QED
  BY <1>3, <1>4

\* A published schema wins, a built-in one fills the gap.
LEMMA CatalogIs ==
  ASSUME NEW catalog, NEW w \in Widgets
  PROVE  \/ w \in DOMAIN Published /\ Catalog(catalog)[w] = Published[w]
         \/ Catalog(catalog)[w] = Fallback[w]
<1>1. /\ \A k \in DOMAIN Published : Loaded[k] = Published[k]
      /\ \A k \in DOMAIN Fallback \ DOMAIN Published : Loaded[k] = Fallback[k]
  BY UpdatedIs DEF Loaded
<1> QED
  BY <1>1 DEF Catalog, Widgets

Agrees(spec, patch) ==
  /\ spec.closed => DOMAIN patch \subseteq DOMAIN spec.props
  /\ \A k \in DOMAIN patch \cap DOMAIN spec.props : patch[k] \in spec.props[k]
Meets(spec, props) == spec.required \subseteq DOMAIN props /\ Agrees(spec, props)

\* What a touch writes is in the schema of its widget.
LEMMA TouchesFit ==
  /\ \A s \in {"running", "paused"} : Fits(registry, "timer", [state |-> s, remaining_ms |-> "int"])
  /\ \A s \in {"playing", "paused"} : Fits(registry, "media_player", [state |-> s])
<1>1. ASSUME NEW s \in {"running", "paused"}
      PROVE  Fits(registry, "timer", [state |-> s, remaining_ms |-> "int"])
  <2> DEFINE patch == [state |-> s, remaining_ms |-> "int"]
  <2>1. Catalog(registry)["timer"] \in {Fallback1["timer"], Published1["timer"]}
    BY CatalogIs, FallbackIs, PublishedIs, WidgetNames, PublishedNames
  <2>2. Agrees(Fallback1["timer"], patch)
    BY DEF Agrees, Fallback1, Open, Running, Int1
  <2>3. Agrees(Published1["timer"], patch)
    <3>1. Published1["timer"] = Closed({"duration_ms", "remaining_ms", "state"}, Fallback1["timer"].props)
      BY DEF Published1
    <3>2. /\ {"state", "remaining_ms"} \subseteq DOMAIN Fallback1["timer"].props
          /\ Fallback1["timer"].props["state"] = Running /\ Fallback1["timer"].props["remaining_ms"] = Int1
      BY DEF Fallback1, Open
    <3>3. patch["state"] = s /\ patch["remaining_ms"] = "int" /\ DOMAIN patch = {"state", "remaining_ms"}
      OBVIOUS
    <3> HIDE DEF patch
    <3> QED
      BY <3>1, <3>2, <3>3 DEF Agrees, Closed, Running, Int1
  <2> HIDE DEF patch
  <2>4. Agrees(Catalog(registry)["timer"], patch)
    BY <2>1, <2>2, <2>3
  <2> QED
    BY <2>4 DEF Fits, Agrees, patch
<1>2. ASSUME NEW s \in {"playing", "paused"}
      PROVE  Fits(registry, "media_player", [state |-> s])
  <2> DEFINE patch == [state |-> s]
  <2>1. Catalog(registry)["media_player"] \in {Fallback2["media_player"], Published2["media_player"]}
    BY CatalogIs, FallbackIs, PublishedIs, WidgetNames, PublishedNames
  <2>2. Agrees(Fallback2["media_player"], patch)
    BY DEF Agrees, Fallback2, Open
  <2>3. Agrees(Published2["media_player"], patch)
    BY DEF Agrees, Published2, Closed
  <2> HIDE DEF patch
  <2>4. Agrees(Catalog(registry)["media_player"], patch)
    BY <2>1, <2>2, <2>3
  <2> QED
    BY <2>4 DEF Fits, Agrees, patch
<1> QED
  BY <1>1, <1>2

(***************************************************************************)
(* The steps.                                                              *)
(***************************************************************************)

LEMMA RenderKeeps ==
  ASSUME Sound, NEW t, NEW ds, NEW annotations, AllDirected(ds), Render(t, ds, annotations),
         UNCHANGED registry
  PROVE  Sound'
<1> DEFINE st == Applied(ds)
<1>1. Holds(st.objects) /\ Leads(st.refs, st.objects)
  BY AppliedKeeps DEF AllDirected, Outcome
<1>2. objects' = st.objects /\ refs' = st.refs
  BY DEF Render
<1> HIDE DEF st
<1>3. Holds(objects') /\ Leads(refs', objects')
  BY <1>1, <1>2
<1> QED
  BY <1>3 DEF Sound, Holds, Leads

LEMMA UntrackKeeps ==
  ASSUME Sound, NEW o, Live(o), Untrack(o), UNCHANGED registry
  PROVE  Sound'
<1> DEFINE h == [widget |-> objects[o].widget, props |-> <<>>, at |-> "nowhere", live |-> FALSE]
           t == [objects EXCEPT ![o] = h]
<1>1. o \in DOMAIN objects /\ IsHologram(h) /\ h.live = FALSE
  BY DEF Live, IsHologram
<1>2. objects' = t
  BY DEF Untrack
<1>3. Holds(t) /\ Leads(refs, t)
  <2>1. Holds(objects) /\ Leads(refs, objects)
    BY DEF Sound
  <2> HIDE DEF h
  <2> QED
    BY <1>1, <2>1, ChangeKeeps
<1> HIDE DEF t
<1>4. /\ DOMAIN refs' \subseteq DOMAIN refs
      /\ \A r \in DOMAIN refs' : refs'[r] = refs[r]
  BY DEF Untrack
<1>5. Leads(refs', objects')
  BY <1>2, <1>3, <1>4 DEF Leads
<1>6. Holds(objects')
  BY <1>2, <1>3
<1> QED
  BY <1>5, <1>6 DEF Sound, Holds, Leads

LEMMA TouchKeeps ==
  ASSUME Sound, NEW o, TouchToggle(o)
  PROVE  Sound'
<1> DEFINE patch == IF objects[o].widget = "timer" THEN [state |-> NextState(o), remaining_ms |-> "int"]
                    ELSE [state |-> NextState(o)]
           t == [objects EXCEPT ![o].props = Updated(@, patch)]
<1>1. /\ o \in DOMAIN objects /\ objects[o].live /\ objects[o].widget \in {"timer", "media_player"}
      /\ UNCHANGED <<refs, registry>>
  BY DEF TouchToggle, Live, Quiet
<1>2. objects' = t
  BY DEF TouchToggle, UpdateProps
<1>3. /\ objects[o].widget = "timer" => NextState(o) \in {"running", "paused"}
      /\ objects[o].widget = "media_player" => NextState(o) \in {"playing", "paused"}
  BY DEF NextState
<1>4. Fits(registry, objects[o].widget, patch)
  BY <1>1, <1>3, TouchesFit
<1> HIDE DEF patch
<1>5. Holds(t) /\ Leads(refs, t)
  <2>1. Holds(objects) /\ Leads(refs, objects)
    BY DEF Sound
  <2> QED
    BY <1>1, <1>4, <2>1, PatchKeeps
<1> HIDE DEF t
<1>6. Holds(objects') /\ Leads(refs', objects')
  BY <1>1, <1>2, <1>5
<1> QED
  BY <1>1, <1>6 DEF Sound, Holds, Leads

\* What the headset may have detected.
Things == [label : Labels, at : Places \cup {"nowhere"}]
SceneOK == sees \in Seq(Things)

LEMMA SceneIs ==
  ASSUME SceneOK
  PROVE  Scene \in Seq(Things)
<1>1. Canned \in Seq(Things)
  BY ToolsAssumption DEF Canned, Thing, Things
<1> QED
  BY <1>1 DEF SceneOK, Scene

LEMMA SceneLabels ==
  ASSUME SceneOK, NEW i \in DOMAIN Scene
  PROVE  Scene[i].label \in Labels
<1>1. Scene \in Seq(Things)
  BY SceneIs
<1>2. i \in 1..Len(Scene)
  BY <1>1
<1>3. Scene[i] \in Things
  BY <1>1, <1>2
<1> QED
  BY <1>3 DEF Things

LEMMA ScenesAre ==
  ASSUME NEW things \in Scenes
  PROVE  things \in Seq(Things)
<1>1. Placed \subseteq Things
  BY DEF Placed, Thing, Things
<1>2. CASE \E n \in Labels : things = <<Thing(n, "nowhere")>>
  BY <1>2 DEF Thing, Things
<1>3. CASE \E a, b \in Placed : things = <<a, b>>
  BY <1>1, <1>3
<1>4. CASE things = <<>>
  BY <1>4
<1> QED
  BY <1>2, <1>3, <1>4 DEF Scenes

\* The markers of the things in view.
LEMMA MarkersDirected ==
  /\ \A thing, detail : Directed(Marker(thing, detail)) /\ Marker(thing, detail).ref = NoRef
  /\ \A thing : AllDirected(FindDirectives(thing))
  /\ \A thing : AllDirected(<<Seen(thing)>>)
  /\ \A thing, detail : AllDirected(<<Marker(thing, detail)>>)
<1>1. ASSUME NEW thing, NEW detail
      PROVE  Directed(Marker(thing, detail)) /\ Marker(thing, detail).ref = NoRef
  BY DEF Directed, Marker, Place
<1>2. ASSUME NEW thing PROVE AllDirected(FindDirectives(thing))
  BY <1>1 DEF AllDirected, FindDirectives, Directed, Place
<1>3. ASSUME NEW thing PROVE AllDirected(<<Seen(thing)>>)
  BY <1>1 DEF AllDirected, Seen
<1>4. ASSUME NEW thing, NEW detail PROVE AllDirected(<<Marker(thing, detail)>>)
  BY <1>1 DEF AllDirected
<1> QED
  BY <1>1, <1>2, <1>3, <1>4

LEMMA ViewDirected ==
  ASSUME SceneOK
  PROVE  AllDirected([i \in DOMAIN Scene |-> Seen(Scene[i])])
<1> DEFINE ds == [i \in DOMAIN Scene |-> Seen(Scene[i])]
<1>1. Scene \in Seq(Things)
  BY SceneIs
<1>2. Len(ds) \in Nat /\ Len(ds) = Len(Scene)
  <2>1. DOMAIN Scene = 1..Len(Scene) /\ Len(Scene) \in Nat
    BY <1>1
  <2> QED
    BY <2>1
<1>3. \A i \in 1..Len(ds) : ds[i] = Seen(Scene[i])
  BY <1>1, <1>2
<1> HIDE DEF ds
<1>4. \A i \in 1..Len(ds) : Directed(ds[i])
  BY <1>3, MarkersDirected DEF Seen
<1> QED
  BY <1>2, <1>4 DEF AllDirected, ds

LEMMA SInvInit == Init => Sound /\ SceneOK
<1> SUFFICES ASSUME Init PROVE Sound /\ SceneOK
  OBVIOUS
<1>1. objects = <<>> /\ refs = <<>> /\ sees = <<>>
  BY DEF Init
<1> QED
  BY <1>1 DEF Sound, Holds, Leads, SceneOK

LEMMA SoundStep == Sound /\ SceneOK /\ [Next]_vars => (Sound /\ SceneOK)'
<1> SUFFICES ASSUME Sound, SceneOK, [Next]_vars PROVE (Sound /\ SceneOK)'
  OBVIOUS
<1>1. CASE UNCHANGED <<registry, desk>>
  <2>1. CASE UNCHANGED sees
    BY <1>1, <2>1 DEF desk, Sound, Holds, Leads, SceneOK
  <2>2. CASE \E things \in Scenes : sees' = things
    BY <1>1, <2>2, ScenesAre DEF desk, Sound, Holds, Leads, SceneOK
  <2>3. UNCHANGED sees \/ \E things \in Scenes : sees' = things
    BY DEF Next, vars, Hear, ModelCalls, Cut, CallPlain, StopTimer, DescribeView, IdentifyObject, RememberObject,
           FindObject, HearSound, Detect, TouchClose, TouchToggle, TouchOther, Quiet
  <2> QED
    BY <2>1, <2>2, <2>3
<1>2. CASE \E t \in PlainTools : CallPlain(t)
  <2>1. PICK t \in PlainTools : CallPlain(t)
    BY <1>2
  <2>2. PICK ds : AllDirected(ds) /\ Render(t, ds, <<>>)
    BY <2>1, CalledDirected
  <2>3. UNCHANGED <<registry, sees>>
    BY <2>1 DEF CallPlain
  <2>4. Sound'
    BY <2>2, <2>3, RenderKeeps
  <2> QED
    BY <2>3, <2>4 DEF SceneOK
<1>3. CASE StopTimer
  <2>1. \/ \E o : Live(o) /\ Untrack(o) /\ UNCHANGED registry
        \/ UNCHANGED <<registry, desk>>
    BY <1>3 DEF StopTimer
  <2>2. Sound'
    BY <2>1, <1>1, UntrackKeeps
  <2> QED
    BY <1>3, <2>2 DEF StopTimer, SceneOK
<1>4. CASE DescribeView \/ IdentifyObject \/ RememberObject \/ FindObject \/ HearSound
  <2>1. \E t, ds, annotations : AllDirected(ds) /\ Render(t, ds, annotations) /\ UNCHANGED <<registry, sees>>
    <3>1. CASE DescribeView
      BY <3>1, ViewDirected DEF DescribeView
    <3>2. CASE IdentifyObject
      BY <3>2, MarkersDirected DEF IdentifyObject
    <3>3. CASE RememberObject
      BY <3>3, MarkersDirected, NothingDirected DEF RememberObject
    <3>4. CASE FindObject
      BY <3>4, MarkersDirected, NothingDirected DEF FindObject
    <3>5. CASE HearSound
      <4>1. "live_caption" = WidgetUnder("live_caption")
        BY DEF WidgetUnder
      <4>2. AllDirected(Caption)
        BY <4>1, ShowDirected DEF Caption
      <4> QED
        BY <3>5, <4>2 DEF HearSound
    <3> QED
      BY <1>4, <3>1, <3>2, <3>3, <3>4, <3>5
  <2>2. Sound'
    BY <2>1, RenderKeeps
  <2> QED
    BY <2>1, <2>2 DEF SceneOK
<1>5. CASE \E o \in Ids : TouchClose(o)
  <2>1. PICK o \in Ids : Live(o) /\ Untrack(o) /\ UNCHANGED <<registry, sees>>
    BY <1>5 DEF TouchClose, Quiet
  <2> QED
    BY <2>1, UntrackKeeps DEF SceneOK
<1>6. CASE \E o \in Ids : TouchToggle(o)
  <2>1. PICK o \in Ids : TouchToggle(o)
    BY <1>6
  <2>2. UNCHANGED sees
    BY <2>1 DEF TouchToggle, Quiet
  <2> QED
    BY <2>1, <2>2, TouchKeeps DEF SceneOK
<1>7. \/ UNCHANGED <<registry, desk>>
      \/ \E t \in PlainTools : CallPlain(t)
      \/ StopTimer
      \/ DescribeView \/ IdentifyObject \/ RememberObject \/ FindObject \/ HearSound
      \/ \E o \in Ids : TouchClose(o) \/ TouchToggle(o)
  BY DEF Next, vars, desk, Hear, ModelCalls, Cut, Detect, TouchOther
<1> QED
  BY <1>1, <1>2, <1>3, <1>4, <1>5, <1>6, <1>7

LEMMA SoundAlways == Spec => [](Sound /\ SceneOK)
BY SInvInit, SoundStep, PTL DEF Spec

\* What is on the table conforms to the catalog, whatever tools and touches made of it, though
\* only spawns are checked: AgentSession._update_object merges without asking.
THEOREM HologramsAlwaysConform == Spec => []HologramsConform
<1>1. Sound => HologramsConform
  BY DEF Sound, Holds, HologramsConform, Live
<1> QED
  BY <1>1, SoundAlways, PTL

(***************************************************************************)
(* Refusals: what each tool composes, held against both catalogs.          *)
(***************************************************************************)

LEMMA MeetsConforms ==
  ASSUME NEW catalog, NEW w \in Widgets, NEW props,
         Meets(Fallback[w], props), w \in DOMAIN Published => Meets(Published[w], props)
  PROVE  Conforms(catalog, w, props)
<1>1. Meets(Catalog(catalog)[w], props)
  BY CatalogIs
<1> QED
  BY <1>1 DEF Conforms, Meets, Agrees

\* A schema with more props allows what the smaller one allows.
LEMMA MoreProps ==
  ASSUME NEW required, NEW props, NEW more, NEW patch,
         DOMAIN props \cap DOMAIN more = {},
         required \subseteq DOMAIN patch, DOMAIN patch \subseteq DOMAIN props,
         \A k \in DOMAIN patch : patch[k] \in props[k]
  PROVE  Meets(Closed(required, Updated(props, more)), patch)
<1> DEFINE all == Updated(props, more)
<1>1. DOMAIN all = DOMAIN props \cup DOMAIN more /\ \A k \in DOMAIN props : all[k] = props[k]
  BY Joined
<1> HIDE DEF all
<1> QED
  BY <1>1 DEF Meets, Agrees, Closed, all

OrbProps(c) == [city |-> "text", temp_c |-> "int", condition |-> c, humidity_pct |-> "int",
                wind_kph |-> "int", unit |-> "c"]

LEMMA OrbConforms ==
  ASSUME NEW c \in Weathers
  PROVE  Conforms(registry, "weather_orb", OrbProps(c))
<1> DEFINE spec == Fallback1["weather_orb"]
<1>1. /\ spec.required = {"city", "temp_c", "condition"}
      /\ DOMAIN spec.props = {"city", "temp_c", "condition", "humidity_pct", "wind_kph", "unit"}
      /\ "text" \in spec.props["city"] /\ "int" \in spec.props["temp_c"] /\ c \in spec.props["condition"]
      /\ "int" \in spec.props["humidity_pct"] /\ "int" \in spec.props["wind_kph"] /\ "c" \in spec.props["unit"]
  BY DEF Fallback1, Open, Text, Num, Int1
<1>2. Published1["weather_orb"] = Closed({"city", "temp_c", "condition"}, Updated(spec.props, [forecast |-> Arr]))
  BY DEF Published1
<1> HIDE DEF spec
<1>3. /\ DOMAIN OrbProps(c) = DOMAIN spec.props
      /\ \A k \in DOMAIN OrbProps(c) : OrbProps(c)[k] \in spec.props[k]
  BY <1>1 DEF OrbProps
<1>4. Meets(spec, OrbProps(c))
  BY <1>1, <1>3 DEF Meets, Agrees
<1>5. Meets(Published1["weather_orb"], OrbProps(c))
  <2>1. DOMAIN spec.props \cap DOMAIN [forecast |-> Arr] = {}
    BY <1>1
  <2>2. {"city", "temp_c", "condition"} \subseteq DOMAIN OrbProps(c)
    BY <1>1, <1>3
  <2> QED
    BY <1>2, <1>3, <2>1, <2>2, MoreProps
<1> QED
  BY <1>4, <1>5, MeetsConforms, FallbackIs, PublishedIs, WidgetNames, PublishedNames DEF spec

TimerProps == [label |-> "text", duration_ms |-> "int", remaining_ms |-> "int",
               state |-> "running", mode |-> "countdown"]

LEMMA TimerConforms == Conforms(registry, "timer", TimerProps)
<1> DEFINE spec == Fallback1["timer"]
<1>1. /\ spec.required = {"duration_ms", "remaining_ms", "state"}
      /\ DOMAIN spec.props = {"label", "duration_ms", "remaining_ms", "state", "mode"}
      /\ "text" \in spec.props["label"] /\ "int" \in spec.props["duration_ms"] /\ "int" \in spec.props["remaining_ms"]
      /\ "running" \in spec.props["state"] /\ "countdown" \in spec.props["mode"]
  BY DEF Fallback1, Open, Text, Int1, Running
<1>2. Published1["timer"] = Closed({"duration_ms", "remaining_ms", "state"}, spec.props)
  BY DEF Published1
<1> HIDE DEF spec
<1>3. /\ DOMAIN TimerProps = DOMAIN spec.props
      /\ \A k \in DOMAIN TimerProps : TimerProps[k] \in spec.props[k]
  BY <1>1 DEF TimerProps
<1>4. Meets(spec, TimerProps)
  BY <1>1, <1>3 DEF Meets, Agrees
<1>5. Meets(Published1["timer"], TimerProps)
  BY <1>1, <1>2, <1>3 DEF Meets, Agrees, Closed
<1> QED
  BY <1>4, <1>5, MeetsConforms, FallbackIs, PublishedIs, WidgetNames, PublishedNames DEF spec

PanelProps == [title |-> "text", body |-> "text"]

LEMMA PanelConforms == Conforms(registry, "panel", PanelProps)
<1> DEFINE spec == Fallback1["panel"]
<1>1. /\ spec.required = {"title"}
      /\ DOMAIN spec.props = {"title", "body", "sections", "background", "scrollable"}
      /\ "text" \in spec.props["title"] /\ "text" \in spec.props["body"]
  BY DEF Fallback1, Open, Text
<1>2. Published1["panel"] = Closed({"title"}, Updated(spec.props, [width_m |-> Num, height_m |-> Num]))
  BY DEF Published1
<1> HIDE DEF spec
<1>3. /\ DOMAIN PanelProps = {"title", "body"}
      /\ \A k \in DOMAIN PanelProps : k \in DOMAIN spec.props /\ PanelProps[k] \in spec.props[k]
  BY <1>1 DEF PanelProps
<1>4. Meets(spec, PanelProps)
  BY <1>1, <1>3 DEF Meets, Agrees
<1>5. Meets(Published1["panel"], PanelProps)
  <2>1. DOMAIN spec.props \cap DOMAIN [width_m |-> Num, height_m |-> Num] = {}
    BY <1>1
  <2> QED
    BY <1>2, <1>3, <2>1, MoreProps
<1> QED
  BY <1>4, <1>5, MeetsConforms, FallbackIs, PublishedIs, WidgetNames, PublishedNames DEF spec

LEMMA CaptionConforms == Conforms(registry, "live_caption", [lines |-> "arr", speaker |-> "other"])
<1> DEFINE props == [lines |-> "arr", speaker |-> "other"]
<1>1. Meets(Fallback2["live_caption"], props)
  BY DEF Fallback2, Closed, Meets, Agrees, Arr
<1>2. Published2["live_caption"] = Fallback2["live_caption"]
  BY DEF Published2
<1> HIDE DEF props
<1>3. Conforms(registry, "live_caption", props)
  BY <1>1, <1>2, MeetsConforms, FallbackIs, PublishedIs, WidgetNames, PublishedNames
<1> QED
  BY <1>3 DEF props

\* Markers carry a label and either a confidence or a detail.
LEMMA MarkerConforms ==
  ASSUME NEW label \in Labels,
         NEW detail \in {[confidence |-> "num"], [detail |-> "text"]}
  PROVE  Conforms(registry, "vision_annotation", Updated([label |-> label], detail))
<1> DEFINE spec  == Fallback2["vision_annotation"]
           old   == [label |-> label]
           props == Updated(old, detail)
<1>1. /\ spec.required = {"label"}
      /\ DOMAIN spec.props = {"label", "confidence", "detail", "color"}
      /\ label \in spec.props["label"] /\ "num" \in spec.props["confidence"] /\ "text" \in spec.props["detail"]
  BY DEF Fallback2, Open, Text, Num
<1>2. Published2["vision_annotation"] = Closed({"label"}, Updated(spec.props,
        [leader_line |-> Bool, target_object_id |-> Text, target_position |-> Arr, icon |-> Text]))
  BY DEF Published2
<1>3. /\ DOMAIN props = {"label"} \cup DOMAIN detail
      /\ \A k \in DOMAIN detail : props[k] = detail[k]
      /\ "label" \notin DOMAIN detail => props["label"] = label
  <2>1. DOMAIN old = {"label"} /\ old["label"] = label
    OBVIOUS
  <2> HIDE DEF old
  <2>2. DOMAIN props = DOMAIN old \cup DOMAIN detail
    BY UpdatedIs
  <2>3. \A k \in DOMAIN detail : props[k] = detail[k]
    BY UpdatedIs
  <2>4. \A k \in DOMAIN old \ DOMAIN detail : props[k] = old[k]
    BY UpdatedIs
  <2> HIDE DEF props
  <2> QED
    BY <2>1, <2>2, <2>3, <2>4
<1> HIDE DEF spec, props
<1>4. \/ DOMAIN detail = {"confidence"} /\ detail["confidence"] = "num"
      \/ DOMAIN detail = {"detail"} /\ detail["detail"] = "text"
  OBVIOUS
<1>5. /\ "label" \in DOMAIN props
      /\ \A k \in DOMAIN props : k \in DOMAIN spec.props /\ props[k] \in spec.props[k]
  BY <1>1, <1>3, <1>4
<1>6. Meets(spec, props)
  BY <1>1, <1>5 DEF Meets, Agrees
<1>7. Meets(Published2["vision_annotation"], props)
  <2> DEFINE more == [leader_line |-> Bool, target_object_id |-> Text, target_position |-> Arr, icon |-> Text]
  <2>1. DOMAIN spec.props \cap DOMAIN more = {}
    BY <1>1
  <2> HIDE DEF more
  <2>2. Meets(Closed({"label"}, Updated(spec.props, more)), props)
    BY <1>5, <2>1, MoreProps
  <2> QED
    BY <1>2, <2>2 DEF more
<1>8. Conforms(registry, "vision_annotation", props)
  BY <1>6, <1>7, MeetsConforms, FallbackIs, PublishedIs, WidgetNames, PublishedNames DEF spec
<1> QED
  BY <1>8 DEF props, old

\* The widgets only the built-in catalog has.
LEMMA BuiltInConforms ==
  ASSUME NEW w \in Widgets \ DOMAIN Published, NEW props, Meets(Fallback[w], props)
  PROVE  Conforms(registry, w, props)
BY MeetsConforms

LEMMA TranslatorConforms ==
  ASSUME NEW mode \in {"text", "sign"}
  PROVE  Conforms(registry, "translator",
           [source_lang |-> "text", target_lang |-> "text", source_text |-> "text",
            translated_text |-> "text", mode |-> mode])
<1> DEFINE props == [source_lang |-> "text", target_lang |-> "text", source_text |-> "text",
                     translated_text |-> "text", mode |-> mode]
<1>1. Meets(Translator, props)
  BY DEF Translator, Closed, Meets, Agrees, Text
<1>2. Fallback4["translator"] = Translator
  BY DEF Fallback4
<1> HIDE DEF props
<1>3. Conforms(registry, "translator", props)
  BY <1>1, <1>2, BuiltInConforms, FallbackIs, WidgetNames, PublishedNames
<1> QED
  BY <1>3 DEF props

LEMMA ArrowConforms ==
  ASSUME NEW label \in Text, NEW props,
         \/ props = [target_label |-> label, direction |-> "arr", distance_m |-> "num"]
         \/ props = [target_label |-> label, direction |-> "arr", distance_m |-> "num", eta_min |-> "num"]
  PROVE  Conforms(registry, "navigation_arrow", props)
<1>1. Meets(Arrow, props)
  BY DEF Arrow, Closed, Meets, Agrees, Text, Arr, Num
<1>2. Fallback4["navigation_arrow"] = Arrow
  BY DEF Fallback4
<1> QED
  BY <1>1, <1>2, BuiltInConforms, FallbackIs, WidgetNames, PublishedNames

LEMMA TapeConforms ==
  Conforms(registry, "measuring_tape",
    [points |-> "arr", distance_m |-> "num", label |-> "text", unit |-> "m", mode |-> "distance"])
<1> DEFINE props == [points |-> "arr", distance_m |-> "num", label |-> "text", unit |-> "m", mode |-> "distance"]
<1>1. Meets(Tape, props)
  BY DEF Tape, Closed, Meets, Agrees, Text, Arr, Num
<1>2. Fallback4["measuring_tape"] = Tape
  BY DEF Fallback4
<1> HIDE DEF props
<1>3. Conforms(registry, "measuring_tape", props)
  BY <1>1, <1>2, BuiltInConforms, FallbackIs, WidgetNames, PublishedNames
<1> QED
  BY <1>3 DEF props

LEMMA WebConforms == Conforms(registry, "web_panel", [url |-> "text", title |-> "text"])
<1> DEFINE props == [url |-> "text", title |-> "text"]
<1>1. Meets(WebPanel, props)
  BY DEF WebPanel, Closed, Meets, Agrees, Text
<1>2. Fallback4["web_panel"] = WebPanel
  BY DEF Fallback4
<1> HIDE DEF props
<1>3. Conforms(registry, "web_panel", props)
  BY <1>1, <1>2, BuiltInConforms, FallbackIs, WidgetNames, PublishedNames
<1> QED
  BY <1>3 DEF props

LEMMA FeedsConform ==
  /\ Conforms(registry, "news_feed", [title |-> "text", category |-> "text", articles |-> "arr"])
  /\ Conforms(registry, "stocks_ticker", [title |-> "text", symbols |-> "arr"])
  /\ Conforms(registry, "calendar", [title |-> "text", view |-> "agenda", events |-> "arr"])
<1> DEFINE news   == [title |-> "text", category |-> "text", articles |-> "arr"]
           stocks == [title |-> "text", symbols |-> "arr"]
           dates  == [title |-> "text", view |-> "agenda", events |-> "arr"]
<1>1. Meets(Fallback3["news_feed"], news)
  BY DEF Fallback3, Closed, Meets, Agrees, Text, Arr
<1>2. Meets(Fallback3["stocks_ticker"], stocks)
  BY DEF Fallback3, Closed, Meets, Agrees, Text, Arr
<1>3. Meets(Fallback3["calendar"], dates)
  BY DEF Fallback3, Closed, Meets, Agrees, Text, Arr
<1> HIDE DEF news, stocks, dates
<1>4. /\ Conforms(registry, "news_feed", news)
      /\ Conforms(registry, "stocks_ticker", stocks)
      /\ Conforms(registry, "calendar", dates)
  BY <1>1, <1>2, <1>3, BuiltInConforms, FallbackIs, WidgetNames, PublishedNames
<1> QED
  BY <1>4 DEF news, stocks, dates

AllConform(ds) == \A i \in 1..Len(ds) : Conforms(registry, ds[i].widget, ds[i].props)

LEMMA ShowConforms ==
  ASSUME NEW w, NEW props, NEW ref, NEW at, Conforms(registry, w, props)
  PROVE  AllConform(<<Place(w, props, ref, at)>>)
BY DEF AllConform, Place

\* A tool that composes its own hologram composes one either catalog accepts.
LEMMA PlainConforms ==
  ASSUME NEW t \in PlainTools \ {"open_widget", "show_widget"}, NEW ds \in Plain(t),
         t = "get_weather" => Feed \subseteq Weathers
  PROVE  AllConform(ds)
<1>1. AllConform(<<>>)
  BY DEF AllConform
<1>2. CASE t = "get_weather"
  <2>1. ASSUME NEW c \in Feed PROVE AllConform(WeatherOrb(c))
    <3>1. Conforms(registry, "weather_orb", OrbProps(c))
      BY <1>2, OrbConforms
    <3>2. WeatherOrb(c) = <<Place("weather_orb", OrbProps(c), "weather", "nowhere")>>
      BY DEF WeatherOrb, Show, OrbProps
    <3> QED
      BY <3>1, <3>2, ShowConforms
  <2> QED
    BY <1>2, <2>1 DEF Plain, GetWeather
<1>3. CASE t = "start_timer"
  <2>1. ds = <<Place("timer", TimerProps, NoRef, "nowhere")>>
    BY <1>3 DEF Plain, StartTimer, Timer, Show, TimerProps
  <2> QED
    BY <2>1, TimerConforms, ShowConforms
<1>4. CASE t \in {"get_time", "list_notes", "take_note", "set_reminder", "show_text", "show_panel", "read_text"}
  <2>1. \/ ds = <<>>
        \/ \E ref \in {"time_panel", "notes_panel", "info_panel", "ocr_panel", NoRef} : ds = Panel(ref)
    BY <1>4 DEF Plain, GetTime, ListNotes, TakeNote, NotesPanel, AskBack, SetReminder, ShowText, ReadText
  <2>2. \A ref : Panel(ref) = <<Place("panel", PanelProps, ref, "nowhere")>>
    BY DEF Panel, Show, PanelProps
  <2> QED
    BY <1>1, <2>1, <2>2, PanelConforms, ShowConforms
<1>5. CASE t \in {"translate_text", "translate_view"}
  <2>1. ds = <<>> \/ \E mode \in {"text", "sign"} : ds = Translation(mode)
    BY <1>5 DEF Plain, TranslateText, TranslateView, AskBack
  <2>2. ASSUME NEW mode \in {"text", "sign"} PROVE AllConform(Translation(mode))
    BY TranslatorConforms, ShowConforms DEF Translation, Show
  <2> QED
    BY <1>1, <2>1, <2>2
<1>6. CASE t = "identify_sound"
  <2>1. AllConform(Caption)
    BY CaptionConforms, ShowConforms DEF Caption, Show
  <2> QED
    BY <1>1, <1>6, <2>1 DEF Plain, IdentifySound
<1>7. CASE t = "web_search"
  BY <1>1, <1>7, WebConforms, ShowConforms DEF Plain, WebSearch, AskBack, Show
<1>8. CASE t \in {"get_news", "get_stocks", "get_calendar"}
  BY <1>8, FeedsConform, ShowConforms DEF Plain, GetNews, GetStocks, GetCalendar, Show
<1>9. CASE t = "navigate_to"
  <2>1. "text" \in Text
    BY DEF Text
  <2>2. Conforms(registry, "navigation_arrow",
          [target_label |-> "text", direction |-> "arr", distance_m |-> "num", eta_min |-> "num"])
    BY <2>1, ArrowConforms
  <2> QED
    BY <1>1, <1>9, <2>2, ShowConforms DEF Plain, NavigateTo, AskBack, Show
<1>10. CASE t = "measure"
  BY <1>10, TapeConforms, ShowConforms DEF Plain, Measure, Show
<1> QED
  BY <1>2, <1>3, <1>4, <1>5, <1>6, <1>7, <1>8, <1>9, <1>10 DEF PlainTools

LEMMA SeenConforms ==
  ASSUME NEW thing, thing.label \in Labels
  PROVE  /\ Conforms(registry, Seen(thing).widget, Seen(thing).props)
         /\ LET d == Marker(thing, [detail |-> "text"]) IN Conforms(registry, d.widget, d.props)
         /\ AllConform(FindDirectives(thing))
<1>1. /\ Seen(thing).widget = "vision_annotation"
      /\ Seen(thing).props = Updated([label |-> thing.label], [confidence |-> "num"])
  BY DEF Seen, Marker, Place
<1>2. Conforms(registry, Seen(thing).widget, Seen(thing).props)
  BY <1>1, MarkerConforms
<1> DEFINE marker == Marker(thing, [detail |-> "text"])
           lead   == [target_label |-> thing.label, direction |-> "arr", distance_m |-> "num"]
           arrow  == Place("navigation_arrow", lead, NoRef, "head")
<1>3. /\ marker.widget = "vision_annotation"
      /\ marker.props = Updated([label |-> thing.label], [detail |-> "text"])
  BY DEF Marker, Place
<1>4. Conforms(registry, marker.widget, marker.props)
  BY <1>3, MarkerConforms
<1>5. Conforms(registry, "navigation_arrow", lead)
  BY ArrowConforms DEF Text
<1>6. arrow.widget = "navigation_arrow" /\ arrow.props = lead
  BY DEF Place
<1>7. FindDirectives(thing) = IF thing.at = "nowhere" THEN <<>> ELSE <<marker, arrow>>
  BY DEF FindDirectives
<1> HIDE DEF marker, arrow, lead
<1>8. AllConform(<<>>) /\ AllConform(<<marker, arrow>>)
  BY <1>4, <1>5, <1>6 DEF AllConform
<1> QED
  BY <1>2, <1>4, <1>7, <1>8 DEF marker

LEMMA RenderAccepts ==
  ASSUME Sound, NEW t, NEW ds, NEW annotations, AllDirected(ds), AllConform(ds), Render(t, ds, annotations)
  PROVE  refused' = "none"
<1>1. ~Applied(ds).refused
  BY AppliedKeeps DEF AllDirected, AllConform, Outcome
<1> QED
  BY <1>1 DEF Render

LEMMA RefusalStep ==
  ASSUME Sound, SceneOK, OnlyTheAskedForIsRefused, [Next]_vars
  PROVE  OnlyTheAskedForIsRefused'
<1>1. CASE UNCHANGED vars
  BY <1>1 DEF vars, OnlyTheAskedForIsRefused
<1>2. CASE refused' = "none"
  BY <1>2 DEF OnlyTheAskedForIsRefused
<1>3. CASE \E t \in PlainTools : CallPlain(t)
  <2>1. PICK t \in PlainTools : CallPlain(t)
    BY <1>3
  <2>2. PICK ds : /\ AllDirected(ds)
                  /\ Render(t, ds, <<>>)
                  /\ ds \in Plain(t) \/ (t \in PassesOn /\ caller = "model")
    BY <2>1, CalledDirected
  <2>3. refused' \in {"none", t} /\ caller' = caller
    BY <2>1, <2>2 DEF Render, CallPlain
  <2>4. CASE \/ t \in {"open_widget", "show_widget"}
             \/ t \in PassesOn /\ caller = "model"
             \/ t = "get_weather" /\ ~(Feed \subseteq Weathers)
    BY <2>3, <2>4 DEF OnlyTheAskedForIsRefused
  <2>5. CASE /\ t \notin {"open_widget", "show_widget"} /\ ds \in Plain(t)
             /\ t = "get_weather" => Feed \subseteq Weathers
    <3>1. AllConform(ds)
      BY <2>5, PlainConforms
    <3> QED
      BY <1>2, <2>2, <3>1, RenderAccepts
  <2> QED
    BY <2>2, <2>4, <2>5
<1>4. CASE DescribeView
  <2> DEFINE ds == [i \in DOMAIN Scene |-> Seen(Scene[i])]
  <2>1. Scene \in Seq(Things)
    BY SceneIs
  <2>2. 1..Len(ds) = DOMAIN Scene /\ \A i \in DOMAIN Scene : ds[i] = Seen(Scene[i])
    BY <2>1
  <2>3. AllDirected(ds)
    BY ViewDirected
  <2>4. Render("describe_view", ds, [i \in DOMAIN Scene |-> Annotation(Scene[i])])
    BY <1>4 DEF DescribeView
  <2> HIDE DEF ds
  <2>5. AllConform(ds)
    BY <2>2, SeenConforms, SceneLabels DEF AllConform
  <2> QED
    BY <1>2, <2>3, <2>4, <2>5, RenderAccepts
<1>5. CASE IdentifyObject
  <2>1. PICK i \in DOMAIN Scene : Render("identify_object", <<Seen(Scene[i])>>, <<Annotation(Scene[i])>>)
    BY <1>5 DEF IdentifyObject
  <2>2. Scene[i].label \in Labels
    BY SceneLabels
  <2>3. AllDirected(<<Seen(Scene[i])>>) /\ AllConform(<<Seen(Scene[i])>>)
    BY <2>2, SeenConforms, MarkersDirected DEF AllConform
  <2> QED
    BY <1>2, <2>1, <2>3, RenderAccepts
<1>6. CASE RememberObject
  <2>1. PICK name \in Labels, at \in Places \cup {Scene[i].at : i \in DOMAIN Scene} :
          Render("remember_object",
                 IF at = "nowhere" THEN <<>> ELSE <<Marker(Thing(name, at), [detail |-> "text"])>>, <<>>)
    BY <1>6 DEF RememberObject
  <2> DEFINE ds == <<Marker(Thing(name, at), [detail |-> "text"])>>
  <2>2. Thing(name, at).label \in Labels
    BY DEF Thing
  <2>3. AllDirected(ds) /\ AllConform(ds)
    BY <2>2, SeenConforms, MarkersDirected DEF AllConform
  <2>4. AllDirected(<<>>) /\ AllConform(<<>>)
    BY NothingDirected DEF AllConform
  <2>5. Render("remember_object", ds, <<>>) \/ Render("remember_object", <<>>, <<>>)
    BY <2>1
  <2> HIDE DEF ds
  <2> QED
    BY <1>2, <2>3, <2>4, <2>5, RenderAccepts
<1>7. CASE FindObject
  <2>1. AllDirected(<<>>) /\ AllConform(<<>>)
    BY NothingDirected DEF AllConform
  <2>2. \A n : Recalled(n) \subseteq Labels \cup {n}
    BY DEF Recalled
  <2>3. \/ \E annotations : Render("find_object", <<>>, annotations)
        \/ \E found \in Labels : \E annotations :
             Render("find_object", FindDirectives(Thing(found, spatial[found])), annotations)
    BY <1>7, <2>2 DEF FindObject
  <2>4. ASSUME NEW found \in Labels, NEW at
        PROVE  AllDirected(FindDirectives(Thing(found, at))) /\ AllConform(FindDirectives(Thing(found, at)))
    <3>1. Thing(found, at).label \in Labels
      BY DEF Thing
    <3> QED
      BY <3>1, SeenConforms, MarkersDirected
  <2> QED
    BY <1>2, <2>1, <2>3, <2>4, RenderAccepts
<1>8. CASE HearSound
  BY <1>2, <1>8 DEF HearSound, Render
<1>9. \/ UNCHANGED vars \/ refused' = "none"
      \/ \E t \in PlainTools : CallPlain(t)
      \/ DescribeView \/ IdentifyObject \/ RememberObject \/ FindObject \/ HearSound
  BY DEF Next, Hear, Turn, ModelCalls, Cut, StopTimer, Detect, TouchClose, TouchToggle, TouchOther, Quiet
<1> QED
  BY <1>1, <1>2, <1>3, <1>4, <1>5, <1>6, <1>7, <1>8, <1>9

\* With the built-in catalog or the published one, whatever is in view and whatever words
\* the weather's source uses, a tool is refused only for what it was given from outside:
\* what it composes itself, and says it shows, is shown (AgentSession._spawn).
THEOREM OnlyTheGivenIsRefused == Spec => []OnlyTheAskedForIsRefused
<1>1. Init => OnlyTheAskedForIsRefused
  BY DEF Init, OnlyTheAskedForIsRefused
<1>2. Sound /\ SceneOK /\ OnlyTheAskedForIsRefused /\ [Next]_vars => OnlyTheAskedForIsRefused'
  BY RefusalStep
<1> QED
  BY <1>1, <1>2, SoundAlways, PTL DEF Spec
================================================================================
