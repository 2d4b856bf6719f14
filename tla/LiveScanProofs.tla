--------------------------- MODULE LiveScanProofs ----------------------------
(***************************************************************************)
(* Theorems about LiveScan, for any number of edits, events and keys.       *)
(***************************************************************************)
EXTENDS LiveScan, FiniteSetTheorems, TLAPS

-----------------------------------------------------------------------------
(* The inductive invariant.                                                 *)

Bit(b) == IF b THEN 1 ELSE 0

\* A change of the sources is still on its way to a scan, and one of the options.
DiskPending == fsQueue > 0 \/ signal \/ fsEvent \/ window \in timers
OptsPending == overlayOpen /\ dirty

\* The types, but for the bounds that Counts gives.
Typed ==
    /\ disk \in 0..MaxEdits /\ opts \in 0..MaxToggles
    /\ {overlayOpen, dirty, signal, listening, fsEvent, running, yamlPending,
        yamlView} \subseteq BOOLEAN
    /\ presses \in 0..MaxPresses
    /\ fsQueue \in Nat /\ window \in Nat /\ timers \subseteq 1..window
    /\ started \in Nat \ {0} /\ shown \in 0..started /\ gen \in Nat
    /\ scans \subseteq [id : 1..started, opts : 0..opts, disk : 0..disk, read : BOOLEAN]
    /\ conversions \subseteq [gen : 1..gen, doc : Docs \ {None}]
    /\ checks \subseteq Docs \ {None}
    /\ {document, yaml, verdict} \subseteq Docs

\* Every event of an edit is queued, merged into the signal, handed on or spent
\* on a window; every scan is owed to the start, a window or a key.
EventsCounted == fsQueue + Bit(signal) + Bit(fsEvent) + window <= disk * MaxBurst
ScansCounted == started + Bit(window \in timers) + Bit(OptsPending) <= 1 + window + presses
ResultsCounted == IsFiniteSet(scans) /\ gen + Cardinality(scans) <= started
Counts ==
    /\ EventsCounted
    /\ ScansCounted
    /\ ResultsCounted
    /\ document # None => gen > 0

\* The last scan that started, and the screen once it has landed, know the
\* sources and the options as they are, or a change is on its way.
Seen ==
    /\ \A s \in scans : s.id = started =>
          /\ s.read => s.disk = disk \/ DiskPending
          /\ s.opts = opts \/ OptsPending
    /\ shown = started => \E d \in 0..MaxEdits, o \in 0..MaxToggles :
          /\ document = Rendering(d, o)
          /\ d = disk \/ DiskPending
          /\ o = opts \/ OptsPending

\* A conversion of this generation is of the document on screen.
Converted ==
    /\ yaml \in {None, document}
    /\ \A c \in conversions : c.gen = gen => c.doc = document

LiveInv == Typed /\ Counts /\ Seen /\ Converted

-----------------------------------------------------------------------------
(* Types.                                                                   *)

LEMMA RenderingTyped ==
  ASSUME NEW d \in 0..MaxEdits, NEW o \in 0..MaxToggles
  PROVE  Rendering(d, o) \in Docs
  BY DEF Rendering, Docs

LEMMA NoneIsDoc == None \in Docs
  BY DEF Docs

\* A scan is started with the options at hand.
LEMMA StartTyped ==
  ASSUME Typed, StartScan, UNCHANGED <<disk, opts>>
  PROVE  /\ started' \in Nat \ {0} /\ shown' \in 0..started' /\ running' \in BOOLEAN
         /\ scans' \subseteq [id : 1..started', opts : 0..opts', disk : 0..disk', read : BOOLEAN]
  <1>1. started' = started + 1 /\ started' \in Nat \ {0} /\ started + 1 \in 1..started'
    BY DEF StartScan, Typed
  <1>2. shown' \in 0..started'
    BY <1>1 DEF StartScan, Typed
  <1>3. [id |-> started + 1, opts |-> opts, disk |-> 0, read |-> FALSE]
          \in [id : 1..started', opts : 0..opts', disk : 0..disk', read : BOOLEAN]
    BY <1>1, BoundsAssumption DEF Typed
  <1>4. [id : 1..started, opts : 0..opts, disk : 0..disk, read : BOOLEAN]
          \subseteq [id : 1..started', opts : 0..opts', disk : 0..disk', read : BOOLEAN]
    BY <1>1 DEF Typed
  <1> QED BY <1>1, <1>2, <1>3, <1>4 DEF StartScan, Typed

\* The conversion that is asked for is of the document at hand.
LEMMA EnsureTyped ==
  ASSUME Typed, NEW asYaml \in BOOLEAN, NEW doc \in Docs, NEW current \in Nat, NEW body,
         NEW pending \in BOOLEAN, current >= gen, doc # None => current > 0, gen' = current,
         EnsureYAML(asYaml, doc, current, body, pending)
  PROVE  /\ yamlPending' \in BOOLEAN
         /\ conversions' \subseteq [gen : 1..gen', doc : Docs \ {None}]
  <1>1. [gen : 1..gen, doc : Docs \ {None}] \subseteq [gen : 1..gen', doc : Docs \ {None}]
    BY DEF Typed
  <1>2. CASE asYaml /\ doc # None /\ body = None /\ ~pending
    <2>1. [gen |-> current, doc |-> doc] \in [gen : 1..gen', doc : Docs \ {None}]
      BY <1>2
    <2> QED BY <1>1, <1>2, <2>1 DEF EnsureYAML, Typed
  <1>3. CASE ~(asYaml /\ doc # None /\ body = None /\ ~pending)
    BY <1>1, <1>3 DEF EnsureYAML, Typed
  <1> QED BY <1>2, <1>3

LEMMA TypedStep ==
  ASSUME LiveInv, [Next]_vars
  PROVE  Typed'
  <1>0. Typed /\ (document # None => gen > 0)
    BY DEF LiveInv, Counts
  <1> USE BoundsAssumption DEF user, watch, flight, view, judged
  <1>1. CASE Edit
    <2>1. PICK events \in 1..MaxBurst : fsQueue' = fsQueue + events
      BY <1>1 DEF Edit
    <2>2. fsQueue' \in Nat /\ disk' \in 0..MaxEdits /\ 0..disk \subseteq 0..disk'
      BY <1>0, <1>1, <2>1 DEF Edit, Typed
    <2>3. scans' \subseteq [id : 1..started', opts : 0..opts', disk : 0..disk', read : BOOLEAN]
      BY <1>0, <1>1, <2>2 DEF Edit, Typed
    <2> QED BY <1>0, <1>1, <2>2, <2>3 DEF Edit, Typed
  <1>2. CASE OpenOptions
    BY <1>0, <1>2 DEF OpenOptions, Typed
  <1>3. CASE Toggle
    <2>1. opts' \in 0..MaxToggles /\ presses' \in 0..MaxPresses /\ 0..opts \subseteq 0..opts'
      BY <1>0, <1>3 DEF Toggle, Press, Typed
    <2>2. scans' \subseteq [id : 1..started', opts : 0..opts', disk : 0..disk', read : BOOLEAN]
      BY <1>0, <1>3, <2>1 DEF Toggle, Typed
    <2> QED BY <1>0, <1>3, <2>1, <2>2 DEF Toggle, Typed
  <1>4. CASE CloseOptions
    <2>1. UNCHANGED <<disk, opts>>
      BY <1>4 DEF CloseOptions
    <2>2. CASE dirty
      BY <1>0, <1>4, <2>1, <2>2, StartTyped DEF CloseOptions, Typed
    <2>3. CASE ~dirty
      BY <1>0, <1>4, <2>3 DEF CloseOptions, Typed
    <2> QED BY <2>2, <2>3
  <1>5. CASE Rescan
    <2>1. presses' \in 0..MaxPresses /\ StartScan /\ UNCHANGED <<disk, opts>>
      BY <1>0, <1>5 DEF Rescan, Press, Typed
    <2> QED BY <1>0, <1>5, <2>1, StartTyped DEF Rescan, Typed
  <1>6. CASE SwitchFormat
    <2>1. presses' \in 0..MaxPresses /\ yamlView' \in BOOLEAN
      BY <1>0, <1>6 DEF SwitchFormat, Press, Typed
    <2>2. /\ yamlPending' \in BOOLEAN
          /\ conversions' \subseteq [gen : 1..gen', doc : Docs \ {None}]
      <3>1. EnsureYAML(~yamlView, document, gen, yaml, yamlPending) /\ gen' = gen
        BY <1>6 DEF SwitchFormat
      <3>2. gen \in Nat /\ document \in Docs /\ yamlPending \in BOOLEAN
        BY <1>0 DEF Typed
      <3>3. CASE ~yamlView /\ document # None /\ yaml = None /\ ~yamlPending
        <4>1. [gen |-> gen, doc |-> document] \in [gen : 1..gen', doc : Docs \ {None}]
          BY <1>0, <3>1, <3>2, <3>3
        <4> QED BY <1>0, <3>1, <3>3, <4>1 DEF EnsureYAML, Typed
      <3>4. CASE ~(~yamlView /\ document # None /\ yaml = None /\ ~yamlPending)
        BY <1>0, <3>1, <3>2, <3>4 DEF EnsureYAML, Typed
      <3> QED BY <3>3, <3>4
    <2> QED BY <1>0, <1>6, <2>1, <2>2 DEF SwitchFormat, Typed
  <1>7. CASE StartValidation
    <2>1. presses' \in 0..MaxPresses /\ checks' \subseteq Docs \ {None}
      BY <1>0, <1>7 DEF StartValidation, Press, Typed
    <2> QED BY <1>0, <1>7, <2>1 DEF StartValidation, Typed
  <1>8. CASE Notice
    <2>1. fsQueue' \in Nat
      BY <1>0, <1>8 DEF Notice, Typed
    <2> QED BY <1>0, <1>8, <2>1 DEF Notice, Typed
  <1>9. CASE Receive
    BY <1>0, <1>9 DEF Receive, Typed
  <1>10. CASE HandleChange
    <2>1. window' \in Nat /\ timers' \subseteq 1..window'
      BY <1>0, <1>10 DEF HandleChange, Typed
    <2> QED BY <1>0, <1>10, <2>1 DEF HandleChange, Typed
  <1>11. ASSUME NEW w \in timers, Debounce(w) PROVE Typed'
    <2>1. timers' \subseteq 1..window' /\ UNCHANGED <<disk, opts>>
      BY <1>0, <1>11 DEF Debounce, Typed
    <2>2. CASE w = window
      BY <1>0, <1>11, <2>1, <2>2, StartTyped DEF Debounce, Typed
    <2>3. CASE w # window
      BY <1>0, <1>11, <2>1, <2>3 DEF Debounce, Typed
    <2> QED BY <2>2, <2>3
  <1>12. ASSUME NEW s \in scans, ReadSources(s) PROVE Typed'
    <2>1. s \in [id : 1..started, opts : 0..opts, disk : 0..disk, read : BOOLEAN] /\ disk \in 0..disk
      BY <1>0, <1>12 DEF Typed
    <2>2. [id |-> s.id, opts |-> s.opts, disk |-> disk, read |-> TRUE]
             \in [id : 1..started, opts : 0..opts, disk : 0..disk, read : BOOLEAN]
      BY <2>1
    <2> QED BY <1>0, <1>12, <2>2 DEF ReadSources, Typed
  <1>13. ASSUME NEW s \in scans, AbsorbScan(s) PROVE Typed'
    <2>1. s.id \in 0..started /\ s.disk \in 0..MaxEdits /\ s.opts \in 0..MaxToggles
      BY <1>0 DEF Typed
    <2>2. Rendering(s.disk, s.opts) \in Docs
      BY <2>1, RenderingTyped
    <2>3. gen' = gen + 1 /\ gen' \in Nat /\ gen + 1 >= gen /\ gen + 1 > 0
      BY <1>0, <1>13 DEF AbsorbScan, Typed
    <2>4. EnsureYAML(yamlView, Rendering(s.disk, s.opts), gen + 1, None, FALSE)
      BY <1>13 DEF AbsorbScan
    <2>5. yamlPending' \in BOOLEAN /\ conversions' \subseteq [gen : 1..gen', doc : Docs \ {None}]
      BY <1>0, <2>2, <2>3, <2>4, EnsureTyped DEF Typed
    <2> QED BY <1>0, <1>13, <2>1, <2>2, <2>3, <2>5, NoneIsDoc DEF AbsorbScan, Typed
  <1>14. ASSUME NEW c \in conversions, AbsorbYAML(c) PROVE Typed'
    <2>1. c.doc \in Docs
      BY <1>0 DEF Typed
    <2> QED BY <1>0, <1>14, <2>1 DEF AbsorbYAML, Typed
  <1>15. ASSUME NEW d \in checks, AbsorbValidation(d) PROVE Typed'
    BY <1>0, <1>15 DEF AbsorbValidation, Typed
  <1>16. CASE UNCHANGED vars
    BY <1>0, <1>16 DEF vars, Typed
  <1> QED BY <1>1, <1>2, <1>3, <1>4, <1>5, <1>6, <1>7, <1>8, <1>9, <1>10, <1>11,
             <1>12, <1>13, <1>14, <1>15, <1>16 DEF Next, User, System, Land

-----------------------------------------------------------------------------
(* Counts: the events of an edit bound the windows, and the windows and keys  *)
(* the scans.                                                                *)

LEMMA Products == \A a, m \in Nat : a * m \in Nat
  OBVIOUS

LEMMA MoreProduct == \A a, b, m \in Nat : a <= b => a * m <= b * m
  OBVIOUS

LEMMA NextProduct == \A a, m \in Nat : (a + 1) * m = a * m + m
  OBVIOUS

LEMMA AddOne ==
  ASSUME NEW S, IsFiniteSet(S), NEW x
  PROVE  /\ IsFiniteSet(S \union {x}) /\ Cardinality(S \union {x}) \in Nat
         /\ Cardinality(S \union {x}) <= Cardinality(S) + 1
  <1>1. IsFiniteSet(S \union {x}) /\ Cardinality(S) \in Nat
    BY FS_AddElement, FS_CardinalityType
  <1>2. Cardinality(S \union {x}) = IF x \in S THEN Cardinality(S) ELSE Cardinality(S) + 1
    BY FS_AddElement
  <1> QED BY <1>1, <1>2, FS_CardinalityType

\* A scan that starts is one more.
LEMMA StartCounts ==
  ASSUME Typed, Counts, StartScan, gen' = gen
  PROVE  started' = started + 1 /\ IsFiniteSet(scans') /\ gen' + Cardinality(scans') <= started'
  <1> DEFINE s == [id |-> started + 1, opts |-> opts, disk |-> 0, read |-> FALSE]
  <1>1. started' = started + 1 /\ scans' = scans \union {s} /\ started \in Nat /\ gen \in Nat
    BY DEF StartScan, Typed
  <1>2. IsFiniteSet(scans) /\ gen + Cardinality(scans) <= started
    BY DEF Counts, ResultsCounted
  <1> HIDE DEF s
  <1>3. Cardinality(scans) \in Nat
    BY <1>2, FS_CardinalityType
  <1>4. IsFiniteSet(scans') /\ Cardinality(scans') <= Cardinality(scans) + 1 /\ Cardinality(scans') \in Nat
    BY <1>1, <1>2, AddOne
  <1> QED BY <1>1, <1>2, <1>3, <1>4

\* A scan that is replaced or taken out.
LEMMA ScanTaken ==
  ASSUME Typed, Counts, NEW s \in scans, NEW t
  PROVE  /\ IsFiniteSet(scans \ {s}) /\ gen + 1 + Cardinality(scans \ {s}) <= started
         /\ IsFiniteSet((scans \ {s}) \union {t}) /\ gen + Cardinality((scans \ {s}) \union {t}) <= started
  <1>1. started \in Nat /\ gen \in Nat /\ IsFiniteSet(scans) /\ gen + Cardinality(scans) <= started
    BY DEF Typed, Counts, ResultsCounted
  <1>2. Cardinality(scans) \in Nat
    BY <1>1, FS_CardinalityType
  <1>3. IsFiniteSet(scans \ {s}) /\ Cardinality(scans \ {s}) = Cardinality(scans) - 1
    BY <1>1, FS_RemoveElement
  <1>4. /\ IsFiniteSet((scans \ {s}) \union {t})
        /\ Cardinality((scans \ {s}) \union {t}) \in Nat
        /\ Cardinality((scans \ {s}) \union {t}) <= Cardinality(scans \ {s}) + 1
    BY <1>3, AddOne
  <1> QED BY <1>1, <1>2, <1>3, <1>4

LEMMA EventsStep ==
  ASSUME Typed, EventsCounted, [Next]_vars
  PROVE  EventsCounted'
  <1> USE DEF user, watch, flight, view, judged, Bit
  <1>0. fsQueue \in Nat /\ window \in Nat /\ disk \in Nat /\ MaxBurst \in Nat /\ disk * MaxBurst \in Nat
    BY BoundsAssumption, Products DEF Typed
  <1>1. CASE Edit
    <2>1. PICK events \in 1..MaxBurst : fsQueue' = fsQueue + events
      BY <1>1 DEF Edit
    <2>2. disk' = disk + 1 /\ UNCHANGED <<signal, fsEvent, window>>
      BY <1>1 DEF Edit
    <2>3. disk' * MaxBurst = disk * MaxBurst + MaxBurst
      BY <1>0, <2>2, NextProduct
    <2> DEFINE have == disk * MaxBurst
               then == disk' * MaxBurst
    <2>4. have \in Nat /\ then = have + MaxBurst
      BY <1>0, <2>3
    <2>5. fsQueue + Bit(signal) + Bit(fsEvent) + window <= have
      BY DEF EventsCounted
    <2> HIDE DEF have, then
    <2>6. fsQueue' + Bit(signal') + Bit(fsEvent') + window' <= then
      BY <1>0, <2>1, <2>2, <2>4, <2>5
    <2> QED BY <2>6 DEF EventsCounted, then
  <1> DEFINE have == disk * MaxBurst
  <1>2. have \in Nat /\ fsQueue + Bit(signal) + Bit(fsEvent) + window <= have
    BY <1>0 DEF EventsCounted
  <1>3. ASSUME disk' = disk, fsQueue' + Bit(signal') + Bit(fsEvent') + window' <= have PROVE EventsCounted'
    BY <1>3 DEF EventsCounted
  <1> HIDE DEF have
  <1>4. CASE Notice
    <2>1. /\ fsQueue > 0 /\ fsQueue' = fsQueue - 1 /\ signal' = TRUE
          /\ UNCHANGED <<disk, fsEvent, window>>
      BY <1>4 DEF Notice
    <2> QED BY <1>0, <1>2, <1>3, <2>1
  <1>5. CASE Receive
    <2>1. signal /\ signal' = FALSE /\ fsEvent' = TRUE /\ UNCHANGED <<disk, fsQueue, window>>
      BY <1>5 DEF Receive
    <2> QED BY <1>0, <1>2, <1>3, <2>1
  <1>6. CASE HandleChange
    <2>1. fsEvent /\ fsEvent' = FALSE /\ window' = window + 1 /\ UNCHANGED <<disk, fsQueue, signal>>
      BY <1>6 DEF HandleChange
    <2> QED BY <1>0, <1>2, <1>3, <2>1
  <1>7. ASSUME UNCHANGED <<disk, fsQueue, signal, fsEvent, window>> PROVE EventsCounted'
    BY <1>2, <1>3, <1>7
  <1>8. CASE \/ OpenOptions \/ Toggle \/ CloseOptions \/ Rescan \/ SwitchFormat \/ StartValidation
             \/ (\E w \in timers : Debounce(w)) \/ Land \/ UNCHANGED vars
    BY <1>7, <1>8 DEF OpenOptions, Toggle, CloseOptions, Rescan, SwitchFormat, StartValidation,
       Debounce, Land, ReadSources, AbsorbScan, AbsorbYAML, AbsorbValidation, vars
  <1> QED BY <1>1, <1>4, <1>5, <1>6, <1>8 DEF Next, User, System

LEMMA ScansStep ==
  ASSUME Typed, Counts, [Next]_vars
  PROVE  ScansCounted' /\ ResultsCounted'
  <1> USE DEF user, watch, flight, view, judged
  <1>0. /\ window \in Nat /\ started \in Nat /\ presses \in Nat /\ timers \subseteq 1..window
        /\ overlayOpen \in BOOLEAN /\ dirty \in BOOLEAN
        /\ ScansCounted /\ ResultsCounted
    BY BoundsAssumption DEF Typed, Counts
  <1>1. ASSUME UNCHANGED <<window, timers, overlayOpen, dirty, started, presses>>
        PROVE  ScansCounted'
    BY <1>0, <1>1 DEF ScansCounted, OptsPending
  <1>2. ASSUME UNCHANGED <<gen, scans, started>> PROVE ResultsCounted'
    BY <1>0, <1>2 DEF ResultsCounted
  <1>3. ASSUME StartScan, gen' = gen PROVE ResultsCounted' /\ started' = started + 1
    BY <1>3, StartCounts DEF ResultsCounted
  <1>4. CASE OpenOptions
    <2>1. ~OptsPending /\ ~OptsPending' /\ UNCHANGED <<window, timers, started, presses, gen, scans>>
      BY <1>4 DEF OpenOptions, OptsPending
    <2> QED BY <1>0, <1>2, <2>1 DEF ScansCounted, Bit
  <1>5. CASE Toggle
    <2>1. presses' = presses + 1 /\ UNCHANGED <<window, timers, started, gen, scans>>
      BY <1>5 DEF Toggle, Press
    <2> QED BY <1>0, <1>2, <2>1 DEF ScansCounted, Bit
  <1>6. CASE CloseOptions
    <2>1. ~OptsPending' /\ UNCHANGED <<window, timers, presses, gen>>
      BY <1>6 DEF CloseOptions, OptsPending
    <2>2. CASE dirty
      <3>1. StartScan /\ OptsPending
        BY <1>6, <2>2 DEF CloseOptions, OptsPending
      <3> QED BY <1>0, <1>3, <2>1, <3>1 DEF ScansCounted, Bit
    <2>3. CASE ~dirty
      <3>1. UNCHANGED <<started, scans>> /\ ~OptsPending
        BY <1>6, <2>3 DEF CloseOptions, OptsPending
      <3> QED BY <1>0, <1>2, <2>1, <3>1 DEF ScansCounted, Bit
    <2> QED BY <2>2, <2>3
  <1>7. CASE Rescan
    <2>1. presses' = presses + 1 /\ StartScan /\ gen' = gen
          /\ UNCHANGED <<window, timers, overlayOpen, dirty>>
      BY <1>7 DEF Rescan, Press
    <2> QED BY <1>0, <1>3, <2>1 DEF ScansCounted, OptsPending, Bit
  <1>8. CASE SwitchFormat \/ StartValidation
    <2>1. presses' = presses + 1 /\ UNCHANGED <<window, timers, overlayOpen, dirty, started, gen, scans>>
      BY <1>8 DEF SwitchFormat, StartValidation, Press
    <2> QED BY <1>0, <1>2, <2>1 DEF ScansCounted, OptsPending, Bit
  <1>9. CASE HandleChange
    <2>1. window' = window + 1 /\ UNCHANGED <<overlayOpen, dirty, started, presses, gen, scans>>
      BY <1>9 DEF HandleChange
    <2> QED BY <1>0, <1>2, <2>1 DEF ScansCounted, OptsPending, Bit
  <1>10. ASSUME NEW w \in timers, Debounce(w) PROVE ScansCounted' /\ ResultsCounted'
    <2>1. timers' = timers \ {w} /\ UNCHANGED <<window, overlayOpen, dirty, presses, gen>>
      BY <1>10 DEF Debounce
    <2>2. CASE w = window
      <3>1. StartScan /\ window \in timers /\ window' \notin timers'
        BY <1>10, <2>1, <2>2 DEF Debounce
      <3> QED BY <1>0, <1>3, <2>1, <3>1 DEF ScansCounted, OptsPending, Bit
    <2>3. CASE w # window
      <3>1. UNCHANGED <<started, scans>> /\ (window' \in timers' <=> window \in timers)
        BY <1>10, <2>1, <2>3 DEF Debounce
      <3> QED BY <1>0, <1>2, <2>1, <3>1 DEF ScansCounted, OptsPending, Bit
    <2> QED BY <2>2, <2>3
  <1>11. ASSUME NEW s \in scans, ReadSources(s) PROVE ScansCounted' /\ ResultsCounted'
    <2>1. /\ scans' = (scans \ {s}) \union {[id |-> s.id, opts |-> s.opts, disk |-> disk, read |-> TRUE]}
          /\ UNCHANGED <<window, timers, overlayOpen, dirty, started, presses, gen>>
      BY <1>11 DEF ReadSources
    <2>2. ResultsCounted'
      BY <2>1, ScanTaken DEF ResultsCounted
    <2> QED BY <1>1, <2>1, <2>2
  <1>12. ASSUME NEW s \in scans, AbsorbScan(s) PROVE ScansCounted' /\ ResultsCounted'
    <2>1. /\ scans' = scans \ {s} /\ gen' = gen + 1
          /\ UNCHANGED <<window, timers, overlayOpen, dirty, started, presses>>
      BY <1>12 DEF AbsorbScan
    <2>2. ResultsCounted'
      BY <2>1, ScanTaken DEF ResultsCounted
    <2> QED BY <1>1, <2>1, <2>2
  <1>13. CASE \/ Edit \/ Notice \/ Receive \/ UNCHANGED vars
              \/ (\E c \in conversions : AbsorbYAML(c)) \/ (\E d \in checks : AbsorbValidation(d))
    <2>1. UNCHANGED <<window, timers, overlayOpen, dirty, started, presses, gen, scans>>
      BY <1>13 DEF Edit, Notice, Receive, vars, AbsorbYAML, AbsorbValidation
    <2> QED BY <1>1, <1>2, <2>1
  <1> QED BY <1>4, <1>5, <1>6, <1>7, <1>8, <1>9, <1>10, <1>11, <1>12, <1>13 DEF Next, User, System, Land

-----------------------------------------------------------------------------
(* The screen and the conversions.                                           *)

LEMMA ConvertedStep ==
  ASSUME Typed, Converted, [Next]_vars
  PROVE  Converted'
  <1> USE DEF user, watch, flight, view, judged
  <1>0. gen \in Nat
    BY DEF Typed
  <1>1. ASSUME UNCHANGED <<yaml, document, gen>>,
               \A c \in conversions' : c \in conversions \/ c = [gen |-> gen, doc |-> document]
        PROVE  Converted'
    BY <1>1 DEF Converted
  <1>2. CASE SwitchFormat
    <2>1. UNCHANGED <<yaml, document, gen>>
      BY <1>2 DEF SwitchFormat
    <2>2. \A c \in conversions' : c \in conversions \/ c = [gen |-> gen, doc |-> document]
      BY <1>2 DEF SwitchFormat, EnsureYAML
    <2> QED BY <1>1, <2>1, <2>2
  <1>3. ASSUME NEW s \in scans, AbsorbScan(s) PROVE Converted'
    <2>1. /\ yaml' = None /\ gen' = gen + 1 /\ document' = Rendering(s.disk, s.opts)
          /\ EnsureYAML(yamlView, Rendering(s.disk, s.opts), gen + 1, None, FALSE)
      BY <1>3 DEF AbsorbScan
    <2>2. \A c \in conversions' : c \in conversions \/ c = [gen |-> gen', doc |-> document']
      BY <2>1 DEF EnsureYAML
    <2>3. \A c \in conversions : c.gen # gen'
      BY <1>0, <2>1 DEF Typed
    <2>4. \A c \in conversions' : c.gen = gen' => c.doc = document'
      BY <2>2, <2>3
    <2> QED BY <2>1, <2>4 DEF Converted
  <1>4. ASSUME NEW c \in conversions, AbsorbYAML(c) PROVE Converted'
    <2>1. conversions' \subseteq conversions /\ UNCHANGED <<document, gen>>
      BY <1>4 DEF AbsorbYAML
    <2>2. yaml' = yaml \/ (c.gen = gen /\ yaml' = c.doc)
      BY <1>4 DEF AbsorbYAML
    <2> QED BY <2>1, <2>2 DEF Converted
  <1>5. ASSUME UNCHANGED <<yaml, document, gen, conversions>> PROVE Converted'
    BY <1>1, <1>5
  <1>6. CASE \/ Edit \/ OpenOptions \/ Toggle \/ CloseOptions \/ Rescan \/ StartValidation
             \/ Notice \/ Receive \/ HandleChange \/ (\E w \in timers : Debounce(w))
             \/ (\E s \in scans : ReadSources(s)) \/ (\E d \in checks : AbsorbValidation(d))
             \/ UNCHANGED vars
    BY <1>5, <1>6 DEF Edit, OpenOptions, Toggle, CloseOptions, Rescan, StartValidation, Notice,
       Receive, HandleChange, Debounce, ReadSources, AbsorbValidation, vars
  <1> QED BY <1>2, <1>3, <1>4, <1>6 DEF Next, User, System, Land

\* A document that was made comes of a result, and so of a later generation.
LEMMA MadeStep ==
  ASSUME Typed, Counts, [Next]_vars
  PROVE  document' # None => gen' > 0
  <1> USE DEF user, watch, flight, view, judged
  <1>1. gen \in Nat /\ (document # None => gen > 0)
    BY DEF Typed, Counts
  <1>2. ASSUME NEW s \in scans, AbsorbScan(s) PROVE gen' > 0
    BY <1>1, <1>2 DEF AbsorbScan
  <1>3. CASE \/ User \/ Notice \/ Receive \/ HandleChange \/ (\E w \in timers : Debounce(w))
             \/ (\E s \in scans : ReadSources(s)) \/ (\E c \in conversions : AbsorbYAML(c))
             \/ (\E d \in checks : AbsorbValidation(d)) \/ UNCHANGED vars
    <2>1. UNCHANGED <<document, gen>>
      BY <1>3 DEF User, Edit, OpenOptions, Toggle, CloseOptions, Rescan, SwitchFormat, StartValidation,
         Notice, Receive, HandleChange, Debounce, ReadSources, AbsorbYAML, AbsorbValidation, vars
    <2> QED BY <1>1, <2>1
  <1> QED BY <1>2, <1>3 DEF Next, System, Land

\* A step that leaves the scans and the screen alone, and no change unannounced.
LEMMA SeenKept ==
  ASSUME Seen, UNCHANGED <<scans, started, shown, document>>,
         disk' = disk \/ DiskPending', opts' = opts \/ OptsPending',
         DiskPending => DiskPending', OptsPending => OptsPending'
  PROVE  Seen'
  <1>1. ASSUME NEW s \in scans', s.id = started'
        PROVE  (s.read => s.disk = disk' \/ DiskPending') /\ (s.opts = opts' \/ OptsPending')
    BY <1>1 DEF Seen
  <1>2. ASSUME shown' = started'
        PROVE  \E d \in 0..MaxEdits, o \in 0..MaxToggles :
                 /\ document' = Rendering(d, o)
                 /\ d = disk' \/ DiskPending'
                 /\ o = opts' \/ OptsPending'
    BY <1>2 DEF Seen
  <1> QED BY <1>1, <1>2 DEF Seen

\* A scan that starts knows the options, and is to read the sources.
LEMMA SeenStarted ==
  ASSUME Typed, StartScan, UNCHANGED <<opts, document>>
  PROVE  Seen'
  <1>1. /\ started' = started + 1 /\ started \in Nat /\ shown' = shown /\ shown \in 0..started
        /\ scans' = scans \union {[id |-> started + 1, opts |-> opts, disk |-> 0, read |-> FALSE]}
        /\ \A s \in scans : s.id \in 1..started
    BY DEF StartScan, Typed
  <1>2. shown' # started' /\ \A s \in scans : s.id # started'
    BY <1>1
  <1>3. ASSUME NEW s \in scans', s.id = started' PROVE ~s.read /\ s.opts = opts
    BY <1>1, <1>2, <1>3
  <1> QED BY <1>2, <1>3 DEF Seen

LEMMA SeenStep ==
  ASSUME Typed, Seen, [Next]_vars
  PROVE  Seen'
  <1> USE DEF user, watch, flight, view, judged
  <1>0. window \in Nat /\ fsQueue \in Nat /\ overlayOpen \in BOOLEAN /\ dirty \in BOOLEAN
    BY DEF Typed
  <1>1. CASE Edit
    <2>1. fsQueue' > 0 /\ UNCHANGED <<scans, started, shown, document, opts, overlayOpen, dirty>>
      BY <1>0, <1>1, BoundsAssumption DEF Edit
    <2> QED BY <2>1, SeenKept DEF DiskPending, OptsPending
  <1>2. CASE OpenOptions
    BY <1>2, SeenKept DEF OpenOptions, DiskPending, OptsPending
  <1>3. CASE Toggle
    BY <1>3, SeenKept DEF Toggle, DiskPending, OptsPending
  <1>4. CASE CloseOptions
    <2>1. CASE dirty
      <3>1. StartScan /\ UNCHANGED <<opts, document>>
        BY <1>4, <2>1 DEF CloseOptions
      <3> QED BY <3>1, SeenStarted
    <2>2. CASE ~dirty
      BY <1>4, <2>2, SeenKept DEF CloseOptions, DiskPending, OptsPending
    <2> QED BY <2>1, <2>2
  <1>5. CASE Rescan
    <2>1. StartScan /\ UNCHANGED <<opts, document>>
      BY <1>5 DEF Rescan
    <2> QED BY <2>1, SeenStarted
  <1>6. CASE Notice \/ Receive
    <2>1. DiskPending' /\ UNCHANGED <<scans, started, shown, document, disk, opts, overlayOpen, dirty>>
      BY <1>6 DEF Notice, Receive, DiskPending
    <2> QED BY <2>1, SeenKept DEF OptsPending
  <1>7. CASE HandleChange
    <2>1. /\ window' \in timers'
          /\ UNCHANGED <<scans, started, shown, document, disk, opts, overlayOpen, dirty>>
      BY <1>7 DEF HandleChange
    <2> QED BY <2>1, SeenKept DEF DiskPending, OptsPending
  <1>8. ASSUME NEW w \in timers, Debounce(w) PROVE Seen'
    <2>1. CASE w = window
      <3>1. StartScan /\ UNCHANGED <<opts, document>>
        BY <1>8, <2>1 DEF Debounce
      <3> QED BY <3>1, SeenStarted
    <2>2. CASE w # window
      BY <1>8, <2>2, SeenKept DEF Debounce, DiskPending, OptsPending
    <2> QED BY <2>1, <2>2
  <1>9. ASSUME NEW s \in scans, ReadSources(s) PROVE Seen'
    <2> DEFINE t == [id |-> s.id, opts |-> s.opts, disk |-> disk, read |-> TRUE]
    <2>1. /\ scans' = (scans \ {s}) \union {t}
          /\ UNCHANGED <<started, shown, document, disk, opts>>
          /\ (DiskPending' <=> DiskPending) /\ (OptsPending' <=> OptsPending)
      BY <1>9 DEF ReadSources, DiskPending, OptsPending
    <2>2. t.id = s.id /\ t.disk = disk /\ t.opts = s.opts
      OBVIOUS
    <2> HIDE DEF t
    <2>3. ASSUME NEW r \in scans', r.id = started'
          PROVE  (r.read => r.disk = disk' \/ DiskPending') /\ (r.opts = opts' \/ OptsPending')
      BY <2>1, <2>2, <2>3 DEF Seen
    <2>4. ASSUME shown' = started'
          PROVE  \E d \in 0..MaxEdits, o \in 0..MaxToggles :
                   /\ document' = Rendering(d, o)
                   /\ d = disk' \/ DiskPending'
                   /\ o = opts' \/ OptsPending'
      BY <2>1, <2>4 DEF Seen
    <2> QED BY <2>3, <2>4 DEF Seen
  <1>10. ASSUME NEW s \in scans, AbsorbScan(s) PROVE Seen'
    <2>1. /\ scans' \subseteq scans /\ shown' = s.id /\ s.read
          /\ document' = Rendering(s.disk, s.opts)
          /\ UNCHANGED <<started, disk, opts>>
          /\ (DiskPending' <=> DiskPending) /\ (OptsPending' <=> OptsPending)
      BY <1>10 DEF AbsorbScan, DiskPending, OptsPending
    <2>2. s.disk \in 0..MaxEdits /\ s.opts \in 0..MaxToggles
      BY BoundsAssumption DEF Typed
    <2>3. ASSUME NEW r \in scans', r.id = started'
          PROVE  (r.read => r.disk = disk' \/ DiskPending') /\ (r.opts = opts' \/ OptsPending')
      BY <2>1, <2>3 DEF Seen
    <2>4. ASSUME shown' = started'
          PROVE  /\ s.disk = disk' \/ DiskPending'
                 /\ s.opts = opts' \/ OptsPending'
      BY <2>1, <2>4 DEF Seen
    <2> QED BY <2>1, <2>2, <2>3, <2>4 DEF Seen
  <1>11. CASE \/ SwitchFormat \/ StartValidation \/ (\E c \in conversions : AbsorbYAML(c))
              \/ (\E d \in checks : AbsorbValidation(d)) \/ UNCHANGED vars
    <2>1. UNCHANGED <<scans, started, shown, document, disk, opts, fsQueue, signal, fsEvent, window,
                      timers, overlayOpen, dirty>>
      BY <1>11 DEF SwitchFormat, StartValidation, AbsorbYAML, AbsorbValidation, vars
    <2> QED BY <2>1, SeenKept DEF DiskPending, OptsPending
  <1> QED BY <1>1, <1>2, <1>3, <1>4, <1>5, <1>6, <1>7, <1>8, <1>9, <1>10, <1>11
          DEF Next, User, System, Land

LEMMA LiveInvariant == Spec => []LiveInv
  <1>1. Init => LiveInv
    <2> SUFFICES ASSUME Init PROVE LiveInv
      OBVIOUS
    <2> USE BoundsAssumption
    <2> DEFINE s == [id |-> 1, opts |-> 0, disk |-> 0, read |-> FALSE]
    <2>0. s \in [id : 1..1, opts : 0..0, disk : 0..0, read : BOOLEAN]
      OBVIOUS
    <2>1. Typed
      <3>1. scans \subseteq [id : 1..started, opts : 0..opts, disk : 0..disk, read : BOOLEAN]
        BY <2>0 DEF Init
      <3>2. {document, yaml, verdict} \subseteq Docs
        BY NoneIsDoc DEF Init
      <3>3. /\ conversions \subseteq [gen : 1..gen, doc : Docs \ {None}]
            /\ checks \subseteq Docs \ {None}
        BY DEF Init
      <3>4. /\ disk \in 0..MaxEdits /\ opts \in 0..MaxToggles /\ presses \in 0..MaxPresses
            /\ started \in Nat \ {0} /\ shown \in 0..started
            /\ gen \in Nat /\ fsQueue \in Nat /\ window \in Nat /\ timers \subseteq 1..window
        BY DEF Init
      <3>5. {overlayOpen, dirty, signal, listening, fsEvent, running, yamlPending, yamlView}
               \subseteq BOOLEAN
        BY DEF Init
      <3> QED BY <3>1, <3>2, <3>3, <3>4, <3>5 DEF Typed
    <2>2. EventsCounted /\ ScansCounted
      BY DEF Init, EventsCounted, ScansCounted, OptsPending, Bit
    <2>3. IsFiniteSet({s}) /\ Cardinality({s}) = 1
      BY FS_Singleton
    <2>4. ResultsCounted
      BY <2>3 DEF Init, ResultsCounted
    <2>5. Seen
      BY DEF Init, Seen
    <2> QED BY <2>1, <2>2, <2>4, <2>5 DEF Init, LiveInv, Counts, Converted
  <1>2. LiveInv /\ [Next]_vars => LiveInv'
    <2> SUFFICES ASSUME LiveInv, [Next]_vars PROVE LiveInv'
      OBVIOUS
    <2>1. Typed /\ Counts /\ Seen /\ Converted /\ EventsCounted
      BY DEF LiveInv, Counts
    <2> QED BY <2>1, TypedStep, EventsStep, ScansStep, MadeStep, SeenStep, ConvertedStep DEF LiveInv, Counts
  <1> QED BY <1>1, <1>2, PTL DEF Spec

-----------------------------------------------------------------------------
(* What follows.                                                            *)

\* A YAML body on screen is of the document on screen, however the conversions
\* and the results of scans overtake one another.
THEOREM YamlStaysCurrent == Spec => []YamlIsCurrent
  <1>1. LiveInv => YamlIsCurrent
    BY DEF LiveInv, Converted, YamlIsCurrent
  <1> QED BY <1>1, LiveInvariant, PTL

\* No change is lost between the file system and the scan: at rest, if the scan
\* that started last is the one on screen, the screen shows the sources and the
\* options as they are.
THEOREM NothingMissed == Spec => []NothingIsMissed
  <1>1. LiveInv => NothingIsMissed
    <2> SUFFICES ASSUME LiveInv, Quiescent, shown = started
                 PROVE  document = Rendering(disk, opts)
      BY DEF NothingIsMissed
    <2>1. ~DiskPending /\ ~OptsPending
      BY DEF Quiescent, DiskPending, OptsPending, LiveInv, Typed
    <2>2. PICK d \in 0..MaxEdits, o \in 0..MaxToggles :
             document = Rendering(d, o) /\ d = disk /\ o = opts
      BY <2>1 DEF LiveInv, Seen
    <2> QED BY <2>2
  <1> QED BY <1>1, LiveInvariant, PTL

\* Type correctness, and with it that the windows and the scans are as few as
\* Fairness takes them to be: every timer that runs is one of 1..MaxWindows.
THEOREM TypeCorrect == Spec => []TypeOK
  <1>1. LiveInv => TypeOK
    <2> SUFFICES ASSUME LiveInv PROVE TypeOK
      OBVIOUS
    <2>0. Typed /\ EventsCounted /\ ScansCounted /\ ResultsCounted
      BY DEF LiveInv, Counts
    <2>1. /\ fsQueue \in Nat /\ window \in Nat /\ started \in Nat \ {0} /\ gen \in Nat
          /\ disk \in 0..MaxEdits /\ presses \in 0..MaxPresses
          /\ MaxEdits \in Nat /\ MaxBurst \in Nat /\ MaxPresses \in Nat
      BY <2>0, BoundsAssumption DEF Typed
    <2>2. disk * MaxBurst \in Nat /\ MaxEdits * MaxBurst \in Nat /\ disk * MaxBurst <= MaxEdits * MaxBurst
      BY <2>1, Products, MoreProduct
    <2>3. fsQueue + window <= disk * MaxBurst
      BY <2>0, <2>1, <2>2 DEF EventsCounted, Bit
    <2>4. fsQueue \in 0..MaxWindows /\ window \in 0..MaxWindows
      BY <2>1, <2>2, <2>3 DEF MaxWindows
    <2>5. started <= 1 + window + presses
      BY <2>0, <2>1 DEF ScansCounted, Bit
    <2>6. started \in 1..MaxScans
      <3>1. MaxWindows \in Nat /\ window <= MaxWindows
        BY <2>2, <2>4 DEF MaxWindows
      <3> QED BY <2>1, <2>5, <3>1 DEF MaxScans
    <2>7. gen \in 0..started
      <3>1. Cardinality(scans) \in Nat /\ gen + Cardinality(scans) <= started
        BY <2>0, FS_CardinalityType DEF ResultsCounted
      <3> QED BY <2>1, <3>1
    <2> QED BY <2>0, <2>4, <2>6, <2>7 DEF Typed, TypeOK
  <1> QED BY <1>1, LiveInvariant, PTL
=============================================================================
