--------------------------- MODULE SettingsProofs ---------------------------
(* Proofs about Settings, for any requests, files and defaults.             *)
EXTENDS Settings, TLAPS

USE SettingsAssumption DEF Nothing, Torn

-----------------------------------------------------------------------------
(* What reading and writing do to the types.                                *)
LEMMA NothingIsTable == Table(Nothing) /\ ~ Table(Torn)
BY DEF Table, Typed, Keys, Managed, Optional, ReadOnly

LEMMA OverTable ==
    ASSUME NEW a, NEW b, Table(a), Table(b) PROVE Table(Over(a, b))
BY DEF Table, Typed, Over

LEMMA LoadedConfig ==
    ASSUME NEW t, Table(t), Loadable(Loaded(t)) PROVE Config(Loaded(t))
<1>1. \A k \in Keys : IF k = "top_k" THEN Filled(t)[k] \in Int ELSE Filled(t)[k] \in Values
  BY DEF Config, Table, Typed, Filled
<1>2. \A k \in Keys : IF k = "top_k" THEN Loaded(t)[k] \in Int ELSE Loaded(t)[k] \in Values
  BY <1>1 DEF Loaded
<1> QED
  BY <1>2 DEF Config, Typed, Loaded, Loadable

LEMMA AppliedConfig ==
    ASSUME NEW c, Config(c), NEW r \in Requests PROVE Config(Applied(c, r))
<1>1. \A k \in Keys : k # "top_k" => Applied(c, r)[k] \in Values
  BY DEF Config, Table, Typed, Applied, Normal
<1>2. Applied(c, r)["top_k"] \in Int /\ Applied(c, r)["top_k"] >= 0
  BY DEF Config, Table, Typed, Applied, Normal, Keys, Managed
<1> QED
  BY <1>1, <1>2 DEF Config, Typed, Applied

LEMMA DocumentTable ==
    ASSUME NEW c, Config(c), NEW t, Table(t) PROVE Table(Document(c, t))
<1> DEFINE d == Document(c, t)
<1>1. DOMAIN d \subseteq Keys
  BY DEF Document, Table, Keys
<1>2. \A k \in DOMAIN d : k # "top_k" => d[k] \in Values /\ d[k] # None
  BY DEF Document, Encoded, Config, Table, Typed, Keys
<1>3. "top_k" \in DOMAIN d => d["top_k"] \in Int /\ d["top_k"] # None
  BY DEF Document, Encoded, Config, Table, Typed, Keys, Managed
<1> QED
  BY <1>1, <1>2, <1>3 DEF Table, Typed

LEMMA Initial == Init => TypeOK
BY NothingIsTable DEF Init, TypeOK, Steps, Config

LEMMA TypePreserved == TypeOK /\ [Next]_vars => TypeOK'
<1> SUFFICES ASSUME TypeOK, [Next]_vars PROVE TypeOK'
  OBVIOUS
<1> USE DEF TypeOK, Steps, vars, calls, memory, disk, counts, At, Unlock, KeepRest
<1>1. CASE UNCHANGED vars
  BY <1>1 DEF Config, Table, Typed
<1>2. CASE Start
  <2>1. file # Torn => Table(Over(file, local))
    BY OverTable
  <2>2. Config(config') /\ Config(handlers')
    BY <1>2, <2>1, LoadedConfig DEF Start
  <2> QED
    BY <1>2, <2>2 DEF Start
<1>3. CASE Crash
  <2>1. Config(Defaults)
    OBVIOUS
  <2> QED
    BY <1>3, <2>1, NothingIsTable DEF Crash
<1>4. CASE Serve
  BY <1>4 DEF Serve, Choose, Publish, LeaderEnds, Expire, OfCalls
<1>5. ASSUME NEW r \in Requests, Begin(r) PROVE TypeOK'
  BY <1>5, AppliedConfig DEF Begin
<1>6. CASE OpenMemory \/ BuildAgent \/ ReplaceHandlers \/ ClearDedup
  BY <1>6 DEF OpenMemory, BuildAgent, ReplaceHandlers, ClearDedup
<1>7. CASE OpenFails \/ BuildFails
  BY <1>7, NothingIsTable DEF OpenFails, BuildFails, Rollback
<1>8. CASE Backup
  BY <1>8, DocumentTable DEF Backup
<1>9. CASE BackupFails
  BY <1>9, NothingIsTable DEF BackupFails
<1>10. CASE Truncate \/ WriteHalf
  BY <1>10, NothingIsTable DEF Truncate, WriteHalf
<1>11. CASE Write \/ WriteFails
  <2>1. unsound' \in BOOLEAN
    BY <1>11, Zenon DEF Write, WriteFails
  <2> QED
    BY <1>11, <2>1, NothingIsTable DEF Write, WriteFails
<1>12. CASE Abandon
  BY <1>12, NothingIsTable DEF Abandon
<1> QED
  BY <1>1, <1>2, <1>3, <1>4, <1>5, <1>6, <1>7, <1>8, <1>9, <1>10, <1>11, <1>12
  DEF Next, Update, Persist

(* Every variable keeps its type; the update never leaves a table that      *)
(* config.toml could not hold.                                              *)
THEOREM SettingsTyped == Spec => []TypeOK
BY Initial, TypePreserved, PTL DEF Spec

-----------------------------------------------------------------------------
(* The settings in force: what handlers and cache hold at every step of an  *)
(* update, which is what a refused or finished one leaves behind.           *)
NoneBefore == cached \cup running \subseteq {handlers} \cup outrun

InForce ==
    /\ up # "up" => pc = "idle" /\ cached \cup running = {}
    /\ "handlers" \notin left =>
          /\ pc = "idle" => handlers = config
          /\ pc \in {"open", "build", "replace"} => handlers = original
    /\ pc \in {"clear", "backup", "truncate", "write"} => handlers = config
    /\ "cache" \notin left /\ pc # "clear" => NoneBefore
    /\ pc \in {"backup", "truncate", "write"} => NoneBefore

LEMMA InForceInit == Init => InForce
BY DEF Init, InForce, NoneBefore

LEMMA InForcePreserved == TypeOK /\ InForce /\ [Next]_vars => InForce'
<1> SUFFICES ASSUME TypeOK, InForce, [Next]_vars PROVE InForce'
  OBVIOUS
<1> USE DEF InForce, NoneBefore, vars, calls, memory, disk, counts, At, Unlock, KeepRest
<1>1. CASE UNCHANGED vars
  BY <1>1
<1>2. CASE Start
  BY <1>2 DEF Start
<1>3. CASE Crash
  BY <1>3 DEF Crash
<1>4. CASE Serve
  BY <1>4 DEF Serve, Choose, Publish, LeaderEnds, Expire, OfCalls
<1>5. ASSUME NEW r \in Requests, Begin(r) PROVE InForce'
  BY <1>5 DEF Begin
<1>6. CASE OpenMemory \/ BuildAgent \/ ReplaceHandlers \/ ClearDedup
  BY <1>6 DEF OpenMemory, BuildAgent, ReplaceHandlers, ClearDedup
<1>7. CASE OpenFails \/ BuildFails
  BY <1>7 DEF OpenFails, BuildFails, Rollback
<1>8. CASE Persist
  BY <1>8 DEF Persist, Backup, BackupFails, Truncate, WriteHalf, Write, WriteFails
<1>9. CASE Abandon
  BY <1>9 DEF Abandon
<1> QED
  BY <1>1, <1>2, <1>3, <1>4, <1>5, <1>6, <1>7, <1>8, <1>9 DEF Next, Update

LEMMA InForceAlways == Spec => []InForce
BY InForceInit, InForcePreserved, SettingsTyped, PTL DEF Spec

(* An update, whether it comes to its end or is refused on the way, leaves  *)
(* handlers built from exactly the settings in memory.                      *)
THEOREM HandlersMatchSettings == Spec => []SettingsInForce
<1>1. InForce => SettingsInForce
  BY DEF InForce, SettingsInForce, At
<1> QED
  BY <1>1, InForceAlways, PTL

(* After an update that came to its end the dedup cache holds no answer of  *)
(* the handlers before it, and gets none but from the leaders it outran.    *)
THEOREM OldAnswersGone == Spec => []NoOldAnswers
<1>1. InForce => NoOldAnswers
  BY DEF InForce, NoneBefore, NoOldAnswers, At
<1> QED
  BY <1>1, InForceAlways, PTL

-----------------------------------------------------------------------------
(* Restarts.  A setting is without a value only if it has no default; the   *)
(* text of the default prompt is never a setting.                           *)
Clean(c) == /\ c["system_prompt"] # BuiltIn
            /\ \A k \in Keys : c[k] = None => Defaults[k] = None

Kept(t, c, k) == \/ Loaded(Over(t, local))[k] = c[k]
                 \/ k = "top_k" /\ c[k] > MaxI64

Unwritten == Keys \ Managed
Before == {"idle", "open", "build", "replace", "clear", "backup"}

Restart ==
    /\ Clean(config) /\ Clean(original) /\ (up = "up" \/ pc = "idle")
    /\ up = "up" /\ pc = "idle" /\ "file" \notin left
          => file # Torn /\ \A k \in Managed \ DOMAIN local : Kept(file, config, k)
    /\ up = "up" /\ pc \in {"open", "build"} /\ "file" \notin left
          => file # Torn /\ \A k \in Managed \ DOMAIN local : Kept(file, original, k)
    /\ \A k \in Unwritten : pc \in {"open", "build"} => config[k] = original[k]
    /\ up = "up" /\ pc \in Before \cup {"truncate"} /\ "rest" \notin left /\ file # Torn
          => \A k \in Unwritten \ DOMAIN local : Kept(file, config, k)
    /\ up = "up" /\ pc \in Before \cup {"truncate"} /\ "rest" \notin left => file # Torn
    /\ up = "up" /\ pc \in {"truncate", "write"}
          => /\ \A k \in Managed \ DOMAIN local : Kept(doc, config, k)
             /\ "rest" \notin left => \A k \in Unwritten \ DOMAIN local : Kept(doc, config, k)

LEMMA LoadedClean ==
    ASSUME NEW t, Table(t) PROVE Clean(Loaded(t))
BY DEF Clean, Loaded, Filled, Table, Keys, Managed, Optional

LEMMA AppliedClean ==
    ASSUME NEW c, Config(c), Clean(c), NEW r \in Requests PROVE Clean(Applied(c, r))
<1>1. \A k \in Keys : Applied(c, r)[k] = None => Defaults[k] = None
  <2>1. \A k \in DOMAIN r : Normal(k, r[k]) = None => k \in Optional
    BY DEF Normal, Table, Typed, Optional
  <2> QED
    BY <2>1 DEF Clean, Applied
<1>2. Applied(c, r)["system_prompt"] # BuiltIn
  BY DEF Clean, Applied, Normal, Keys, Managed, Optional
<1> QED
  BY <1>1, <1>2 DEF Clean

(* What a document of the settings holds is what a restart loads.           *)
LEMMA DocumentKept ==
    ASSUME TypeOK, NEW c, Config(c), Clean(c), NEW t, Table(t),
           NEW k \in Keys \ DOMAIN local
    PROVE  /\ k \in Managed => Kept(Document(c, t), c, k)
           /\ k \in Unwritten /\ Kept(t, c, k) => Kept(Document(c, t), c, k)
<1> DEFINE d == Document(c, t)
<1>0. DOMAIN Over(d, local) = DOMAIN d \cup DOMAIN local
  BY DEF Over
<1>1. CASE k \in Managed /\ c[k] # None
  <2>1. k \in DOMAIN d /\ d[k] = Encoded(k, c[k])
    BY <1>1 DEF Document
  <2>2. Over(d, local)[k] = d[k] /\ k \in DOMAIN Over(d, local)
    BY <2>1 DEF Over
  <2>3. c[k] = BuiltIn => k # "system_prompt"
    BY DEF Clean
  <2>4. Encoded(k, c[k]) = c[k] \/ (k = "top_k" /\ c[k] > MaxI64)
    BY DEF Encoded
  <2>5. Encoded(k, c[k]) = c[k] => Loaded(Over(d, local))[k] = c[k]
    BY <2>1, <2>2, <2>3 DEF Loaded, Filled
  <2> QED
    BY <1>1, <2>4, <2>5 DEF Kept, Unwritten
<1>2. CASE k \in Managed /\ c[k] = None
  <2>1. k \notin DOMAIN Over(d, local)
    BY <1>0, <1>2 DEF Document
  <2> QED
    BY <1>2, <2>1 DEF Loaded, Filled, Kept, Clean, Unwritten
<1>3. CASE k \in Unwritten
  <2>1. k \in DOMAIN d <=> k \in DOMAIN t
    BY <1>3 DEF Document, Unwritten
  <2>2. k \in DOMAIN t => d[k] = t[k]
    BY <1>3 DEF Document, Unwritten
  <2>3. Loaded(Over(d, local))[k] = Loaded(Over(t, local))[k]
    BY <2>1, <2>2 DEF Loaded, Filled, Over
  <2> QED
    BY <1>3, <2>3 DEF Kept, Unwritten
<1> QED
  BY <1>1, <1>2, <1>3 DEF Unwritten

LEMMA RestartInit == Init => Restart
BY DEF Init, Restart, Clean, Keys, Managed, Optional, Before

LEMMA RestartPreserved == TypeOK /\ Restart /\ [Next]_vars => Restart'
<1> SUFFICES ASSUME TypeOK, Restart, [Next]_vars PROVE Restart'
  OBVIOUS
<1> USE DEF vars, calls, memory, disk, counts, At, Unlock, KeepRest
<1>0. Clean(Defaults) /\ Table(local) /\ Config(config) /\ Config(original)
  BY DEF Clean, Keys, Managed, Optional, TypeOK
<1>1. CASE UNCHANGED vars
  BY <1>1 DEF Restart, Kept
<1>2. CASE Start
  <2> DEFINE c == Loaded(Over(file, local))
  <2>1. file # Torn => Clean(c)
    BY <1>0, OverTable, LoadedClean DEF TypeOK
  <2>2. Clean(config') /\ Clean(original')
    BY <1>0, <1>2, <2>1 DEF Start, Restart
  <2>3. up' = "up" => file # Torn /\ config' = c
    BY <1>2 DEF Start
  <2> QED
    BY <1>2, <2>2, <2>3 DEF Start, Restart, Kept, Unwritten
<1>3. CASE Crash
  BY <1>0, <1>3 DEF Crash, Restart, Unwritten
<1>4. CASE Serve
  BY <1>4 DEF Serve, Choose, Publish, LeaderEnds, Expire, OfCalls, Restart, Kept
<1>5. ASSUME NEW r \in Requests, Begin(r) PROVE Restart'
  <2>1. Clean(config')
    BY <1>0, <1>5, AppliedClean DEF Begin, Restart
  <2>2. \A k \in Unwritten : config'[k] = config[k]
    BY <1>0, <1>5 DEF Begin, Applied, Unwritten
  <2> QED
    BY <1>5, <2>1, <2>2 DEF Begin, Restart, Kept, Before, Unwritten
<1>6. CASE OpenMemory \/ BuildAgent \/ ReplaceHandlers \/ ClearDedup
  BY <1>6 DEF OpenMemory, BuildAgent, ReplaceHandlers, ClearDedup, Restart, Kept, Before
<1>7. CASE OpenFails \/ BuildFails
  BY <1>0, <1>7 DEF OpenFails, BuildFails, Rollback, Restart, Kept, Before, Unwritten
<1>8. CASE Backup
  <2>1. file # Torn /\ Table(file)
    BY <1>8 DEF Backup, TypeOK
  <2>2. \A k \in Managed \ DOMAIN local : Kept(doc', config, k)
    BY <1>0, <1>8, <2>1, DocumentKept DEF Backup, Restart, Keys
  <2>3. "rest" \notin left => \A k \in Unwritten \ DOMAIN local : Kept(doc', config, k)
    BY <1>0, <1>8, <2>1, DocumentKept DEF Backup, Restart, Unwritten, Before
  <2> QED
    BY <1>8, <2>2, <2>3 DEF Backup, Restart, Kept, Before
<1>9. CASE BackupFails
  BY <1>9, <1>0 DEF BackupFails, Restart, Kept, Before
<1>10. CASE Truncate \/ WriteHalf
  BY <1>10 DEF Truncate, WriteHalf, Restart, Kept, Before
<1>11. CASE Write
  <2>1. file' # Torn
    BY <1>11, NothingIsTable DEF Write, TypeOK
  <2> QED
    BY <1>0, <1>11, <2>1 DEF Write, Restart, Kept, Before
<1>12. CASE WriteFails
  BY <1>0, <1>12 DEF WriteFails, Restart, Kept, Before
<1>13. CASE Abandon
  BY <1>0, <1>13 DEF Abandon, Restart, Kept, Before
<1> QED
  BY <1>1, <1>2, <1>3, <1>4, <1>5, <1>6, <1>7, <1>8, <1>9, <1>10, <1>11, <1>12, <1>13
  DEF Next, Update, Persist

(* A restart brings back the settings in force, whatever sequence of        *)
(* updates, failures and abandoned requests came before.                    *)
THEOREM RestartKeepsSettings == Spec => []SurvivesRestart
<1>1. TypeOK /\ Restart => SurvivesRestart
  BY DEF Restart, SurvivesRestart, At, Kept, Unwritten, Before
<1>2. Init => TypeOK /\ Restart
  BY Initial, RestartInit
<1>3. TypeOK /\ Restart /\ [Next]_vars => (TypeOK /\ Restart)'
  BY TypePreserved, RestartPreserved
<1> QED
  BY <1>1, <1>2, <1>3, PTL DEF Spec

(* A client that sends back the settings it was shown changes none of them, *)
(* a zero or an empty string from a file apart.                             *)
THEOREM EchoIsHarmless == Spec => []EchoChangesNothing
<1>1. TypeOK /\ Restart => EchoChangesNothing
  <2> SUFFICES ASSUME TypeOK, Clean(config), NEW k \in Keys,
                      config[k] # 0, config[k] # Empty
               PROVE  Applied(config, Shown(config))[k] = config[k]
    BY DEF Restart, EchoChangesNothing
  <2>1. CASE k \in DOMAIN Shown(config) /\ config[k] = None
    <3>1. k = "system_prompt" /\ Shown(config)[k] = BuiltIn
      BY <2>1 DEF Shown
    <3>2. Normal(k, BuiltIn) = None
      BY <3>1 DEF Normal
    <3> QED
      BY <2>1, <3>1, <3>2 DEF Applied
  <2>2. CASE k \in DOMAIN Shown(config) /\ config[k] # None
    <3>1. Shown(config)[k] = config[k]
      BY <2>2 DEF Shown
    <3>2. Normal(k, config[k]) = config[k]
      BY DEF Normal, Clean
    <3> QED
      BY <2>2, <3>1, <3>2 DEF Applied
  <2>3. CASE k \notin DOMAIN Shown(config)
    BY <2>3 DEF Applied
  <2> QED
    BY <2>1, <2>2, <2>3
<1>2. Init => TypeOK /\ Restart
  BY Initial, RestartInit
<1>3. TypeOK /\ Restart /\ [Next]_vars => (TypeOK /\ Restart)'
  BY TypePreserved, RestartPreserved
<1> QED
  BY <1>1, <1>2, <1>3, PTL DEF Spec

-----------------------------------------------------------------------------
(* Starting again.  What load checks of the settings in memory holds from   *)
(* the start on, the number and the memory's path apart.                    *)
Prepared(c) == LET e == Over(c, local)
               IN /\ e["top_k"] >= 0
                  /\ c["system_prompt"] \notin {Empty, Blank}
                  /\ "system_prompt" \in DOMAIN local => local["system_prompt"] \notin {Empty, Blank}
                  /\ Android => e["media_dir"] # Relative

Starts(t) == Loadable(Loaded(Over(t, local)))

Refusals ==
    /\ up = "refused" => unsound
    /\ up = "up" => Prepared(config)
    /\ pc # "idle" => up = "up"
    /\ pc \in {"open", "build"} => Prepared(original)
    /\ pc # "write" /\ ~ unsound => file # Torn /\ Starts(file)
    /\ pc \in {"truncate", "write"} => Unsound(config) \/ Starts(doc)

LEMMA LoadedPrepared ==
    ASSUME TypeOK, NEW t, Table(t), Starts(t) PROVE Prepared(Loaded(Over(t, local)))
<1> DEFINE c == Loaded(Over(t, local))
<1>1. \A k \in DOMAIN local : k # "system_prompt" => c[k] = local[k] /\ Over(c, local)[k] = local[k]
  BY DEF Loaded, Filled, Over, TypeOK, Table
<1>2. \A k \in Keys \ DOMAIN local : Over(c, local)[k] = c[k]
  BY DEF Over, Loaded
<1>3. "system_prompt" \in DOMAIN local => c["system_prompt"] = local["system_prompt"]
                                           \/ local["system_prompt"] = BuiltIn
  BY DEF Loaded, Filled, Over, Keys, Managed, Optional
<1>4. {"top_k", "media_dir"} \subseteq Keys
  BY DEF Keys, Managed, ReadOnly
<1>5. Loadable(c)
  BY DEF Starts
<1> HIDE DEF c
<1>6. Over(c, local)["top_k"] = c["top_k"] /\ Over(c, local)["media_dir"] = c["media_dir"]
  BY <1>1, <1>2, <1>4
<1>7. "system_prompt" \in DOMAIN local => local["system_prompt"] \notin {Empty, Blank}
  <2>1. BuiltIn \notin {Empty, Blank}
    OBVIOUS
  <2> QED
    BY <1>3, <1>5, <2>1 DEF Loadable
<1>8. Prepared(c)
  BY <1>5, <1>6, <1>7 DEF Loadable, Prepared
<1> QED
  BY <1>8 DEF c

LEMMA AppliedPrepared ==
    ASSUME TypeOK, Prepared(config), NEW r \in Requests, ~ Refused(r)
    PROVE  Prepared(Applied(config, r))
<1> DEFINE c == Applied(config, r)
<1>1. c["media_dir"] = config["media_dir"]
  BY DEF Refused, Applied, ReadOnly, Keys, Managed
<1>2. c["top_k"] = config["top_k"] \/ c["top_k"] >= 0
  BY DEF Applied, Normal, Keys, Managed, Typed, Table
<1>3. c["system_prompt"] \notin {Empty, Blank}
  BY DEF Refused, Names, Applied, Normal, Prepared, Keys, Managed, Optional
<1>4. /\ "top_k" \in Keys /\ "media_dir" \in Keys
      /\ DOMAIN c = Keys /\ DOMAIN config = Keys
  BY DEF Keys, Managed, ReadOnly, Applied, TypeOK, Config
<1>5. ASSUME NEW k \in Keys
      PROVE  \/ Over(c, local)[k] = Over(config, local)[k]
             \/ Over(c, local)[k] = c[k] /\ Over(config, local)[k] = config[k]
  BY <1>4 DEF Over
<1> HIDE DEF c
<1>0. /\ Over(config, local)["top_k"] >= 0
      /\ "system_prompt" \in DOMAIN local => local["system_prompt"] \notin {Empty, Blank}
      /\ Android => Over(config, local)["media_dir"] # Relative
  BY DEF Prepared
<1>6. Over(c, local)["top_k"] >= 0
  <2>1. \/ Over(c, local)["top_k"] = Over(config, local)["top_k"]
        \/ Over(c, local)["top_k"] = c["top_k"] /\ Over(config, local)["top_k"] = config["top_k"]
    BY <1>4, <1>5
  <2> QED
    BY <1>0, <1>2, <2>1
<1>7. Over(c, local)["media_dir"] = Over(config, local)["media_dir"]
  BY <1>1, <1>4, <1>5
<1>8. Prepared(c)
  BY <1>0, <1>3, <1>6, <1>7 DEF Prepared
<1> QED
  BY <1>8 DEF c

(* What an update writes can be loaded, unless it is unsound.               *)
LEMMA DocumentStarts ==
    ASSUME TypeOK, NEW t, Table(t), Clean(config), Prepared(config), ~ Unsound(config)
    PROVE  Starts(Document(config, t))
<1> DEFINE d == Document(config, t)
           e == Over(config, local)
           l == Loaded(Over(d, local))
<1>1. DOMAIN config = Keys /\ DOMAIN local \subseteq Keys /\ Managed \subseteq Keys
  BY DEF TypeOK, Config, Table, Keys
<1>2. \A k \in Managed : k # "system_prompt" /\ k \in DOMAIN local => l[k] = e[k]
  BY <1>1 DEF Loaded, Filled, Over
<1>3. \A k \in Managed : k \notin DOMAIN local => e[k] = config[k]
  BY <1>1 DEF Over
<1>4. \A k \in Managed : k \notin DOMAIN local => Kept(d, config, k)
  BY <1>1, DocumentKept DEF TypeOK
<1>5. l["top_k"] >= 0
  <2>1. "top_k" \in Managed
    BY DEF Managed
  <2> QED
    BY <1>2, <1>3, <1>4, <2>1 DEF Kept, Unsound, Prepared, TypeOK, Config
<1>6. \A k \in {"media_dir", "memory_enabled", "memory_path"} : l[k] = e[k]
  <2>1. {"media_dir", "memory_enabled", "memory_path"} \subseteq Managed
    BY DEF Managed, ReadOnly
  <2> QED
    BY <1>2, <1>3, <1>4, <2>1 DEF Kept
<1>7. l["system_prompt"] \notin {Empty, Blank}
  <2>1. "system_prompt" \in Managed
    BY DEF Managed, Optional
  <2>2. CASE "system_prompt" \in DOMAIN local
    <3>1. l["system_prompt"] \in {None, local["system_prompt"]}
      BY <1>1, <2>1, <2>2 DEF Loaded, Filled, Over
    <3>2. None \notin {Empty, Blank}
      OBVIOUS
    <3> QED
      BY <2>2, <3>1, <3>2 DEF Prepared
  <2>3. CASE "system_prompt" \notin DOMAIN local
    BY <1>4, <2>1, <2>3 DEF Kept, Prepared
  <2> QED
    BY <2>2, <2>3
<1> QED
  BY <1>5, <1>6, <1>7 DEF Starts, Loadable, Prepared, Unsound

LEMMA RefusalsInit == Init => Refusals
<1>1. Init => file # Torn
  BY NothingIsTable DEF Init
<1>2. Init => (~ unsound => Starts(file))
  BY Zenon DEF Init, Starts
<1>3. Init => up = "down" /\ pc = "idle"
  BY DEF Init
<1> QED
  BY <1>1, <1>2, <1>3 DEF Refusals

LEMMA RefusalsPreserved == TypeOK /\ Restart /\ Refusals /\ [Next]_vars => Refusals'
<1> SUFFICES ASSUME TypeOK, Restart, Refusals, [Next]_vars PROVE Refusals'
  OBVIOUS
<1> USE DEF Refusals, vars, calls, memory, disk, counts, At, Unlock, KeepRest
<1>1. CASE UNCHANGED vars
  BY <1>1 DEF Starts, Prepared, Unsound
<1>2. CASE Start
  <2>1. up' = "up" => Prepared(config')
    BY <1>2, LoadedPrepared DEF Start, TypeOK, Starts
  <2> QED
    BY <1>2, <2>1 DEF Start, Starts, Prepared
<1>3. CASE Crash
  BY <1>3 DEF Crash, Starts
<1>4. CASE Serve
  BY <1>4 DEF Serve, Choose, Publish, LeaderEnds, Expire, OfCalls, Starts, Prepared, Unsound
<1>5. ASSUME NEW r \in Requests, Begin(r) PROVE Refusals'
  <2>1. Prepared(Applied(config, r))
    BY <1>5, AppliedPrepared DEF Begin
  <2> QED
    BY <1>5, <2>1 DEF Begin, Starts, Prepared
<1>6. CASE OpenMemory \/ BuildAgent \/ ReplaceHandlers \/ ClearDedup
  BY <1>6 DEF OpenMemory, BuildAgent, ReplaceHandlers, ClearDedup, Starts, Prepared
<1>7. CASE OpenFails \/ BuildFails
  <2>1. pc \in {"open", "build"} /\ config' = original
    BY <1>7 DEF OpenFails, BuildFails, Rollback
  <2> QED
    BY <1>7, <2>1 DEF OpenFails, BuildFails, Rollback, Starts, Prepared
<1>8. CASE Backup
  <2>1. Unsound(config) \/ Starts(doc')
    BY <1>8, DocumentStarts DEF Backup, TypeOK, Restart
  <2> QED
    BY <1>8, <2>1 DEF Backup, Starts, Prepared, Unsound
<1>9. CASE BackupFails \/ Abandon
  BY <1>9 DEF BackupFails, Abandon, Starts, Prepared
<1>10. CASE Truncate \/ WriteHalf
  BY <1>10 DEF Truncate, WriteHalf, Starts, Prepared, Unsound
<1>11. CASE Write
  <2>1. file' # Torn
    BY <1>11, NothingIsTable DEF Write, TypeOK
  <2>2. ~ unsound' => ~ unsound /\ ~ Unsound(config)
    BY <1>11, Zenon DEF Write
  <2> QED
    BY <1>11, <2>1, <2>2 DEF Write, Starts, Prepared
<1>12. CASE WriteFails
  BY <1>12 DEF WriteFails, Starts, Prepared
<1> QED
  BY <1>1, <1>2, <1>3, <1>4, <1>5, <1>6, <1>7, <1>8, <1>9, <1>10, <1>11, <1>12
  DEF Next, Update, Persist

(* Whatever updates are accepted, the server starts again after them unless *)
(* one saved too large a number or the relative path of a memory in use, or *)
(* was interrupted while it wrote the file.                                 *)
THEOREM RefusalsExplained == Spec => []RefusesOnlyUnsound
<1>1. Refusals => RefusesOnlyUnsound
  BY DEF Refusals, RefusesOnlyUnsound
<1>2. Init => TypeOK /\ Restart /\ Refusals
  BY Initial, RestartInit, RefusalsInit
<1>3. TypeOK /\ Restart /\ Refusals /\ [Next]_vars => (TypeOK /\ Restart /\ Refusals)'
  BY TypePreserved, RestartPreserved, RefusalsPreserved
<1> QED
  BY <1>1, <1>2, <1>3, PTL DEF Spec

-----------------------------------------------------------------------------
(* The backup.  What is on the disk is whole or cut, and a cut file's       *)
(* backup is whole or empty.                                                *)
Copies == /\ file \in {complete, Nothing, Torn}
          /\ pc = "truncate" => bak = file /\ file # Torn
          /\ pc = "write" => bak \in {complete, Nothing} /\ file \in {Nothing, Torn}

LEMMA CopiesPreserved == TypeOK /\ Copies /\ [Next]_vars => Copies'
<1> SUFFICES ASSUME TypeOK, Copies, [Next]_vars PROVE Copies'
  OBVIOUS
<1> USE DEF Copies, vars, calls, memory, disk, counts, At, Unlock, KeepRest
<1>1. CASE UNCHANGED vars \/ Start \/ Crash \/ Serve
  BY <1>1 DEF Start, Crash, Serve, Choose, Publish, LeaderEnds, Expire, OfCalls
<1>2. ASSUME NEW r \in Requests, Begin(r) PROVE Copies'
  BY <1>2 DEF Begin
<1>3. CASE OpenMemory \/ BuildAgent \/ ReplaceHandlers \/ ClearDedup
  BY <1>3 DEF OpenMemory, BuildAgent, ReplaceHandlers, ClearDedup
<1>4. CASE OpenFails \/ BuildFails \/ Abandon
  BY <1>4 DEF OpenFails, BuildFails, Rollback, Abandon
<1>5. CASE Persist
  BY <1>5 DEF Persist, Backup, BackupFails, Truncate, WriteHalf, Write, WriteFails
<1> QED
  BY <1>1, <1>2, <1>3, <1>4, <1>5 DEF Next, Update

(* The last settings written in full are lost from the disk only when an    *)
(* update copies a file that was cut over their backup.                     *)
THEOREM BackupSavesLast == Spec => BackupLosesLast
<1> DEFINE A == OnDisk(complete) /\ complete' = complete
                   => complete \in {file', bak'} \/ (pc = "backup" /\ file # complete)
<1>1. TypeOK /\ Copies /\ [Next]_vars => [A]_vars
  <2> SUFFICES ASSUME TypeOK, Copies, [Next]_vars PROVE [A]_vars
    OBVIOUS
  <2> USE DEF OnDisk, Copies, vars, calls, memory, disk, counts, At, Unlock, KeepRest
  <2>1. CASE UNCHANGED vars \/ Start \/ Crash \/ Serve
    BY <2>1 DEF Start, Crash, Serve, Choose, Publish, LeaderEnds, Expire, OfCalls
  <2>2. ASSUME NEW r \in Requests, Begin(r) PROVE A
    BY <2>2 DEF Begin
  <2>3. CASE OpenMemory \/ BuildAgent \/ ReplaceHandlers \/ ClearDedup
    BY <2>3 DEF OpenMemory, BuildAgent, ReplaceHandlers, ClearDedup
  <2>4. CASE OpenFails \/ BuildFails \/ Abandon
    BY <2>4 DEF OpenFails, BuildFails, Rollback, Abandon
  <2>5. complete # Torn
    BY NothingIsTable DEF TypeOK
  <2>6. ASSUME Backup \/ BackupFails PROVE A
    BY <2>6 DEF Backup, BackupFails
  <2>7. ASSUME Truncate PROVE A
    BY <2>7 DEF Truncate
  <2>8. ASSUME WriteHalf PROVE A
    BY <2>5, <2>8 DEF WriteHalf
  <2>9. ASSUME Write \/ WriteFails PROVE A
    BY <2>9 DEF Write, WriteFails
  <2> QED
    BY <2>1, <2>2, <2>3, <2>4, <2>6, <2>7, <2>8, <2>9 DEF Next, Update, Persist
<1>2. Init => Copies
  BY DEF Init, Copies
<1> QED
  BY <1>1, <1>2, Initial, TypePreserved, CopiesPreserved, PTL DEF Spec, BackupLosesLast
=============================================================================
