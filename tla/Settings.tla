------------------------------ MODULE Settings ------------------------------
(***************************************************************************)
(* The settings of the server: config.toml and config.local.toml as        *)
(* Config::load reads them, the configuration in memory, the handlers      *)
(* built from it, and PUT /api/settings, which changes all of them under   *)
(* one write lock, with await points between the steps.                    *)
(*                                                                         *)
(* Fields of Config that the code treats alike are one key; a TOML table   *)
(* is a function on the keys it holds, a missing file an empty one.  The   *)
(* client may go away, which drops the handler at an await point; the      *)
(* process may be killed at any time; a write may fail half-way, and the   *)
(* file then holds nothing, or a text that does not parse (Torn).          *)
(***************************************************************************)
EXTENDS Integers

CONSTANTS
    Values,             \* what a key other than top_k may hold
    None, Empty, Blank, \* no value, the empty string, white space
    BuiltIn, Malformed, \* the text of the default prompt, a broken template
    On, Relative,       \* true, a relative path
    Requests,           \* bodies of PUT /api/settings: raw values of some keys
    Defaults,           \* Config::default
    Files, Locals,      \* what config.toml and config.local.toml may hold
    Android,            \* target_os = "android"
    MaxI64,             \* the largest number a TOML file holds
    MaxUpdates, MaxCrashes      \* bounds on accepted updates and on crashes

ReadOnly == {"media_dir"}
Optional == {"api_key", "system_prompt", "display_name"}
Managed  == Optional \cup ReadOnly \cup {"model", "memory_enabled", "memory_path", "top_k"}
Keys     == Managed \cup {"log_dir"}

Nothing == [k \in {} |-> None]
Torn    == [k \in {"torn"} |-> None]

Typed(t) == \A k \in DOMAIN t : IF k = "top_k" THEN t[k] \in Int ELSE t[k] \in Values
Config(c) == DOMAIN c = Keys /\ Typed(c) /\ c["top_k"] >= 0
Table(t)  == DOMAIN t \subseteq Keys /\ Typed(t) /\ \A k \in DOMAIN t : t[k] # None

ASSUME SettingsAssumption ==
    /\ {None, Empty, Blank, BuiltIn, Malformed, On, Relative} \subseteq Values
    /\ Values \cap Int = {} /\ {None, BuiltIn} \cap {Empty, Blank} = {} /\ None # BuiltIn
    /\ Config(Defaults) /\ \A k \in Optional : Defaults[k] = None
    /\ \A t \in Files \cup Locals : Table(t)
    /\ \A r \in Requests : /\ Table(r) /\ DOMAIN r \subseteq Managed
                           /\ "top_k" \in DOMAIN r => r["top_k"] >= 0
    /\ Android \in BOOLEAN /\ MaxI64 \in Nat /\ MaxUpdates \in Nat /\ MaxCrashes \in Nat

VARIABLES
    up,         \* "down", "up", or "refused" by Config::load
    file, local, bak,   \* config.toml, config.local.toml, config.toml.bak
    config,     \* shared_config
    handlers,   \* the configuration the handlers of AiBus were built from
    cached,     \* the configurations whose answers the dedup cache holds
    running,    \* those whose handlers the leaders in flight have chosen
    pc,         \* where the update that holds the write lock is
    original, doc,      \* its copy of the configuration, its TOML document
    left,       \* history: what interrupted updates left behind the memory; "rest"
                \* is what no update writes
    complete,   \* history: what config.toml held when last written in full
    outrun,     \* history: running when the dedup cache was last cleared
    unsound,    \* history: a setting that load refuses was saved, or a write cut
    updates, crashes

calls   == <<cached, running, outrun>>
memory  == <<config, handlers, calls>>
disk    == <<file, local, bak>>
counts  == <<updates, crashes>>
vars == <<up, disk, memory, pc, original, doc, left, complete, unsound, counts>>

-----------------------------------------------------------------------------
(* Reading.                                                                 *)
Over(base, overlay) ==
    [k \in DOMAIN base \cup DOMAIN overlay |-> IF k \in DOMAIN overlay THEN overlay[k] ELSE base[k]]

Filled(t) == [k \in Keys |-> IF k \in DOMAIN t THEN t[k] ELSE Defaults[k]]

Loaded(t) == [k \in Keys |-> IF k = "system_prompt" /\ Filled(t)[k] = BuiltIn THEN None
                             ELSE Filled(t)[k]]

(* A usize is not negative; the prompt is not blank; on Android the paths   *)
(* are absolute, that of the memory if it is enabled.                       *)
Loadable(c) ==
    /\ c["top_k"] >= 0
    /\ c["system_prompt"] \notin {Empty, Blank}
    /\ Android => /\ c["media_dir"] # Relative
                  /\ c["memory_enabled"] = On => c["memory_path"] # Relative

(* What an update lets through: it looks neither at the width of a number   *)
(* nor at the local file, which may enable the memory it turns off.         *)
Unsound(c) == LET e == Over(c, local)
              IN \/ e["top_k"] > MaxI64
                 \/ Android /\ e["memory_enabled"] = On /\ e["memory_path"] = Relative

(* What GET /api/settings shows.                                            *)
Shown(c) == [k \in {j \in Managed \ ReadOnly : c[j] # None \/ j = "system_prompt"} \ {"api_key"} |->
                IF c[k] = None THEN BuiltIn ELSE c[k]]

(* Writing.  Mutated forms (named ..._) of a definition stand before it:    *)
(* each is a bug the properties have to notice.                             *)
Normal(k, raw) ==
    IF k = "top_k" THEN (IF raw = 0 THEN 1 ELSE raw)
    ELSE IF k \in Optional /\ raw = Empty THEN None
    ELSE IF k = "system_prompt" /\ raw = BuiltIn THEN None
    ELSE raw

Applied(c, r) == [k \in Keys |-> IF k \in DOMAIN r THEN Normal(k, r[k]) ELSE c[k]]

(* `as i64`.                                                                *)
Encoded(k, v) == IF k = "top_k" /\ v > MaxI64 THEN v - 2 * (MaxI64 + 1) ELSE v

Document_KeepsCleared(c, existing) ==
    [k \in {j \in Managed : c[j] # None} \cup DOMAIN existing |->
        IF k \in Managed /\ c[k] # None THEN Encoded(k, c[k]) ELSE existing[k]]

(* The document that is there, its managed keys replaced or removed.        *)
Document(c, existing) ==
    [k \in {j \in Managed : c[j] # None} \cup (DOMAIN existing \ Managed) |->
        IF k \in Managed THEN Encoded(k, c[k]) ELSE existing[k]]

Names(r, k, bad) == k \in DOMAIN r /\ r[k] \in bad
Refused_NoPromptCheck(r) == DOMAIN r \cap ReadOnly # {} \/ Names(r, "memory_path", {Empty, Blank})

Refused(r) == \/ DOMAIN r \cap ReadOnly # {}
              \/ Names(r, "system_prompt", {Blank, Malformed})
              \/ Names(r, "memory_path", {Empty, Blank})

-----------------------------------------------------------------------------
Init == /\ up = "down"
        /\ file \in Files /\ local \in Locals /\ bak = Nothing
        /\ config = Defaults /\ handlers = Defaults
        /\ cached = {} /\ running = {} /\ outrun = {}
        /\ pc = "idle" /\ original = Defaults /\ doc = Nothing
        /\ left = {} /\ complete = file
        /\ unsound = ~ Loadable(Loaded(Over(file, local)))
        /\ updates = 0 /\ crashes = 0

(* async_main: a configuration that cannot be loaded ends it.  (So does a   *)
(* memory or an agent that cannot be built: the server then stays down.)    *)
Start == /\ up = "down"
         /\ LET c == Loaded(Over(file, local))
            IN IF file # Torn /\ Loadable(c) THEN /\ up' = "up" /\ config' = c /\ handlers' = c
                              ELSE up' = "refused" /\ UNCHANGED <<config, handlers>>
         /\ UNCHANGED <<disk, calls, pc, original, doc, left, complete, unsound, counts>>

Crash == /\ up = "up" /\ crashes < MaxCrashes
         /\ crashes' = crashes + 1
         /\ up' = "down" /\ pc' = "idle" /\ left' = {}
         /\ config' = Defaults /\ handlers' = Defaults
         /\ cached' = {} /\ running' = {} /\ outrun' = {}
         /\ original' = Defaults /\ doc' = Nothing
         /\ unsound' = (unsound \/ pc = "write")
         /\ UNCHANGED <<disk, complete, updates>>

(* The leader of a deduplicated call picks the handlers in force and runs   *)
(* them; its answer goes into the cache later, whatever has been replaced   *)
(* and cleared by then, and is kept a while.  A leader ends when it has     *)
(* published or when its client goes away.                                  *)
OfCalls == UNCHANGED <<up, disk, config, handlers, outrun, pc, original, doc, left, complete, unsound, counts>>

Choose  == up = "up" /\ running' = running \cup {handlers} /\ UNCHANGED cached /\ OfCalls
Publish == /\ \E c \in running : cached' = cached \cup {c}
           /\ UNCHANGED running /\ OfCalls
LeaderEnds == /\ \E c \in running : running' = running \ {c}
              /\ UNCHANGED cached /\ OfCalls
Expire == /\ \E c \in cached : cached' = cached \ {c}
          /\ UNCHANGED running /\ OfCalls
Serve == Choose \/ Publish \/ LeaderEnds \/ Expire

-----------------------------------------------------------------------------
(* update_settings.                                                         *)
At(step) == up = "up" /\ pc = step
Unlock == pc' = "idle" /\ original' = Defaults /\ doc' = Nothing
KeepRest == UNCHANGED <<up, local, complete, unsound, counts>>

Begin(r) == /\ At("idle") /\ updates < MaxUpdates
            /\ ~ Refused(r)
            /\ config' = Applied(config, r)
            /\ original' = config
            /\ pc' = "open" /\ updates' = updates + 1
            /\ UNCHANGED <<up, disk, handlers, calls, doc, left, complete, unsound, crashes>>

Rollback == /\ config' = original /\ Unlock
            /\ UNCHANGED <<file, bak, handlers, calls, left>> /\ KeepRest

OpenMemory == /\ At("open") /\ pc' = "build"
              /\ UNCHANGED <<file, bak, memory, original, doc, left>> /\ KeepRest
OpenFails == At("open") /\ config["memory_enabled"] = On /\ Rollback

BuildAgent == /\ At("build") /\ pc' = "replace"
              /\ UNCHANGED <<file, bak, memory, original, doc, left>> /\ KeepRest

BuildFails_NoRollback == /\ At("build") /\ Unlock
                         /\ UNCHANGED <<file, bak, memory, left>> /\ KeepRest
BuildFails == At("build") /\ Rollback

ReplaceHandlers == /\ At("replace") /\ pc' = "clear"
                   /\ handlers' = config /\ left' = left \ {"handlers"}
                   /\ UNCHANGED <<file, bak, config, calls, original, doc>> /\ KeepRest

ClearDedup_Skipped == /\ At("clear") /\ pc' = "backup" /\ left' = left \ {"cache"}
                      /\ UNCHANGED <<file, bak, memory, original, doc>> /\ KeepRest
ClearDedup == /\ At("clear") /\ pc' = "backup"
              /\ cached' = {} /\ outrun' = running /\ left' = left \ {"cache"}
              /\ UNCHANGED <<file, bak, config, handlers, running, original, doc>> /\ KeepRest

(* persist_config: nothing of it awaits.  Its failure is only logged.       *)
Backup_AfterTruncation ==
    /\ At("backup") /\ file # Torn /\ pc' = "write" /\ doc' = Document(config, file)
    /\ file' = Nothing /\ bak' = Nothing
    /\ UNCHANGED <<memory, original, left>> /\ KeepRest
Backup == /\ At("backup") /\ file # Torn /\ pc' = "truncate"
          /\ doc' = Document(config, file) /\ bak' = file
          /\ UNCHANGED <<file, memory, original, left>> /\ KeepRest

(* The file does not parse, or cannot be copied.                           *)
BackupFails == /\ At("backup") /\ Unlock
               /\ IF file = Torn THEN bak' = bak ELSE bak' \in {bak, Nothing}
               /\ left' = left \cup {"file"}
               /\ UNCHANGED <<file, memory>> /\ KeepRest

Truncate == /\ At("truncate") /\ pc' = "write" /\ file' = Nothing
            /\ UNCHANGED <<bak, memory, original, doc, left>> /\ KeepRest

WriteHalf == /\ At("write") /\ file' = Torn
             /\ UNCHANGED <<pc, bak, memory, original, doc, left>> /\ KeepRest

Write == /\ At("write") /\ Unlock
         /\ file' = doc /\ complete' = doc /\ left' = left \ {"file"}
         /\ unsound' = (unsound \/ Unsound(config))
         /\ UNCHANGED <<up, local, bak, memory, counts>>

WriteFails == /\ At("write") /\ Unlock
              /\ left' = left \cup {"file", "rest"} /\ unsound' = TRUE
              /\ UNCHANGED <<up, disk, memory, complete, counts>>

(* The client goes away.                                                    *)
Abandon == /\ \E step \in {"open", "build", "replace", "clear"} :
                 /\ At(step)
                 /\ left' = left \cup {"cache", "file"}
                                 \cup (IF step = "clear" THEN {} ELSE {"handlers"})
           /\ Unlock
           /\ UNCHANGED <<file, bak, memory>> /\ KeepRest

Persist == Backup \/ BackupFails \/ Truncate \/ WriteHalf \/ Write \/ WriteFails
Update == \/ \E r \in Requests : Begin(r)
          \/ OpenMemory \/ OpenFails \/ BuildAgent \/ BuildFails
          \/ ReplaceHandlers \/ ClearDedup \/ Persist \/ Abandon

Next == Start \/ Crash \/ Serve \/ Update
Spec == Init /\ [][Next]_vars

-----------------------------------------------------------------------------
Steps == {"idle", "open", "build", "replace", "clear", "backup", "truncate", "write"}

TypeOK == /\ up \in {"down", "up", "refused"} /\ pc \in Steps
          /\ file = Torn \/ Table(file)
          /\ Table(local) /\ Table(bak) /\ Table(doc) /\ Table(complete)
          /\ Config(config) /\ Config(handlers) /\ Config(original)
          /\ \A c \in cached \cup running : Config(c)
          /\ left \subseteq {"handlers", "cache", "file", "rest"} /\ unsound \in BOOLEAN
          /\ updates \in Nat /\ crashes \in Nat

(* Outside an update, and unless a client has abandoned one, calls are      *)
(* answered by handlers of exactly the settings GET shows: an update that   *)
(* is refused at any step has changed nothing.                              *)
SettingsInForce == At("idle") /\ "handlers" \notin left => handlers = config

(* ... and an update that came to its end leaves no answer of earlier       *)
(* settings in the dedup cache, or to come into it, except from a leader    *)
(* that had chosen its handlers and not ended when the cache was cleared.   *)
NoOldAnswers == At("idle") /\ "cache" \notin left
                   => cached \cup running \subseteq {handlers} \cup outrun

(* A restart brings back the settings in force, those that the local file   *)
(* overrides apart, unless saving them was cut short (or a number does not  *)
(* fit the file).  A cut file also lost what no update writes, for good.    *)
SurvivesRestart ==
    At("idle") /\ "file" \notin left =>
        \A k \in (IF "rest" \in left THEN Managed ELSE Keys) \ DOMAIN local :
            \/ Loaded(Over(file, local))[k] = config[k]
            \/ k = "top_k" /\ config[k] > MaxI64

(* The server refuses to start again only if it saved a number too large,   *)
(* or the relative path of a memory that it or the local file enables, or   *)
(* was interrupted between truncating the file and writing it, or if its    *)
(* files could not be loaded before it first started.                       *)
RefusesOnlyUnsound == up = "refused" => unsound

(* Sending back what GET shows changes nothing but a zero and an empty      *)
(* string, which a file may hold and an update never leaves.                *)
EchoChangesNothing ==
    \A k \in Keys : config[k] # 0 /\ config[k] # Empty
                       => Applied(config, Shown(config))[k] = config[k]

(* The last file written in full is lost from the disk only when an update  *)
(* makes the backup of a file that was cut.                                 *)
OnDisk(t) == t \in {file, bak}
BackupLosesLast == [][OnDisk(complete) /\ complete' = complete
                        => complete \in {file', bak'} \/ (pc = "backup" /\ file # complete)]_vars
=============================================================================
