----------------------------- MODULE ServerRuntime -----------------------------
(* The supervision of the native server by the Android service:            *)
(* ServerRuntime.kt, with NativeBridge.kt as it uses it.                    *)
(*                                                                          *)
(* Two threads work on `process`.  The main thread runs start and stop, one *)
(* after the other, since only callbacks of ServerService call them.  The   *)
(* supervisor, once there, watches the process and starts it again.  Each   *)
(* block that is synchronized on stateLock is one action; what is read or   *)
(* done outside of it is an action of its own, so stop can come between the *)
(* supervisor's look at desiredRunning and its start of a process.          *)
(*                                                                          *)
(* Left out: the waits between two tries, the state listener and the        *)
(* threads that forward the server's log.                                   *)
EXTENDS Naturals, FiniteSets

CONSTANTS Processes,   \* what a launch may create
          NoProcess,   \* no process; not one of Processes
          MaxForsaken  \* bound on the processes forsaken that still run

VARIABLES
    desiredRunning,     \* what start and stop ask for
    supervisorStarted,  \* there is a supervisor thread
    process,            \* the process in use, or NoProcess
    alive,              \* the processes that run
    main,               \* the main thread: in start, in stop, or "idle"
    toStop,             \* the process stop has taken and not yet ended
    forsaken,           \* history: processes that stop gave up on
    supervisor,         \* where the supervisor's loop is
    proc                \* the process the supervisor waits for

runtimeVars == <<desiredRunning, supervisorStarted, process, alive, main, toStop, forsaken,
                 supervisor, proc>>

RuntimeTypeOK ==
    /\ desiredRunning \in BOOLEAN
    /\ supervisorStarted \in BOOLEAN
    /\ process \in Processes \cup {NoProcess}
    /\ alive \subseteq Processes
    /\ main \in {"idle", "starting", "ensuring", "stopping", "killing"}
    /\ toStop \in Processes \cup {NoProcess} /\ forsaken \subseteq Processes
    /\ supervisor \in {"none", "asking", "looking", "launching", "waiting"}
    /\ proc \in Processes \cup {NoProcess}

RuntimeInit ==
    /\ desiredRunning = FALSE
    /\ supervisorStarted = FALSE
    /\ process = NoProcess
    /\ alive = {}
    /\ main = "idle"
    /\ toStop = NoProcess /\ forsaken = {}
    /\ supervisor = "none"
    /\ proc = NoProcess

-----------------------------------------------------------------------------
(* NativeBridge.start: a process of its own.                                *)
Launch ==
    \E p \in Processes \ (alive \cup {process, toStop, proc}) :
        /\ process' = p
        /\ alive' = alive \cup {p}
        /\ forsaken' = forsaken \ {p}

(* startProcessIfNeeded, when it returns: a process that runs is kept.      *)
StartProcessIfNeeded ==
    IF process \in alive THEN UNCHANGED <<process, alive, forsaken>> ELSE Launch

-----------------------------------------------------------------------------
(* start(): sets what is desired, starts a process and sees to a            *)
(* supervisor.  A launch that fails leaves start before the latter.         *)
Start ==
    /\ main = "idle"
    /\ main' = "starting"
    /\ desiredRunning' = TRUE
    /\ UNCHANGED <<supervisorStarted, process, alive, forsaken, toStop, supervisor, proc>>

StartProcess ==
    /\ main = "starting"
    /\ StartProcessIfNeeded
    /\ main' = "ensuring"
    /\ UNCHANGED <<desiredRunning, supervisorStarted, toStop, supervisor, proc>>

StartFails ==
    /\ main = "starting" /\ process \notin alive
    /\ main' = "idle"
    /\ UNCHANGED <<desiredRunning, supervisorStarted, process, alive, forsaken, toStop, supervisor, proc>>

EnsureSupervisorThread ==
    /\ main = "ensuring"
    /\ main' = "idle"
    /\ supervisorStarted' = TRUE
    /\ supervisor' = IF supervisorStarted THEN supervisor ELSE "asking"
    /\ UNCHANGED <<desiredRunning, process, alive, forsaken, toStop, proc>>

(* stop(): takes the process away under the lock and ends it outside of it. *)
Stop ==
    /\ main = "idle"
    /\ main' = "stopping"
    /\ desiredRunning' = FALSE
    /\ UNCHANGED <<supervisorStarted, process, alive, forsaken, toStop, supervisor, proc>>

TakeProcess ==
    /\ main = "stopping"
    /\ main' = IF process = NoProcess THEN "idle" ELSE "killing"
    /\ toStop' = process
    /\ process' = NoProcess
    /\ UNCHANGED <<desiredRunning, supervisorStarted, alive, forsaken, supervisor, proc>>

(* NativeBridge.stop waits until it is gone and kills it if need be.        *)
Kill ==
    /\ main = "killing"
    /\ main' = "idle"
    /\ alive' = alive \ {toStop}
    /\ toStop' = NoProcess
    /\ UNCHANGED <<desiredRunning, supervisorStarted, process, forsaken, supervisor, proc>>

(* It throws, which stop() only logs, or the process outlives both waits.   *)
GiveUp ==
    /\ main = "killing" /\ toStop \in alive
    /\ Cardinality(forsaken \cap alive) < MaxForsaken
    /\ main' = "idle"
    /\ forsaken' = forsaken \cup {toStop}
    /\ toStop' = NoProcess
    /\ UNCHANGED <<desiredRunning, supervisorStarted, process, alive, supervisor, proc>>

MainStep == StartProcess \/ EnsureSupervisorThread \/ TakeProcess \/ Kill \/ GiveUp

-----------------------------------------------------------------------------
(* supervisorLoop: is a server desired, is there one, start it or wait for  *)
(* its end.  A launch that fails is tried again.                            *)
Ask ==
    /\ supervisor = "asking" /\ desiredRunning
    /\ supervisor' = "looking"
    /\ UNCHANGED <<desiredRunning, supervisorStarted, process, alive, forsaken, main, toStop, proc>>

Look ==
    /\ supervisor = "looking"
    /\ supervisor' = IF process = NoProcess THEN "launching" ELSE "waiting"
    /\ proc' = process
    /\ UNCHANGED <<desiredRunning, supervisorStarted, process, alive, forsaken, main, toStop>>

Restart ==
    /\ supervisor = "launching"
    /\ StartProcessIfNeeded
    /\ supervisor' = "asking"
    /\ UNCHANGED <<desiredRunning, supervisorStarted, main, toStop, proc>>

RestartFails ==
    /\ supervisor = "launching" /\ process \notin alive
    /\ supervisor' = "asking"
    /\ UNCHANGED <<desiredRunning, supervisorStarted, process, alive, forsaken, main, toStop, proc>>

(* Mutated forms: the supervisor forgets a process it did not wait for, or  *)
(* keeps the one that ended.                                                *)
SeeExit_ForgetsAny ==
    /\ supervisor = "waiting" /\ proc \notin alive
    /\ process' = NoProcess
    /\ supervisor' = "asking"
    /\ proc' = NoProcess
    /\ UNCHANGED <<desiredRunning, supervisorStarted, alive, forsaken, main, toStop>>

SeeExit_KeepsProcess ==
    /\ supervisor = "waiting" /\ proc \notin alive
    /\ supervisor' = "asking"
    /\ proc' = NoProcess
    /\ UNCHANGED <<desiredRunning, supervisorStarted, process, alive, forsaken, main, toStop>>

(* waitFor has returned.  By then stop may have taken the process, and      *)
(* start may have put another in its place.                                 *)
SeeExit ==
    /\ supervisor = "waiting" /\ proc \notin alive
    /\ process' = IF process = proc THEN NoProcess ELSE process
    /\ supervisor' = "asking"
    /\ proc' = NoProcess
    /\ UNCHANGED <<desiredRunning, supervisorStarted, alive, forsaken, main, toStop>>

SupervisorStep == Ask \/ Look \/ SeeExit

-----------------------------------------------------------------------------
(* The server ends by itself.                                               *)
Crash ==
    /\ \E p \in alive : alive' = alive \ {p} /\ forsaken' = forsaken \ {p}
    /\ UNCHANGED <<desiredRunning, supervisorStarted, process, main, toStop, supervisor, proc>>

RuntimeNext ==
    \/ Start \/ StartFails \/ Stop \/ MainStep
    \/ SupervisorStep \/ Restart \/ RestartFails
    \/ Crash

(* Both threads run.  A launch that is tried over and over succeeds once,   *)
(* or the server could not be brought back by anyone.                       *)
RuntimeFairness == WF_runtimeVars(MainStep) /\ WF_runtimeVars(SupervisorStep) /\ SF_runtimeVars(Restart)

RuntimeSpec == RuntimeInit /\ [][RuntimeNext]_runtimeVars /\ RuntimeFairness

-----------------------------------------------------------------------------
(* A server that runs is the one in `process` or the one that stop is about *)
(* to end, but for those that stop could not end and gave up on.  So there  *)
(* is at most one beside these, and none that the next stop would not find: *)
(* the supervisor's exit handling must not forget a process that start has  *)
(* put in place of the one it waited for.                                   *)
OneServer == alive \ forsaken \subseteq {process, toStop}

(* While a server is desired and the supervisor is there, it runs again and *)
(* again, however often it ends and whenever start and stop were called,    *)
(* but for while the supervisor waits for one that stop gave up on.         *)
ServerComesBack ==
    []<>(desiredRunning /\ supervisorStarted => process \in alive \/ proc \in forsaken \cap alive)
=============================================================================
