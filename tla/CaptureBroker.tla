---------------------------- MODULE CaptureBroker ----------------------------
(* The live capture broker of server-rs/src/capture_broker.rs and the HTTP   *)
(* handler GET /api/photos/wait of server-rs/src/api.rs that waits on it.    *)
(*                                                                           *)
(* Each agent is an HTTP client that calls wait again and again.  The broker *)
(* keeps the latest frame under a mutex and wakes the waiters with           *)
(* Notify::notify_waiters, which reaches the Notified futures that exist at  *)
(* that moment and leaves no permit for later ones.                          *)
(*                                                                           *)
(* request_capture has no caller in the program, so `pending` stays None and *)
(* is left out with the request id and question it would hand on.            *)
EXTENDS Integers

CONSTANTS Agents,          \* clients of GET /api/photos/wait
          Frames,          \* the JPEG bytes
          NONE,            \* Rust's None
          TIMEOUT,         \* the answer 504 to the client
          MaxGeneration    \* bound on the number of frames published

Image == [frame: Frames, generation: Nat]

ASSUME BrokerAssumption ==
    /\ NONE \notin Image /\ TIMEOUT \notin Image /\ NONE # TIMEOUT
    /\ MaxGeneration \in Nat

VARIABLES
    latest,      \* State.latest
    generation,  \* State.generation
    pc,          \* where each agent's call is
    asked,       \* the call's after_generation argument to wait_for_capture
    notified,    \* the call's Notified future has been woken
    late,        \* the call's deadline has passed
    result,      \* what the last call of the agent returned
    armedAt,     \* history: the generation when the Notified was created
    began,       \* history: the generation when the call began
    named,       \* history: the generation its client named
    due          \* history: the call slept while a frame for it was there

vars == <<latest, generation, pc, asked, notified, late, result, armedAt,
          began, named, due>>

callVars == <<began, named>>

brokerVars == <<latest, generation>>

Calling == {"check", "checked", "armed"}

Init ==
    /\ latest = NONE
    /\ generation = 0
    /\ pc = [a \in Agents |-> "idle"]
    /\ asked = [a \in Agents |-> 0]
    /\ notified = [a \in Agents |-> FALSE]
    /\ late = [a \in Agents |-> FALSE]
    /\ result = [a \in Agents |-> NONE]
    /\ armedAt = [a \in Agents |-> 0]
    /\ began = [a \in Agents |-> 0]
    /\ named = [a \in Agents |-> 0]
    /\ due = [a \in Agents |-> FALSE]

(* Mutated forms (named ..._) of the definitions below stand before them:    *)
(* each is a bug the properties have to notice.                              *)

(* The frame the broker holds answers a call that asked for more than g.     *)
Newer(g) == latest # NONE /\ latest.generation > g

(* A frame of generation g is one the call of a waits for.                   *)
Awaited(a, g) == g > began[a] /\ g > named[a]

-----------------------------------------------------------------------------
(* AnalyzeImage hands a frame over and wakes every waiter there is.          *)
MarkDue ==
    due' = [a \in Agents |->
              due[a] \/ (pc[a] = "armed" /\ Awaited(a, generation + 1))]

Publish_NotifyOne(f) ==
    /\ generation < MaxGeneration
    /\ generation' = generation + 1
    /\ latest' = [frame |-> f, generation |-> generation + 1]
    /\ LET sleeping == {a \in Agents : pc[a] = "armed" /\ ~ notified[a]} IN
       IF sleeping = {} THEN UNCHANGED notified
       ELSE \E a \in sleeping : notified' = [notified EXCEPT ![a] = TRUE]
    /\ MarkDue
    /\ UNCHANGED <<pc, asked, late, result, armedAt, callVars>>

Publish(f) ==
    /\ generation < MaxGeneration
    /\ generation' = generation + 1
    /\ latest' = [frame |-> f, generation |-> generation + 1]
    /\ notified' = [a \in Agents |-> notified[a] \/ pc[a] = "armed"]
    /\ MarkDue
    /\ UNCHANGED <<pc, asked, late, result, armedAt, callVars>>

-----------------------------------------------------------------------------
(* The handler reads the current generation and asks for more than that and  *)
(* than the client's own after_generation, which may be any number: it can   *)
(* stem from before a restart of the server.                                 *)
Call(a, after) ==
    /\ pc[a] = "idle"
    /\ pc' = [pc EXCEPT ![a] = "check"]
    /\ late' = [late EXCEPT ![a] = FALSE]
    /\ began' = [began EXCEPT ![a] = generation]
    /\ named' = [named EXCEPT ![a] = after]
    /\ due' = [due EXCEPT ![a] = FALSE]
    /\ UNCHANGED <<brokerVars, notified, result, armedAt>>

Begin_ClientsWord(a, after) ==
    /\ Call(a, after)
    /\ asked' = [asked EXCEPT ![a] = after]

Begin(a, after) ==
    /\ Call(a, after)
    /\ asked' = [asked EXCEPT ![a] = IF after > generation THEN after ELSE generation]

Return(a, r) ==
    /\ pc' = [pc EXCEPT ![a] = "idle"]
    /\ result' = [result EXCEPT ![a] = r]
    /\ notified' = [notified EXCEPT ![a] = FALSE]
    /\ UNCHANGED <<brokerVars, asked, late, armedAt, callVars, due>>

(* The top of the loop: look at the latest frame under the lock.             *)
CheckHit(a) ==
    /\ pc[a] = "check"
    /\ Newer(asked[a])
    /\ Return(a, latest)

CheckMiss(a) ==
    /\ pc[a] = "check"
    /\ ~ Newer(asked[a])
    /\ pc' = [pc EXCEPT ![a] = "checked"]
    /\ UNCHANGED <<brokerVars, asked, notified, late, result, armedAt, callVars,
                   due>>

(* The lock is free again: nothing left of the timeout gives up, else select!*)
(* creates the Notified future and the timer.                                *)
GiveUp(a) ==
    /\ pc[a] = "checked"
    /\ late[a]
    /\ Return(a, TIMEOUT)

Arm(a) ==
    /\ pc[a] = "checked"
    /\ ~ late[a]
    /\ pc' = [pc EXCEPT ![a] = "armed"]
    /\ notified' = [notified EXCEPT ![a] = FALSE]
    /\ armedAt' = [armedAt EXCEPT ![a] = generation]
    /\ due' = [due EXCEPT ![a] = @ \/ (latest # NONE
                                        /\ Awaited(a, latest.generation))]
    /\ UNCHANGED <<brokerVars, asked, late, result, callVars>>

Wake(a) ==
    /\ pc[a] = "armed"
    /\ notified[a]
    /\ pc' = [pc EXCEPT ![a] = "check"]
    /\ notified' = [notified EXCEPT ![a] = FALSE]
    /\ UNCHANGED <<brokerVars, asked, late, result, armedAt, callVars, due>>

(* The timer branch, with its final check.                                   *)
TimerFires_NoFinalCheck(a) ==
    /\ pc[a] = "armed"
    /\ late[a]
    /\ Return(a, TIMEOUT)

TimerFires_UntilFrame(a) ==
    /\ pc[a] = "armed"
    /\ late[a]
    /\ Newer(asked[a])
    /\ Return(a, latest)

TimerFires(a) ==
    /\ pc[a] = "armed"
    /\ late[a]
    /\ Return(a, IF Newer(asked[a]) THEN latest ELSE TIMEOUT)

(* The call's timeout runs out.                                              *)
Deadline(a) ==
    /\ pc[a] \in Calling
    /\ ~ late[a]
    /\ late' = [late EXCEPT ![a] = TRUE]
    /\ UNCHANGED <<brokerVars, pc, asked, notified, result, armedAt, callVars,
                   due>>

(* The client disconnects: axum drops the handler's future at an await, the  *)
(* lock or the select!.                                                      *)
HangUp(a) ==
    /\ pc[a] \in {"check", "armed"}
    /\ Return(a, NONE)

Step(a) == \/ CheckHit(a) \/ CheckMiss(a) \/ GiveUp(a)
           \/ Arm(a) \/ Wake(a) \/ TimerFires(a)

Next ==
    \/ \E f \in Frames : Publish(f)
    \/ \E a \in Agents :
          \/ \E after \in 0 .. MaxGeneration : Begin(a, after)
          \/ CheckHit(a) \/ CheckMiss(a) \/ GiveUp(a)
          \/ Arm(a) \/ Wake(a) \/ TimerFires(a)
          \/ Deadline(a) \/ HangUp(a)

Spec == Init /\ [][Next]_vars

(* Tokio polls a call that can go on, and time passes.                       *)
FairSpec == Spec /\ \A a \in Agents : WF_vars(Step(a)) /\ WF_vars(Deadline(a))

-----------------------------------------------------------------------------
(* Every variable has the type capture_broker.rs gives it.                   *)
TypeOK ==
    /\ latest \in Image \cup {NONE}
    /\ generation \in Nat
    /\ pc \in [Agents -> Calling \cup {"idle"}]
    /\ asked \in [Agents -> Nat]
    /\ notified \in [Agents -> BOOLEAN]
    /\ late \in [Agents -> BOOLEAN]
    /\ result \in [Agents -> Image \cup {NONE, TIMEOUT}]
    /\ armedAt \in [Agents -> Nat]
    /\ began \in [Agents -> Nat]
    /\ named \in [Agents -> Nat]
    /\ due \in [Agents -> BOOLEAN]

(* A call returns only a frame published after it began, whatever its client *)
(* names, and newer than what its client names, which may be more than the   *)
(* broker has counted: frames come between its critical sections, and it may *)
(* sleep, wake for nothing and look again any number of times.               *)
ReturnsNewerFrame ==
    \A a \in Agents :
        pc[a] = "idle" /\ result[a] \notin {NONE, TIMEOUT}
            => Awaited(a, result[a].generation)

(* A sleeping call that has not been woken has missed no frame since it went *)
(* to sleep: whatever came, came between its check and its Notified.         *)
WakesEverySleeper ==
    \A a \in Agents : pc[a] = "armed" /\ ~ notified[a] => generation = armedAt[a]

(* A call ends in a timeout only if no frame it waits for came, or was       *)
(* there already, at any moment at which it slept: such a frame is returned, *)
(* even when its wakeup was lost and the call went round its loop again.     *)
TimeoutMissesNothing ==
    \A a \in Agents : pc[a] = "idle" /\ result[a] = TIMEOUT => ~ due[a]

(* Every call ends, whether or not a frame is ever published.                *)
EveryCallReturns == \A a \in Agents : pc[a] \in Calling ~> pc[a] = "idle"

(* "Wait until a capture with generation > `after_generation` arrives, or    *)
(* timeout": a call does not sleep on when such a capture has arrived.       *)
NoSleepOverFrame ==
    \A a \in Agents : pc[a] = "armed" /\ ~ notified[a] => ~ Newer(asked[a])
=============================================================================
