------------------------------ MODULE EsimHook ------------------------------
(* The hook in the vendor's LPA process (EsimLpaHooks.kt,                   *)
(* EsimOperationContext.kt, EsimEventEmitter.kt).  Every intent overwrites  *)
(* one shared context, field by field, on the main thread; the callbacks of *)
(* an operation read it, field by field, on the LPA's threads, and put      *)
(* events into a queue that one thread sends.                               *)
EXTENDS EsimEvents

CONSTANTS Overlapping,   \* <<p, o>>: the intent o may arrive while p runs
          MaxStarts,     \* bound on the intents that arrive
          MaxLost        \* bound on the events that cannot be sent

ASSUME EsimBoundsAssumption == Overlapping \subseteq Ops \X Ops /\ MaxStarts \in Nat /\ MaxLost \in Nat

VARIABLES
    context,   \* EsimOperationContext
    starting,  \* the intent in onStartCommand and the writes it has done
    todo,      \* the callbacks still to come of each operation
    half,      \* the event each operation's callback is making
    events,    \* pendingEvents and the socket behind it
    lost       \* how many were not sent

hook == <<context, starting, todo, half, events, lost>>

HookInit ==
    /\ context = [action |-> NONE, req |-> NONE]
    /\ starting = [op |-> NONE, done |-> 0]
    /\ todo = [o \in Ops |-> NONE]
    /\ half = [o \in Ops |-> NONE]
    /\ events = <<>>
    /\ lost = 0

-----------------------------------------------------------------------------
(* What the LPA calls back during an operation, an environment of the hook. *)
Cb(type, key, index, value) == [type |-> type, key |-> key, index |-> index, value |-> value]
Sysprop(key, index, value) == Cb("sysprop_update", key, index, value)
LastIntent(value) == Sysprop("lastintent.result", 0, value)
Mutation(operation, value) == Cb("profile_mutation_result", operation, 0, value)
Progress(value) == Cb("download_progress", NONE, 0, value)
DownloadResult(value) == Cb("download_result", NONE, 0, value)

Reports(o) == {Sysprop("Profile", i, NONE) : i \in 0 .. ProfileCount[o] - 1}
                \cup {Sysprop("NmbrOfProfiles", ProfileCount[o], NONE), LastIntent("getProfiles")}

(* An operation that ends with a result the store does not know.            *)
Failures(o) == IF Action[o] \in {"getProfiles"} \cup Getters
               THEN {<<LastIntent("failed")>>} ELSE {}

(* A key NONE stands for onError, whose operation the hook has to guess.    *)
Successes(o) ==
    LET a == Action[o] IN
    CASE a = "getProfiles" -> {s \in [1 .. ProfileCount[o] + 2 -> Reports(o)] : IsInjective(s)}
      [] a = "getEID" -> {<<LastIntent(a), Sysprop("EID", 0, NONE)>>}
      [] a \in Getters \ {"getEID"} ->
            {<<LastIntent(a), Sysprop(ValueKey[a], 0, NONE)>>,
             <<LastIntent("No Active profile")>>}
      [] a \in Mutations ->
            {<<Mutation(OperationOf(a), v)>> : v \in {"success", "error"}}
              \cup {<<Mutation(NONE, "error")>>}
              \cup IF a = "deleteProfile" THEN {<<Mutation("delete", "protected")>>} ELSE {}
      [] OTHER ->
            {<<DownloadResult(v), DownloadResult("error")>> : v \in {"error", "disallowed_profile"}}
              \cup {<<Progress("finished"), Mutation("enable", v), Progress(NONE)>> :
                       v \in {"success", "error"}}
              \cup {<<Progress("finished"), Mutation(NONE, "error"), DownloadResult("error")>>}

-----------------------------------------------------------------------------
(* The operation of o was set off and still has something to report.        *)
Running(o) == todo[o] # NONE /\ ~ (todo[o] = <<>> /\ half[o] = NONE)

StartCommand(o) ==
    /\ starting.op = NONE /\ todo[o] = NONE
    /\ Cardinality({p \in Ops : todo[p] # NONE}) < MaxStarts
    /\ \A p \in Ops : Running(p) => <<p, o>> \in Overlapping
    /\ starting' = [op |-> o, done |-> 0]
    /\ UNCHANGED <<context, todo, half, events, lost>>

(* EsimOperationContext.clear and the assignments after it.                 *)
Writes(o) == <<[action |-> NONE, req |-> context.req],
               [action |-> NONE, req |-> NONE],
               [action |-> Action[o], req |-> NONE],
               [action |-> Action[o], req |-> Id(o)]>>

WriteContext ==
    /\ starting.op # NONE /\ starting.done < 4
    /\ context' = Writes(starting.op)[starting.done + 1]
    /\ starting' = [starting EXCEPT !.done = @ + 1]
    /\ UNCHANGED <<todo, half, events, lost>>

Started(o) == MakeEvent(Cb("action_started", NONE, 0, NONE), context.action, context.req, {o})
Imei(o) == MakeEvent(Sysprop("IMEI", 0, NONE), context.action, context.req, {o})

(* emitActionStarted.                                                       *)
EmitStarted ==
    \E o \in Ops :
    /\ starting.op = o /\ starting.done = 4
    /\ events' = Append(events, Started(o))
    /\ starting' = [op |-> o, done |-> 5]
    /\ UNCHANGED <<context, todo, half, lost>>

(* For a getEID emitImeiIdentifier, if the number can be read; and the      *)
(* vendor's onStartCommand, which sets the operation off.                   *)
SetOff ==
    \E o \in Ops :
    /\ starting.op = o /\ starting.done = 5
    /\ \/ UNCHANGED events
       \/ Action[o] = "getEID" /\ events' = Append(events, Imei(o))
    /\ \E s \in Successes(o) \cup Failures(o) : todo' = [todo EXCEPT ![o] = s]
    /\ starting' = [op |-> NONE, done |-> 0]
    /\ UNCHANGED <<context, half, lost>>

-----------------------------------------------------------------------------
(* A callback reads the action (and onError guesses its operation from it), *)
BeginEmit(o) ==
    /\ todo[o] \notin {NONE, <<>>} /\ half[o] = NONE
    /\ LET cb == Head(todo[o])
           key == IF cb.type = "profile_mutation_result" /\ cb.key = NONE
                  THEN OperationOf(context.action) ELSE cb.key
       IN half' = [half EXCEPT ![o] =
                     [read |-> FALSE, event |-> MakeEvent([cb EXCEPT !.key = key],
                                                          context.action, NONE, {o})]]
    /\ todo' = [todo EXCEPT ![o] = Tail(@)]
    /\ UNCHANGED <<context, starting, events, lost>>

(* then the request id,                                                     *)
ReadRequestId(o) ==
    /\ half[o] # NONE /\ ~ half[o].read
    /\ half' = [half EXCEPT ![o] = [read |-> TRUE, event |-> [@.event EXCEPT !.req = context.req]]]
    /\ UNCHANGED <<context, starting, todo, events, lost>>

(* and queues the event.  After the progress report of onFinished the hook  *)
(* looks at the action again, to report the result of a mere download.      *)
Offer(o) ==
    /\ half[o] # NONE /\ half[o].read
    /\ events' = Append(events, half[o].event)
    /\ half' = [half EXCEPT ![o] = NONE]
    /\ todo' = IF half[o].event.value = "finished" /\ context.action # Verify
               THEN [todo EXCEPT ![o] = <<DownloadResult("success")>> \o @]
               ELSE todo
    /\ UNCHANGED <<context, starting, lost>>

HookNext == \/ \E o \in Ops : StartCommand(o) \/ BeginEmit(o) \/ ReadRequestId(o) \/ Offer(o)
            \/ WriteContext \/ EmitStarted \/ SetOff

-----------------------------------------------------------------------------
HookTypeOK ==
    /\ context \in [action: Actions \cup {NONE}, req: Named \cup {NONE}]
    /\ starting \in [op: Ops \cup {NONE}, done: 0 .. 5]
    /\ \A o \in Ops : todo[o] # NONE => todo[o] \in Seq(Callback)
    /\ \A o \in Ops : half[o] # NONE => half[o].event \in Event
    /\ events \in Seq(Event)
    /\ lost \in 0 .. MaxLost
=============================================================================
