---------------------------- MODULE EsimPipeline ----------------------------
(* From the LPA's callbacks to what the bridge sends the Rust server about  *)
(* a request: the hook (EsimHook), its sender thread and the socket, and    *)
(* the event store (EsimEventStore).                                        *)
EXTENDS EsimHook, EsimEventStore

VARIABLES begun,       \* the operations in the order in which they began
          overlapped,  \* has one begun while another was running?
          failed       \* those that end in a way the store does not know

history == <<begun, overlapped, failed>>
vars == <<hook, store, history>>

Init == HookInit /\ StoreInit /\ begun = <<>> /\ overlapped = FALSE /\ failed = {}

(* send and EsimSocketServer's loop: one event is sent and handled at a     *)
(* time.                                                                    *)
Deliver ==
    /\ events # <<>>
    /\ events' = Tail(events)
    /\ \E e \in {Head(events)} : OnEvent(e)
    /\ UNCHANGED <<context, starting, todo, half, lost, history>>

(* The socket server does not run: the event is dropped.                    *)
Lose ==
    /\ events # <<>> /\ lost < MaxLost
    /\ events' = Tail(events)
    /\ lost' = lost + 1
    /\ UNCHANGED <<context, starting, todo, half, store, history>>

HookStep ==
    /\ HookNext
    /\ IF starting.op = NONE /\ starting'.op # NONE
       THEN /\ begun' = Append(begun, starting'.op)
            /\ overlapped' = (overlapped \/ \E p \in Ops : Running(p))
       ELSE UNCHANGED <<begun, overlapped>>
    /\ failed' = failed \cup {o \in Ops : todo[o] = NONE /\ todo'[o] \in Failures(o)}
    /\ UNCHANGED store

Next == HookStep \/ Deliver \/ Lose

Spec == Init /\ [][Next]_vars

(* The threads of the LPA, of the hook and of the socket server run; an     *)
(* event that can be sent is.                                               *)
Fairness == WF_vars(HookStep) /\ WF_vars(Deliver)
FairSpec == Spec /\ Fairness

-----------------------------------------------------------------------------
TypeOK == HookTypeOK /\ StoreTypeOK /\ begun \in Seq(Ops) /\ overlapped \in BOOLEAN
          /\ failed \subseteq Ops

Elements(s) == {s[i] : i \in 1 .. Len(s)}

(* is_final_event_for_action in the Rust server, which ends a request.      *)
IsFinal(o, e) ==
    IF Action[o] = Verify
    THEN \/ e.type = "download_result" /\ e.value # "success"
         \/ /\ e.type = "profile_mutation_result"
            /\ e.key = "enable" \/ (e.key = "unknown" /\ e.value = "error")
    ELSE e.type \in ResultTypes \cup {"profile_mutation_result", "download_result"}

(* A result the store has put together carries the id of a request for just *)
(* that: however intents overlap and whatever is lost, the store learns     *)
(* action and id from one event, which the main thread alone writes.        *)
ResultFitsRequest ==
    \A o \in Ops : \A e \in Elements(got[o]) :
        e.type \in ResultTypes => e.type = ResultType(Action[o]) /\ e.action = Action[o]

Earlier(p, o) == \E i, j \in 1 .. Len(begun) : i < j /\ begun[i] = p /\ begun[j] = o

(* As long as operations do not overlap, whatever is lost: a request never  *)
(* hears of an operation that was over before it began; and if nothing is   *)
(* lost, it hears of its own operation only.                                *)
OnlyOwnEvents ==
    ~ overlapped =>
        \A o \in Ops : \A e \in Elements(got[o]) :
            /\ \A p \in e.of : ~ Earlier(p, o)
            /\ lost = 0 => e.of = {o}

(* As long as operations do not overlap, a download the store knows of      *)
(* hears nothing after its final event, so it has one outcome although the  *)
(* LPA reports several.                                                     *)
DownloadEndsOnce ==
    ~ overlapped =>
        \A o \in Ops : LET g == got[o] IN
            Action[o] = Verify /\ g # <<>> /\ g[1].type = "action_started" =>
                \A i \in 1 .. Len(g) - 1 : ~ IsFinal(o, g[i])

(* Time and again there is a moment at which every request whose operation  *)
(* was set off has heard how it ended (and got never forgets), unless       *)
(* operations overlap, an event is lost, or the operation ends in a way the *)
(* store does not know.                                                     *)
Reported(o) == \/ \E e \in Elements(got[o]) : IsFinal(o, e)
               \/ overlapped \/ lost > 0 \/ o \in failed

EveryOperationReported == []<>(\A o \in Named : todo[o] # NONE => Reported(o))
=============================================================================
