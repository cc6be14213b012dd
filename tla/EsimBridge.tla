----------------------------- MODULE EsimBridge -----------------------------
(* The Rust side of the eSIM bridge, server-rs/src/esim.rs: HTTP handlers   *)
(* submit requests, the bridge task writes them to the device's TCP socket, *)
(* and the lines it reads update the request records and are broadcast to   *)
(* the handlers that wait.                                                  *)
(*                                                                          *)
(* A request is one call of an HTTP handler.  Its kind says which path of   *)
(* esim.rs it takes: "query" is submit_request_and_wait, "mutation" and     *)
(* "download" are submit_request (they differ in what is final for them),   *)
(* "simple" is send_simple_request_and_wait or get_cellular_status.         *)
(*                                                                          *)
(* The device answers as server/.../EsimBridgeServer.kt does: it accepts or *)
(* refuses a request on the connection that carried it, or fails to         *)
(* dispatch it and reports an error that names no request; results may come *)
(* before the acceptance, and on a later connection.  Bytes a closed        *)
(* connection still held are lost.                                          *)
(*                                                                          *)
(* acceptance_waiters carries a receiver between two calls of one task and  *)
(* is merged into the task; the events a record lists are left out.         *)
EXTENDS Integers, Sequences, FiniteSets

CONSTANTS Requests,
          Kind,         \* [Requests -> Kinds]
          Replies,      \* what the device may send about a request
          NONE,         \* Rust's None
          RequestTTL,   \* REQUEST_TTL_MS
          MaxStored,    \* MAX_STORED_REQUESTS
          Capacity,     \* of the broadcast channel
          MaxTime,      \* bound on the clock
          MaxReplies,   \* bound on the replies the device sends
          MaxCuts,      \* bound on the connections that end
          MaxFailures,  \* bound on the dispatches that fail
          MaxHangups    \* bound on the HTTP clients that go away

Kinds == {"query", "mutation", "download", "simple"}

(* The fields of a line that the code looks at.  "refused" stands for the   *)
(* results "protected" and "disallowed_profile", and "answer" and           *)
(* "answer_error" for the two types a simple request waits for.             *)
MessageTypes == {"request_accepted", "bridge_error", "progress",
                 "profiles_result", "active_profile_result",
                 "profile_mutation_result", "download_result",
                 "answer", "answer_error"}
Message == [req: Requests \cup {NONE}, type: MessageTypes,
            op: {"enable", "unknown", "other"}, result: {"ok", "error", "refused"}]

ASSUME BridgeAssumption ==
    /\ Kind \in [Requests -> Kinds]
    /\ NONE \notin Requests /\ NONE \notin Message
    /\ Replies \subseteq Message
    /\ \A m \in Replies : m.type \notin {"request_accepted", "bridge_error"}
    /\ {RequestTTL, MaxTime, MaxReplies, MaxCuts, MaxFailures, MaxHangups} \subseteq Nat
    /\ MaxStored \in Nat \ {0} /\ Capacity \in Nat \ {0}
    /\ IsFiniteSet(Requests)

Statuses == {"pending", "waiting_accept", "accepted", "running", "completed", "error"}
Record == [status: Statuses, accepted: BOOLEAN,
           final: Message \cup {NONE}, updated: Nat]

ASSUME NoneIsNoRecord == NONE \notin Record

VARIABLES
    pc,         \* where each handler is
    outcome,    \* what it returned
    record,     \* BridgeState.requests
    acc,        \* the oneshot channel of each request's acceptance
    queue,      \* command_tx/command_rx
    connected,  \* BridgeState.connected: run_bridge is in handle_connection
    pending,    \* pending_accept of the connection
    handling,   \* the message between its record update and its broadcast
    rx,         \* each waiting handler's broadcast receiver: unread messages
    lagged,     \* the receiver has been overrun
    device,     \* what the device has made of each request
    now, cuts, failures, hangups, replies

vars == <<pc, outcome, record, acc, queue, connected, pending, handling, rx,
          lagged, device, now, cuts, failures, hangups, replies>>

taskVars   == <<pc, outcome>>
socketVars == <<queue, connected, pending, handling, device>>
boundVars  == <<now, cuts, failures, hangups, replies>>

Ended == {"done", "gone"}
Listening == {"subscribed", "receiving"}

-----------------------------------------------------------------------------
Init ==
    /\ pc = [r \in Requests |-> "idle"]
    /\ outcome = [r \in Requests |-> "none"]
    /\ record = [r \in Requests |-> NONE]
    /\ acc = [r \in Requests |-> "none"]
    /\ queue = <<>>
    /\ connected = FALSE
    /\ pending = {}
    /\ handling = NONE
    /\ rx = [r \in Requests |-> <<>>]
    /\ lagged = [r \in Requests |-> FALSE]
    /\ device = [r \in Requests |-> "none"]
    /\ now = 0 /\ cuts = 0 /\ failures = 0 /\ hangups = 0 /\ replies = 0

Goto(r, label) == pc' = [pc EXCEPT ![r] = label] /\ UNCHANGED outcome
Finish(r, o) == /\ pc' = [pc EXCEPT ![r] = "done"]
                /\ outcome' = [outcome EXCEPT ![r] = o]

-----------------------------------------------------------------------------
(* What the code asks of a message.                                         *)

(* payload_result_is_error.                                                 *)
Bad(m) == m.result \in {"error", "refused"}

(* is_final_event_for_action and download_verify_enable_event_is_final.     *)
IsFinal(kind, m) ==
    IF kind = "download"
    THEN \/ m.type = "download_result" /\ Bad(m)
         \/ m.type = "profile_mutation_result"
              /\ (m.op = "enable" \/ (m.op = "unknown" /\ m.result = "error"))
    ELSE m.type \in {"profiles_result", "active_profile_result",
                     "profile_mutation_result", "download_result"}

(* bridge_error_for_request, explicit_error_event_for_request and the       *)
(* terminal types; a simple request looks at the type only.                 *)
IsError(r, m) ==
    IF Kind[r] = "simple" THEN m.type = "answer_error"
    ELSE m.type = "bridge_error" \/ Bad(m)
IsTerminal(r, m) == m.type = IF Kind[r] = "simple" THEN "answer" ELSE "profiles_result"
Ends(r, m) == IsError(r, m) \/ IsTerminal(r, m)

-----------------------------------------------------------------------------
(* Mutated forms (named ..._) of the definitions below stand before them:   *)
(* each is a bug the properties have to notice.                             *)

(* The handlers.  enqueue_request: the record, the command, and the status  *)
(* under a second lock, by when the bridge may have handled the answer.     *)
Insert(r) ==
    /\ pc[r] = "idle" /\ Kind[r] # "simple"
    /\ record' = [record EXCEPT ![r] = [status |-> "pending", accepted |-> FALSE,
                                        final |-> NONE, updated |-> now]]
    /\ Goto(r, "inserted")
    /\ UNCHANGED <<acc, socketVars, rx, lagged, boundVars>>

Enqueue(r) ==
    /\ pc[r] = "inserted"
    /\ queue' = Append(queue, r)
    /\ acc' = [acc EXCEPT ![r] = "open"]
    /\ Goto(r, "enqueued")
    /\ UNCHANGED <<record, connected, pending, handling, device, rx, lagged,
                   boundVars>>

MarkWaiting(r) ==
    /\ pc[r] = "enqueued"
    /\ IF record[r] = NONE
       THEN Finish(r, "internal") /\ UNCHANGED record
       ELSE /\ record' = [record EXCEPT ![r].status = "waiting_accept"]
            /\ Goto(r, "accepting")
    /\ UNCHANGED <<acc, socketVars, rx, lagged, boundVars>>

(* wait_for_acceptance has no timeout of its own.                           *)
Accepted(r) ==
    /\ pc[r] = "accepting" /\ acc[r] = "ok"
    /\ IF Kind[r] = "query" THEN Goto(r, "accepted") ELSE Finish(r, "accepted")
    /\ UNCHANGED <<record, acc, socketVars, rx, lagged, boundVars>>

Refused(r) ==
    /\ pc[r] = "accepting" /\ acc[r] \in {"err", "closed"}
    /\ Finish(r, "internal")
    /\ UNCHANGED <<record, acc, socketVars, rx, lagged, boundVars>>

(* wait_for_terminal_event: subscribe first, then look at the record.       *)
Subscribe(r) ==
    /\ pc[r] = "accepted"
    /\ Goto(r, "subscribed")
    /\ rx' = [rx EXCEPT ![r] = <<>>]
    /\ lagged' = [lagged EXCEPT ![r] = FALSE]
    /\ UNCHANGED <<record, acc, socketVars, boundVars>>

CheckFinal_ThenSubscribes(r) ==
    /\ pc[r] = "subscribed"
    /\ IF record[r] # NONE /\ record[r].final # NONE /\ Ends(r, record[r].final)
       THEN Finish(r, IF IsError(r, record[r].final) THEN "bridge_error" ELSE "event")
       ELSE Goto(r, "sent")
    /\ rx' = [rx EXCEPT ![r] = <<>>]
    /\ UNCHANGED <<record, acc, socketVars, lagged, boundVars>>

CheckFinal(r) ==
    /\ pc[r] = "subscribed"
    /\ IF record[r] # NONE /\ record[r].final # NONE /\ Ends(r, record[r].final)
       THEN Finish(r, IF IsError(r, record[r].final) THEN "bridge_error" ELSE "event")
       ELSE Goto(r, "receiving")
    /\ UNCHANGED <<record, acc, socketVars, rx, lagged, boundVars>>

(* A simple request is sent before its handler subscribes.                  *)
SendSimple(r) ==
    /\ pc[r] = "idle" /\ Kind[r] = "simple"
    /\ queue' = Append(queue, r)
    /\ Goto(r, "sent")
    /\ UNCHANGED <<record, acc, connected, pending, handling, device, rx,
                   lagged, boundVars>>

SubscribeSimple(r) ==
    /\ pc[r] = "sent"
    /\ Goto(r, "receiving")
    /\ UNCHANGED <<record, acc, socketVars, rx, lagged, boundVars>>

(* The receive loop, and the timeout around it, which is looked at only when*)
(* there is nothing to receive.                                             *)
Receive(r) ==
    /\ pc[r] = "receiving" /\ ~ lagged[r] /\ rx[r] # <<>>
    /\ LET m == Head(rx[r]) IN
       IF m.req = r /\ Ends(r, m)
       THEN Finish(r, IF IsError(r, m) THEN "bridge_error" ELSE "event")
       ELSE UNCHANGED taskVars
    /\ rx' = [rx EXCEPT ![r] = Tail(@)]
    /\ UNCHANGED <<record, acc, socketVars, lagged, boundVars>>

Lagged(r) ==
    /\ pc[r] = "receiving" /\ lagged[r]
    /\ Finish(r, "internal")
    /\ UNCHANGED <<record, acc, socketVars, rx, lagged, boundVars>>

TimeOut(r) ==
    /\ pc[r] = "receiving" /\ ~ lagged[r] /\ rx[r] = <<>>
    /\ Finish(r, "timeout")
    /\ UNCHANGED <<record, acc, socketVars, rx, lagged, boundVars>>

(* The HTTP client goes away and the handler's future is dropped at an      *)
(* await: whatever it has enqueued or recorded stays.                       *)
Awaiting == {"enqueued", "accepting", "subscribed", "receiving"}
HangUp(r) ==
    /\ hangups < MaxHangups
    /\ pc[r] \in Awaiting
    /\ pc' = [pc EXCEPT ![r] = "gone"]
    /\ hangups' = hangups + 1
    /\ UNCHANGED <<outcome, record, acc, socketVars, rx, lagged, now, cuts,
                   failures, replies>>

-----------------------------------------------------------------------------
(* The bridge task.                                                         *)
Connect ==
    /\ ~ connected
    /\ connected' = TRUE
    /\ pending' = {}
    /\ UNCHANGED <<taskVars, record, acc, queue, handling, device, rx, lagged,
                   boundVars>>

HasAcceptance(r) == Kind[r] # "simple"

(* Ending handle_connection drops pending_accept, and with it every sender  *)
(* of the connection; what the device would have answered on it is lost.    *)
EndConnection(waiting, taken) ==
    /\ connected' = FALSE
    /\ pending' = {}
    /\ acc' = [r \in Requests |-> IF r \in waiting THEN "closed" ELSE acc[r]]
    /\ device' = [r \in Requests |->
                    IF device[r] \in {"got", "dispatched"} \/ r \in taken
                    THEN "orphaned" ELSE device[r]]
    /\ cuts' = cuts + 1

WriteCommand(r) ==
    /\ connected /\ handling = NONE
    /\ queue # <<>> /\ r = Head(queue)
    /\ queue' = Tail(queue)
    /\ pending' = IF HasAcceptance(r) THEN pending \cup {r} ELSE pending
    /\ device' = [device EXCEPT ![r] = "got"]
    /\ UNCHANGED <<taskVars, record, acc, connected, handling, rx, lagged,
                   boundVars>>

(* The command was taken from the queue and the socket fails: it is gone,   *)
(* whether or not the device has read it.                                   *)
WriteFails(r) ==
    /\ cuts < MaxCuts
    /\ connected /\ handling = NONE
    /\ queue # <<>> /\ r = Head(queue)
    /\ queue' = Tail(queue)
    /\ EndConnection(pending \cup {x \in {r} : HasAcceptance(x)}, {r})
    /\ UNCHANGED <<taskVars, record, handling, rx, lagged, now, failures,
                   hangups, replies>>

Disconnect_KeepsPending ==
    /\ cuts < MaxCuts
    /\ connected /\ handling = NONE
    /\ EndConnection({}, {})
    /\ UNCHANGED <<taskVars, record, queue, handling, rx, lagged, now,
                   failures, hangups, replies>>

(* The socket is closed, or a line is not JSON.                             *)
Disconnect ==
    /\ cuts < MaxCuts
    /\ connected /\ handling = NONE
    /\ EndConnection(pending, {})
    /\ UNCHANGED <<taskVars, record, queue, handling, rx, lagged, now,
                   failures, hangups, replies>>

(* prune_requests: the records younger than the TTL, or the MaxStored most  *)
(* recently updated ones of them; the sort leaves ties to the hash map.     *)
Stored == {r \in Requests : record[r] # NONE}
Pruned(keep) ==
    LET fresh == {r \in Stored : record[r].updated + RequestTTL >= now} IN
    /\ keep \subseteq fresh
    /\ IF Cardinality(fresh) <= MaxStored THEN keep = fresh
       ELSE /\ Cardinality(keep) = MaxStored
            /\ \A k \in keep, d \in fresh \ keep :
                  record[k].updated >= record[d].updated

Updated_AnyFinal(r, m) ==
    LET old == [record[r] EXCEPT !.updated = now] IN
    CASE m.type = "request_accepted" ->
            [old EXCEPT !.accepted = TRUE, !.status = "accepted"]
      [] m.type = "bridge_error" ->
            [old EXCEPT !.status = "error", !.final = m]
      [] OTHER ->
            IF IsFinal(Kind[r], m)
            THEN [old EXCEPT !.final = m,
                             !.status = IF Bad(m) THEN "error" ELSE "completed"]
            ELSE old

Updated_StatusOnly(r, m) ==
    LET old == [record[r] EXCEPT !.updated = now] IN
    CASE m.type = "request_accepted" -> [old EXCEPT !.status = "accepted"]
      [] m.type = "bridge_error" -> [old EXCEPT !.status = "error"]
      [] OTHER -> [old EXCEPT !.status = IF Bad(m) THEN "error" ELSE "completed"]

(* What a message does to the record of its request.                        *)
Updated(r, m) ==
    LET old == [record[r] EXCEPT !.updated = now] IN
    CASE m.type = "request_accepted" ->
            [old EXCEPT !.accepted = TRUE, !.status = "accepted"]
      [] m.type = "bridge_error" ->
            [old EXCEPT !.status = "error", !.final = m]
      [] OTHER ->
            IF old.final = NONE /\ IsFinal(Kind[r], m)
            THEN [old EXCEPT !.final = m,
                             !.status = IF Bad(m) THEN "error" ELSE "completed"]
            ELSE [old EXCEPT !.status = IF @ = "pending" THEN "running" ELSE @]

(* Who is told that the device accepted or refused: the sender is taken out *)
(* of pending_accept; a refusal is lost on a request whose record is pruned.*)
Resolved(m, keep) ==
    {r \in pending \cap {m.req} :
        \/ m.type = "request_accepted"
        \/ m.type = "bridge_error" /\ r \in keep}

(* handle_incoming_message up to the unlock.                                *)
Handle(m) ==
    /\ connected /\ handling = NONE
    /\ IF m.req = NONE THEN UNCHANGED <<record, pending, acc>>
       ELSE \E keep \in SUBSET Stored :
               /\ Pruned(keep)
               /\ record' = [r \in Requests |->
                               IF r \notin keep THEN NONE
                               ELSE IF r = m.req THEN Updated(r, m) ELSE record[r]]
               /\ pending' = pending \ Resolved(m, keep)
               /\ acc' = [r \in Requests |->
                            IF r \notin Resolved(m, keep) THEN acc[r]
                            ELSE IF m.type = "bridge_error" THEN "err" ELSE "ok"]
    /\ handling' = m
    /\ UNCHANGED <<taskVars, queue, connected, rx, lagged>>

(* events_tx.send: a receiver that is Capacity behind loses the oldest.     *)
Broadcast ==
    /\ handling # NONE
    /\ handling' = NONE
    /\ rx' = [r \in Requests |->
                IF pc[r] \notin Listening THEN rx[r]
                ELSE IF Len(rx[r]) < Capacity THEN Append(rx[r], handling)
                ELSE Append(Tail(rx[r]), handling)]
    /\ lagged' = [r \in Requests |->
                    lagged[r] \/ (pc[r] \in Listening /\ Len(rx[r]) = Capacity)]
    /\ UNCHANGED <<taskVars, record, acc, queue, connected, pending, device,
                   boundVars>>

-----------------------------------------------------------------------------
(* The device, and the bridge task reading the line it sends.               *)
Line(r, type) == [req |-> r, type |-> type, op |-> "other", result |-> "ok"]

DeviceAccepts(r) ==
    /\ Kind[r] # "simple" /\ device[r] \in {"got", "dispatched"}
    /\ Handle(Line(r, "request_accepted"))
    /\ device' = [device EXCEPT ![r] = "accepted"]
    /\ UNCHANGED boundVars

DeviceRefuses(r) ==
    /\ Kind[r] # "simple" /\ device[r] = "got"
    /\ Handle(Line(r, "bridge_error"))
    /\ device' = [device EXCEPT ![r] = "refused"]
    /\ UNCHANGED boundVars

(* startService throws: the error names no request.                         *)
DispatchFails(r) ==
    /\ failures < MaxFailures
    /\ Kind[r] # "simple" /\ device[r] = "got"
    /\ Handle(Line(NONE, "bridge_error"))
    /\ device' = [device EXCEPT ![r] = "failed"]
    /\ failures' = failures + 1
    /\ UNCHANGED <<now, cuts, hangups, replies>>

DeviceReplies(r, m) ==
    /\ replies < MaxReplies
    /\ m.req = r /\ Kind[r] # "simple"
    /\ device[r] \in {"got", "dispatched", "accepted", "orphaned"}
    /\ Handle(m)
    /\ device' = [device EXCEPT ![r] = IF @ = "got" THEN "dispatched" ELSE @]
    /\ replies' = replies + 1
    /\ UNCHANGED <<now, cuts, failures, hangups>>

DeviceAnswers(r, m) ==
    /\ m.req = r /\ Kind[r] = "simple" /\ device[r] = "got"
    /\ Handle(m)
    /\ device' = [device EXCEPT ![r] = "answered"]
    /\ UNCHANGED boundVars

Tick ==
    /\ now < MaxTime
    /\ now' = now + 1
    /\ UNCHANGED <<taskVars, record, acc, socketVars, rx, lagged, cuts,
                   failures, hangups, replies>>

-----------------------------------------------------------------------------
HandlerStep(r) ==
    \/ Enqueue(r) \/ MarkWaiting(r) \/ Accepted(r) \/ Refused(r)
    \/ Subscribe(r) \/ CheckFinal(r) \/ SubscribeSimple(r)
    \/ Receive(r) \/ Lagged(r) \/ TimeOut(r)

DeviceDecides(r) ==
    \/ DeviceAccepts(r) \/ DeviceRefuses(r)
    \/ \E m \in Replies : DeviceAnswers(r, m)

Next ==
    \/ \E r \in Requests :
          \/ Insert(r) \/ Enqueue(r) \/ MarkWaiting(r)
          \/ Accepted(r) \/ Refused(r) \/ Subscribe(r) \/ CheckFinal(r)
          \/ SendSimple(r) \/ SubscribeSimple(r)
          \/ Receive(r) \/ Lagged(r) \/ TimeOut(r) \/ HangUp(r)
          \/ WriteCommand(r) \/ WriteFails(r)
          \/ DeviceAccepts(r) \/ DeviceRefuses(r) \/ DispatchFails(r)
          \/ \E m \in Replies : DeviceReplies(r, m) \/ DeviceAnswers(r, m)
    \/ Connect \/ Disconnect \/ Broadcast \/ Tick

Spec == Init /\ [][Next]_vars

(* Tokio runs handlers and bridge task, the bridge reconnects, and a device *)
(* that has read a request answers it.                                      *)
FairSpec ==
    /\ Spec
    /\ \A r \in Requests : /\ WF_vars(HandlerStep(r))
                           /\ WF_vars(WriteCommand(r))
                           /\ WF_vars(DeviceDecides(r))
    /\ WF_vars(Connect)
    /\ WF_vars(Broadcast)

-----------------------------------------------------------------------------
PcValues == {"idle", "inserted", "enqueued", "accepting", "accepted", "sent"}
               \cup Listening \cup Ended

(* Every variable has the type esim.rs gives it, and a receiver that is not *)
(* read holds no more than the capacity of the channel.                     *)
TypeOK ==
    /\ pc \in [Requests -> PcValues]
    /\ outcome \in [Requests -> {"none", "accepted", "event", "bridge_error",
                                 "timeout", "internal"}]
    /\ record \in [Requests -> Record \cup {NONE}]
    /\ acc \in [Requests -> {"none", "open", "ok", "err", "closed"}]
    /\ queue \in Seq(Requests)
    /\ connected \in BOOLEAN
    /\ pending \subseteq Requests
    /\ handling \in Message \cup {NONE}
    /\ rx \in [Requests -> Seq(Message)] /\ \A r \in Requests : Len(rx[r]) <= Capacity
    /\ lagged \in [Requests -> BOOLEAN]
    /\ device \in [Requests -> {"none", "got", "dispatched", "accepted", "refused",
                                "failed", "orphaned", "answered"}]
    /\ {now, cuts, failures, hangups, replies} \subseteq Nat

Elements(s) == {s[i] : i \in 1 .. Len(s)}

(* An acceptance nobody has resolved is still held by the command queue or  *)
(* by the current connection, so a handler that waits for it is answered    *)
(* when the device answers or when the connection ends.                     *)
NoOrphanAcceptance ==
    \A r \in Requests :
        acc[r] = "open" => r \in Elements(queue) \/ r \in pending

(* A handler in its receive loop has not missed the final event of its      *)
(* request: the event is unread in its receiver, about to be broadcast to   *)
(* it, or lost to an overrun it will be told of.                            *)
NoFinalMissed ==
    \A r \in Requests :
        pc[r] = "receiving" /\ record[r] # NONE =>
            LET f == record[r].final IN
            f # NONE /\ Ends(r, f)
                => f \in Elements(rx[r]) \/ f = handling \/ lagged[r]

(* A getter that times out has no usable final event on record, unless the  *)
(* bridge task has just written it and not broadcast it yet.                *)
TimeoutMeansUnanswered ==
    [][\A r \in Requests :
          Kind[r] = "query" /\ outcome[r] = "none" /\ outcome'[r] = "timeout"
              => \/ record[r] = NONE \/ record[r].final = NONE
                 \/ ~ Ends(r, record[r].final)
                 \/ record[r].final = handling]_vars

(* The first final event of a request stays its final event.                *)
FinalEventStable ==
    [][\A r \in Requests :
          record[r] # NONE /\ record'[r] # NONE /\ record[r].final # NONE
              => record'[r].final = record[r].final]_vars

(* A record that says how its request ended holds the event that ended it,  *)
(* and agrees with it.  (The converse does not hold: an acceptance handled  *)
(* after the result, or a handler slow to write "waiting_accept", puts an   *)
(* ended request back.)                                                     *)
StatusHasFinal ==
    \A r \in Requests :
        record[r] # NONE /\ record[r].status \in {"completed", "error"} =>
            /\ record[r].final # NONE
            /\ record[r].status = "completed" => ~ Bad(record[r].final)

(* Every handler answers its HTTP client, if the device answers every       *)
(* request it reads, although there is no timeout around the wait for       *)
(* acceptance.  The exception: a request that the device refuses after its  *)
(* record was pruned stays unaccepted until the connection ends.            *)
EveryHandlerEnds ==
    \A r \in Requests :
        pc[r] # "idle" ~> \/ pc[r] \in Ended
                          \/ pc[r] = "accepting" /\ record[r] = NONE
=============================================================================
