-------------------------- MODULE EsimBridgeProofs --------------------------
(* Theorems about EsimBridge, for any set of requests, replies and bounds.  *)
EXTENDS EsimBridge, TLAPS

(* A simple request leaves no record and has no acceptance to wait for; the *)
(* others do not skip it.                                                   *)
Paths ==
    \A r \in Requests :
        /\ Kind[r] = "simple" => record[r] = NONE /\ acc[r] # "open"
        /\ pc[r] \in {"inserted", "enqueued", "accepting"} => Kind[r] # "simple"
        /\ pc[r] = "sent" => Kind[r] = "simple"

(* The senders of pending_accept live as long as their connection.          *)
PendingIsConnected == ~ connected => pending = {}

(* A record's final event is an event of its request.                       *)
OwnFinal ==
    \A r \in Requests :
        record[r] # NONE /\ record[r].final # NONE => record[r].final.req = r

(* A command is queued once and written once, so a device that has only     *)
(* just got a request has not reported its end.                             *)
WrittenOnce ==
    /\ \A i, j \in 1 .. Len(queue) : queue[i] = queue[j] => i = j
    /\ \A r \in Requests :
          /\ pc[r] \in {"idle", "inserted"} \/ r \in Elements(queue)
                => device[r] = "none"
          /\ pc[r] \in {"idle", "inserted"} => r \notin Elements(queue)
          /\ device[r] \in {"none", "got"} /\ record[r] # NONE
                => record[r].final = NONE

IInv == /\ TypeOK /\ Paths /\ PendingIsConnected /\ OwnFinal
        /\ NoOrphanAcceptance /\ NoFinalMissed /\ StatusHasFinal /\ WrittenOnce

-----------------------------------------------------------------------------
LEMMA NoneIsNoValue == NONE \notin Requests /\ NONE \notin Message /\ NONE \notin Record
BY BridgeAssumption, NoneIsNoRecord

(* What is left of a queue when its head is taken.                          *)
LEMMA TailElements ==
    ASSUME NEW S, NEW s \in Seq(S), s # <<>>
    PROVE  /\ Tail(s) \in Seq(S) /\ Head(s) \in S /\ Len(Tail(s)) = Len(s) - 1
           /\ Elements(Tail(s)) \subseteq Elements(s)
           /\ Elements(s) \subseteq Elements(Tail(s)) \cup {Head(s)}
           /\ \A i \in 1 .. Len(Tail(s)) : Tail(s)[i] = s[i + 1]
<1>1. /\ Tail(s) \in Seq(S) /\ Head(s) \in S /\ Len(Tail(s)) = Len(s) - 1
      /\ \A i \in 1 .. Len(Tail(s)) : Tail(s)[i] = s[i + 1]
      /\ Len(s) \in Nat \ {0} /\ Head(s) = s[1]
  OBVIOUS
<1>2. Elements(Tail(s)) \subseteq Elements(s)
  BY <1>1 DEF Elements
<1>3. ASSUME NEW i \in 1 .. Len(s), i # 1
      PROVE  s[i] \in Elements(Tail(s))
  <2>1. i - 1 \in 1 .. Len(Tail(s)) /\ Tail(s)[i - 1] = s[i]
    BY <1>1, <1>3
  <2>2. QED
    BY <2>1 DEF Elements
<1>4. QED
  BY <1>1, <1>2, <1>3 DEF Elements

LEMMA AppendElements ==
    ASSUME NEW S, NEW s \in Seq(S), NEW x \in S
    PROVE  /\ Append(s, x) \in Seq(S) /\ Len(Append(s, x)) = Len(s) + 1
           /\ Elements(Append(s, x)) = Elements(s) \cup {x}
<1>1. /\ Append(s, x) \in Seq(S) /\ Len(Append(s, x)) = Len(s) + 1
      /\ Len(s) \in Nat
      /\ \A i \in 1 .. Len(s) : Append(s, x)[i] = s[i]
      /\ Append(s, x)[Len(s) + 1] = x
  OBVIOUS
<1>2. QED
  BY <1>1 DEF Elements

(* What a message does to a record.                                         *)
LEMMA UpdatedRecord ==
    ASSUME NEW r \in Requests, NEW m \in Message, record[r] \in Record, now \in Nat
    PROVE  /\ Updated(r, m) \in Record
           /\ Updated(r, m).final \in {record[r].final, m}
           /\ m.type = "request_accepted" => Updated(r, m).final = record[r].final
           /\ m.type \notin {"request_accepted", "bridge_error"} /\ record[r].final # NONE
                => Updated(r, m).final = record[r].final
           /\ (record[r].status \in {"completed", "error"} =>
                  /\ record[r].final # NONE
                  /\ record[r].status = "completed" => ~ Bad(record[r].final))
              => (Updated(r, m).status \in {"completed", "error"} =>
                     /\ Updated(r, m).final # NONE
                     /\ Updated(r, m).status = "completed" => ~ Bad(Updated(r, m).final))
<1> USE NoneIsNoValue DEF Updated, Record, Statuses
<1>1. CASE m.type = "request_accepted"
  BY <1>1
<1>2. CASE m.type = "bridge_error"
  BY <1>2
<1>3. CASE m.type \notin {"request_accepted", "bridge_error"}
  <2>1. CASE record[r].final = NONE /\ IsFinal(Kind[r], m)
    BY <1>3, <2>1
  <2>2. CASE ~ (record[r].final = NONE /\ IsFinal(Kind[r], m))
    BY <1>3, <2>2
  <2>3. QED
    BY <2>1, <2>2
<1>4. QED
  BY <1>1, <1>2, <1>3

-----------------------------------------------------------------------------
(* The steps of Next, in the groups the proofs go by.                       *)
Handlers(r) ==
    \/ Insert(r) \/ Enqueue(r) \/ MarkWaiting(r)
    \/ Accepted(r) \/ Refused(r) \/ Subscribe(r) \/ CheckFinal(r)
    \/ SendSimple(r) \/ SubscribeSimple(r)
    \/ Receive(r) \/ Lagged(r) \/ TimeOut(r) \/ HangUp(r)
Sends(r, m) ==
    \/ m = Line(r, "request_accepted") /\ DeviceAccepts(r)
    \/ m = Line(r, "bridge_error") /\ DeviceRefuses(r)
    \/ m = Line(NONE, "bridge_error") /\ DispatchFails(r)
    \/ m \in Replies /\ (DeviceReplies(r, m) \/ DeviceAnswers(r, m))

LEMMA NextSteps ==
    ASSUME [Next]_vars
    PROVE  \/ \E r \in Requests : Handlers(r) \/ WriteCommand(r) \/ WriteFails(r)
           \/ \E r \in Requests, m \in Message : Sends(r, m)
           \/ Connect \/ Disconnect \/ Broadcast \/ Tick \/ UNCHANGED vars
<1>1. ASSUME NEW r \in Requests
      PROVE  /\ Line(r, "request_accepted") \in Message
             /\ Line(r, "bridge_error") \in Message
             /\ Line(NONE, "bridge_error") \in Message
  BY DEF Line, Message, MessageTypes
<1>2. Replies \subseteq Message
  BY BridgeAssumption
<1>3. ASSUME NEW r \in Requests,
             \/ DeviceAccepts(r) \/ DeviceRefuses(r) \/ DispatchFails(r)
             \/ \E m \in Replies : DeviceReplies(r, m) \/ DeviceAnswers(r, m)
      PROVE  \E m \in Message : Sends(r, m)
  BY <1>1, <1>2, <1>3 DEF Sends
<1>4. QED
  BY <1>3 DEF Next, Handlers

(* What a step of the bridge task up to the unlock does.                    *)
LEMMA HandleStep ==
    ASSUME TypeOK, NEW m \in Message, Handle(m)
    PROVE  /\ connected /\ handling = NONE /\ handling' = m
           /\ UNCHANGED <<pc, outcome, queue, connected, rx, lagged>>
           /\ record' \in [Requests -> Record \cup {NONE}]
           /\ \A r \in Requests :
                 \/ record'[r] = NONE
                 \/ record[r] \in Record /\ record'[r] = record[r]
                 \/ record[r] \in Record /\ r = m.req /\ record'[r] = Updated(r, m)
           /\ acc' \in [Requests -> {"none", "open", "ok", "err", "closed"}]
           /\ \A r \in Requests :
                 \/ acc'[r] = acc[r] /\ (r \in pending => r \in pending')
                 \/ r \in pending /\ acc'[r] \in {"ok", "err"}
           /\ pending' \subseteq pending
<1> USE NoneIsNoValue DEF TypeOK
<1>1. CASE m.req = NONE
  <2>1. /\ connected /\ handling = NONE /\ handling' = m
        /\ UNCHANGED <<pc, outcome, queue, connected, rx, lagged>>
        /\ UNCHANGED <<record, pending, acc>>
    BY <1>1 DEF Handle, taskVars
  <2>2. \A r \in Requests : record'[r] = record[r] /\ (record[r] = NONE \/ record[r] \in Record)
    BY <2>1
  <2>3. QED
    BY <2>1, <2>2
<1>2. CASE m.req # NONE
  <2>1. PICK keep \in SUBSET Stored :
           /\ record' = [r \in Requests |->
                            IF r \notin keep THEN NONE
                            ELSE IF r = m.req THEN Updated(r, m) ELSE record[r]]
           /\ pending' = pending \ Resolved(m, keep)
           /\ acc' = [r \in Requests |->
                         IF r \notin Resolved(m, keep) THEN acc[r]
                         ELSE IF m.type = "bridge_error" THEN "err" ELSE "ok"]
    BY <1>2 DEF Handle
  <2>2. \A r \in keep : record[r] \in Record
    BY DEF Stored
  <2>3. \A r \in keep : Updated(r, m) \in Record
    BY <2>2, UpdatedRecord DEF Stored
  <2>4. Resolved(m, keep) \subseteq pending
    BY DEF Resolved
  <2>5. /\ connected /\ handling = NONE /\ handling' = m
        /\ UNCHANGED <<pc, outcome, queue, connected, rx, lagged>>
    BY DEF Handle, taskVars
  <2>6. \A r \in Requests :
           \/ record'[r] = NONE
           \/ record[r] \in Record /\ record'[r] = record[r]
           \/ record[r] \in Record /\ r = m.req /\ record'[r] = Updated(r, m)
    BY <2>1, <2>2
  <2>7. record' \in [Requests -> Record \cup {NONE}]
    BY <2>1, <2>2, <2>3
  <2>8. acc' \in [Requests -> {"none", "open", "ok", "err", "closed"}]
    BY <2>1
  <2>9. \A r \in Requests :
           \/ acc'[r] = acc[r] /\ (r \in pending => r \in pending')
           \/ r \in pending /\ acc'[r] \in {"ok", "err"}
    BY <2>1, <2>4
  <2>10. QED
    BY <2>1, <2>5, <2>6, <2>7, <2>8, <2>9
<1>3. QED
  BY <1>1, <1>2

LEMMA HandlersType ==
    ASSUME TypeOK, NEW r \in Requests, Handlers(r)
    PROVE  TypeOK'
<1> USE NoneIsNoValue DEF TypeOK, PcValues, Listening, Ended, Goto, Finish,
                          socketVars, boundVars, taskVars
<1>1. CASE Insert(r)
  <2>1. record' \in [Requests -> Record \cup {NONE}]
    BY <1>1 DEF Insert, Record, Statuses
  <2>2. QED
    BY <1>1, <2>1 DEF Insert
<1>2. CASE Enqueue(r)
  BY <1>2 DEF Enqueue
<1>3. CASE MarkWaiting(r)
  <2>1. record' \in [Requests -> Record \cup {NONE}]
    <3>1. ASSUME record[r] # NONE
          PROVE  [record[r] EXCEPT !.status = "waiting_accept"] \in Record
      BY <3>1, ZenonT(60) DEF Record, Statuses
    <3>2. QED
      BY <1>3, <3>1, ZenonT(60) DEF MarkWaiting
  <2>2. QED
    BY <1>3, <2>1, ZenonT(60) DEF MarkWaiting
<1>4. CASE Accepted(r)
  BY <1>4, ZenonT(60) DEF Accepted
<1>5. CASE Refused(r)
  BY <1>5 DEF Refused
<1>6. CASE Subscribe(r)
  <2>1. Len(<<>>) <= Capacity
    BY BridgeAssumption
  <2>2. rx' \in [Requests -> Seq(Message)] /\ \A q \in Requests : Len(rx'[q]) <= Capacity
    BY <1>6, <2>1 DEF Subscribe
  <2>3. lagged' \in [Requests -> BOOLEAN]
    BY <1>6, Zenon DEF Subscribe
  <2>4. QED
    BY <1>6, <2>2, <2>3 DEF Subscribe
<1>7. CASE CheckFinal(r)
  BY <1>7 DEF CheckFinal
<1>8. CASE SendSimple(r)
  BY <1>8 DEF SendSimple
<1>9. CASE SubscribeSimple(r)
  BY <1>9 DEF SubscribeSimple
<1>10. CASE Receive(r)
  <2>1. /\ Tail(rx[r]) \in Seq(Message) /\ Len(Tail(rx[r])) <= Capacity
    <3>1. rx[r] \in Seq(Message) /\ rx[r] # <<>>
      BY <1>10 DEF Receive
    <3>2. Len(rx[r]) \in Nat /\ Capacity \in Nat
      BY <3>1, BridgeAssumption
    <3>3. QED
      BY <3>1, <3>2, TailElements
  <2>2. rx' \in [Requests -> Seq(Message)] /\ \A q \in Requests : Len(rx'[q]) <= Capacity
    BY <1>10, <2>1 DEF Receive
  <2>3. QED
    BY <1>10, <2>2, ZenonT(60) DEF Receive
<1>11. CASE Lagged(r)
  BY <1>11 DEF Lagged
<1>12. CASE TimeOut(r)
  BY <1>12 DEF TimeOut
<1>13. CASE HangUp(r)
  BY <1>13 DEF HangUp
<1>14. QED
  BY <1>1, <1>2, <1>3, <1>4, <1>5, <1>6, <1>7, <1>8, <1>9, <1>10, <1>11, <1>12,
     <1>13 DEF Handlers

LEMMA SendsType ==
    ASSUME TypeOK, NEW r \in Requests, NEW m \in Message, Sends(r, m)
    PROVE  /\ Handle(m) /\ TypeOK' /\ m.req \in {r, NONE}
           /\ device' \in [Requests -> {"none", "got", "dispatched", "accepted",
                                        "refused", "failed", "orphaned", "answered"}]
           /\ device[r] # "none" /\ device'[r] \notin {"none", "got"}
           /\ \A q \in Requests \ {r} : device'[q] = device[q]
<1> USE NoneIsNoValue DEF Sends, DeviceAccepts, DeviceRefuses, DispatchFails,
                          DeviceReplies, DeviceAnswers
<1>1. Handle(m)
  OBVIOUS
<1>2. m.req \in {r, NONE}
  BY DEF Line
<1>3. /\ device' \in [Requests -> {"none", "got", "dispatched", "accepted",
                                   "refused", "failed", "orphaned", "answered"}]
      /\ device[r] # "none" /\ device'[r] \notin {"none", "got"}
      /\ \A q \in Requests \ {r} : device'[q] = device[q]
  BY ZenonT(60) DEF TypeOK
<1>4. {now', cuts', failures', hangups', replies'} \subseteq Nat
  BY DEF TypeOK, boundVars
<1>5. TypeOK'
  BY <1>1, <1>3, <1>4, HandleStep DEF TypeOK
<1>6. QED
  BY <1>1, <1>2, <1>3, <1>5

LEMMA TypeStep == TypeOK /\ [Next]_vars => TypeOK'
<1> SUFFICES ASSUME TypeOK, [Next]_vars PROVE TypeOK'
  OBVIOUS
<1> USE NoneIsNoValue DEF TypeOK
<1>1. ASSUME NEW r \in Requests, Handlers(r) PROVE TypeOK'
  BY <1>1, HandlersType
<1>2. ASSUME NEW r \in Requests, NEW m \in Message, Sends(r, m) PROVE TypeOK'
  BY <1>2, SendsType
<1>3. ASSUME NEW r \in Requests, WriteCommand(r) PROVE TypeOK'
  <2>1. Tail(queue) \in Seq(Requests)
    BY <1>3, TailElements DEF WriteCommand
  <2>2. pending' \subseteq Requests
    BY <1>3 DEF WriteCommand
  <2>3. QED
    BY <1>3, <2>1, <2>2 DEF WriteCommand, taskVars, boundVars
<1>4. ASSUME NEW waiting, NEW taken, EndConnection(waiting, taken)
      PROVE  /\ connected' \in BOOLEAN /\ pending' \subseteq Requests /\ cuts' \in Nat
             /\ acc' \in [Requests -> {"none", "open", "ok", "err", "closed"}]
             /\ device' \in [Requests -> {"none", "got", "dispatched", "accepted",
                                          "refused", "failed", "orphaned", "answered"}]
  <2>1. connected' \in BOOLEAN
    BY <1>4, Zenon DEF EndConnection
  <2>2. QED
    BY <1>4, <2>1 DEF EndConnection
<1>5. ASSUME NEW r \in Requests, WriteFails(r) PROVE TypeOK'
  <2>1. Tail(queue) \in Seq(Requests)
    BY <1>5, TailElements DEF WriteFails
  <2>2. EndConnection(pending \cup {x \in {r} : HasAcceptance(x)}, {r})
    BY <1>5 DEF WriteFails
  <2>3. QED
    BY <1>5, <2>1, <2>2, <1>4 DEF WriteFails, taskVars
<1>6. ASSUME Connect PROVE TypeOK'
  <2>1. connected' \in BOOLEAN
    BY <1>6, Zenon DEF Connect
  <2>2. QED
    BY <1>6, <2>1 DEF Connect, taskVars, boundVars
<1>7. ASSUME Disconnect PROVE TypeOK'
  BY <1>7, <1>4 DEF Disconnect, taskVars
<1>8. ASSUME Broadcast PROVE TypeOK'
  <2>1. handling \in Message /\ Capacity \in Nat \ {0}
    BY <1>8, BridgeAssumption DEF Broadcast
  <2>2. ASSUME NEW r \in Requests
        PROVE  /\ Append(rx[r], handling) \in Seq(Message)
               /\ Len(rx[r]) < Capacity => Len(Append(rx[r], handling)) <= Capacity
               /\ Len(rx[r]) >= Capacity =>
                     /\ Append(Tail(rx[r]), handling) \in Seq(Message)
                     /\ Len(Append(Tail(rx[r]), handling)) <= Capacity
    <3>1. rx[r] \in Seq(Message) /\ Len(rx[r]) \in Nat /\ Len(rx[r]) <= Capacity
      OBVIOUS
    <3>2. Append(rx[r], handling) \in Seq(Message) /\ Len(Append(rx[r], handling)) = Len(rx[r]) + 1
      BY <2>1, <3>1, AppendElements
    <3>3. ASSUME Len(rx[r]) >= Capacity
          PROVE  /\ Append(Tail(rx[r]), handling) \in Seq(Message)
                 /\ Len(Append(Tail(rx[r]), handling)) = Len(rx[r])
      <4>1. rx[r] # <<>>
        BY <2>1, <3>1, <3>3
      <4>2. Tail(rx[r]) \in Seq(Message) /\ Len(Tail(rx[r])) = Len(rx[r]) - 1
        BY <3>1, <4>1, TailElements
      <4>3. /\ Append(Tail(rx[r]), handling) \in Seq(Message)
            /\ Len(Append(Tail(rx[r]), handling)) = Len(Tail(rx[r])) + 1
        BY <2>1, <4>2, AppendElements
      <4>4. QED
        BY <3>1, <4>2, <4>3
    <3>4. QED
      BY <2>1, <3>1, <3>2, <3>3
  <2>3. \A r \in Requests : Len(rx[r]) \in Nat
    OBVIOUS
  <2>4. rx' \in [Requests -> Seq(Message)] /\ \A r \in Requests : Len(rx'[r]) <= Capacity
    BY <1>8, <2>1, <2>2, <2>3 DEF Broadcast
  <2>5. lagged' \in [Requests -> BOOLEAN]
    BY <1>8, Zenon DEF Broadcast
  <2>6. QED
    BY <1>8, <2>4, <2>5 DEF Broadcast, taskVars, boundVars
<1>9. ASSUME Tick PROVE TypeOK'
  BY <1>9 DEF Tick, taskVars, socketVars
<1>10. CASE UNCHANGED vars
  BY <1>10 DEF vars
<1>11. QED
  BY <1>1, <1>2, <1>3, <1>5, <1>6, <1>7, <1>8, <1>9, <1>10, NextSteps

-----------------------------------------------------------------------------
(* The ways a record changes.                                               *)
New(r) == /\ Insert(r)
          /\ record'[r].final = NONE /\ record'[r].status = "pending"
Marked(r) == /\ MarkWaiting(r) /\ record[r] \in Record
             /\ record'[r] = [record[r] EXCEPT !.status = "waiting_accept"]
Told(r, m) == /\ record[r] \in Record /\ m.req = r /\ record'[r] = Updated(r, m)
              /\ Sends(r, m)

LEMMA RecordStep ==
    ASSUME TypeOK, [Next]_vars, NEW r \in Requests
    PROVE  \/ record'[r] = record[r]
           \/ record'[r] = NONE
           \/ New(r) \/ Marked(r)
           \/ \E m \in Message : Told(r, m)
<1> USE NoneIsNoValue
<1>1. ASSUME NEW q \in Requests, Handlers(q)
      PROVE  record'[r] = record[r] \/ New(r) \/ Marked(r)
  <2>1. CASE Insert(q)
    <3>1. q = r => New(r)
      BY <2>1 DEF Insert, New, TypeOK
    <3>2. q # r => record'[r] = record[r]
      BY <2>1 DEF Insert, TypeOK
    <3>3. QED
      BY <3>1, <3>2
  <2>2. CASE MarkWaiting(q)
    <3>1. q = r /\ record[r] # NONE => Marked(r)
      BY <2>2 DEF MarkWaiting, Marked, TypeOK
    <3>2. q # r \/ record[r] = NONE => record'[r] = record[r]
      BY <2>2 DEF MarkWaiting, TypeOK
    <3>3. QED
      BY <3>1, <3>2
  <2>3. CASE UNCHANGED record
    BY <2>3
  <2>4. QED
    BY <1>1, <2>1, <2>2, <2>3
       DEF Handlers, Enqueue, Accepted, Refused, Subscribe, CheckFinal,
           SendSimple, SubscribeSimple, Receive, Lagged, TimeOut, HangUp
<1>2. ASSUME NEW q \in Requests, NEW m \in Message, Sends(q, m)
      PROVE  record'[r] = record[r] \/ record'[r] = NONE \/ Told(r, m)
  <2>1. \/ record'[r] = NONE
        \/ record'[r] = record[r]
        \/ record[r] \in Record /\ r = m.req /\ record'[r] = Updated(r, m)
    BY <1>2, SendsType, HandleStep
  <2>2. r = m.req => q = r
    BY <1>2, SendsType
  <2>3. QED
    BY <1>2, <2>1, <2>2 DEF Told
<1>3. CASE UNCHANGED record
  BY <1>3
<1>4. QED
  BY <1>1, <1>2, <1>3, NextSteps
     DEF WriteCommand, WriteFails, Connect, Disconnect, Broadcast, Tick, vars

LEMMA OwnFinalStep == TypeOK /\ OwnFinal /\ [Next]_vars => OwnFinal'
<1> SUFFICES ASSUME TypeOK, OwnFinal, [Next]_vars, NEW r \in Requests,
                    record'[r] # NONE, record'[r].final # NONE
             PROVE  record'[r].final.req = r
  BY DEF OwnFinal
<1>1. CASE record'[r] = record[r]
  BY <1>1 DEF OwnFinal
<1>2. CASE New(r)
  BY <1>2 DEF New
<1>3. CASE Marked(r)
  <2>1. record'[r].final = record[r].final /\ record[r] # NONE
    BY <1>3, NoneIsNoValue DEF Marked, Record
  <2>2. QED
    BY <2>1 DEF OwnFinal
<1>4. ASSUME NEW m \in Message, Told(r, m) PROVE record'[r].final.req = r
  <2>1. record'[r].final \in {record[r].final, m} /\ m.req = r /\ record[r] # NONE
    BY <1>4, UpdatedRecord, NoneIsNoValue DEF Told, TypeOK
  <2>2. QED
    BY <2>1 DEF OwnFinal
<1>5. QED
  BY <1>1, <1>2, <1>3, <1>4, RecordStep

LEMMA StatusStep == TypeOK /\ StatusHasFinal /\ [Next]_vars => StatusHasFinal'
<1> SUFFICES ASSUME TypeOK, StatusHasFinal, [Next]_vars, NEW r \in Requests,
                    record'[r] # NONE, record'[r].status \in {"completed", "error"}
             PROVE  /\ record'[r].final # NONE
                    /\ record'[r].status = "completed" => ~ Bad(record'[r].final)
  BY DEF StatusHasFinal
<1>1. CASE record'[r] = record[r]
  BY <1>1 DEF StatusHasFinal
<1>2. CASE New(r)
  BY <1>2 DEF New
<1>3. CASE Marked(r)
  BY <1>3 DEF Marked, Record
<1>4. ASSUME NEW m \in Message, Told(r, m)
      PROVE  /\ record'[r].final # NONE
             /\ record'[r].status = "completed" => ~ Bad(record'[r].final)
  <2>1. /\ record[r].status \in {"completed", "error"} =>
             /\ record[r].final # NONE
             /\ record[r].status = "completed" => ~ Bad(record[r].final)
        /\ record[r] \in Record /\ record'[r] = Updated(r, m) /\ now \in Nat
    BY <1>4, NoneIsNoValue DEF Told, StatusHasFinal, TypeOK
  <2>2. QED
    BY <2>1, UpdatedRecord
<1>5. QED
  BY <1>1, <1>2, <1>3, <1>4, RecordStep

LEMMA PathsStep == TypeOK /\ Paths /\ [Next]_vars => Paths'
<1> SUFFICES ASSUME TypeOK, Paths, [Next]_vars, NEW r \in Requests
             PROVE  /\ Kind[r] = "simple" => record'[r] = NONE /\ acc'[r] # "open"
                    /\ pc'[r] \in {"inserted", "enqueued", "accepting"} => Kind[r] # "simple"
                    /\ pc'[r] = "sent" => Kind[r] = "simple"
  BY DEF Paths
<1> USE NoneIsNoValue
<1>1. Kind[r] = "simple" => record'[r] = NONE
  <2>1. Kind[r] = "simple" => record[r] = NONE
    BY DEF Paths
  <2>2. Kind[r] = "simple" => ~ New(r)
    BY DEF New, Insert
  <2>3. QED
    BY <2>1, <2>2, RecordStep DEF Marked, Told
<1>2. ASSUME NEW q \in Requests, Handlers(q)
      PROVE  /\ Kind[r] = "simple" => acc'[r] # "open"
             /\ pc'[r] \in {"inserted", "enqueued", "accepting"} => Kind[r] # "simple"
             /\ pc'[r] = "sent" => Kind[r] = "simple"
  BY <1>2 DEF Handlers, Insert, Enqueue, MarkWaiting, Accepted, Refused, Subscribe,
              CheckFinal, SendSimple, SubscribeSimple, Receive, Lagged, TimeOut,
              HangUp, Goto, Finish, Paths, TypeOK, taskVars
<1>3. ASSUME NEW q \in Requests, NEW m \in Message, Sends(q, m)
      PROVE  pc' = pc /\ (acc'[r] = "open" => acc[r] = "open")
  BY <1>3, SendsType, HandleStep
<1>4. (\E q \in Requests : WriteCommand(q)) \/ Connect \/ Broadcast \/ Tick \/ UNCHANGED vars
         => pc' = pc /\ acc' = acc
  BY DEF WriteCommand, Connect, Broadcast, Tick, vars, taskVars
<1>5. ASSUME (\E q \in Requests : WriteFails(q)) \/ Disconnect
      PROVE  pc' = pc /\ (acc'[r] = "open" => acc[r] = "open")
  BY <1>5 DEF WriteFails, Disconnect, EndConnection, taskVars
<1>6. QED
  BY <1>1, <1>2, <1>3, <1>4, <1>5, NextSteps DEF Paths

LEMMA PendingStep == TypeOK /\ PendingIsConnected /\ [Next]_vars => PendingIsConnected'
<1> SUFFICES ASSUME TypeOK, PendingIsConnected, [Next]_vars PROVE PendingIsConnected'
  OBVIOUS
<1>1. ASSUME NEW q \in Requests, NEW m \in Message, Sends(q, m) PROVE connected'
  BY <1>1, SendsType, HandleStep
<1>2. ASSUME NEW q \in Requests, Handlers(q) PROVE UNCHANGED <<connected, pending>>
  BY <1>2 DEF Handlers, Insert, Enqueue, MarkWaiting, Accepted, Refused, Subscribe,
              CheckFinal, SendSimple, SubscribeSimple, Receive, Lagged, TimeOut,
              HangUp, socketVars
<1>3. ASSUME NEW q \in Requests, WriteCommand(q) PROVE connected'
  BY <1>3 DEF WriteCommand
<1>4. ASSUME (\E q \in Requests : WriteFails(q)) \/ Disconnect \/ Connect
      PROVE  pending' = {}
  BY <1>4 DEF WriteFails, Disconnect, Connect, EndConnection
<1>5. Broadcast \/ Tick \/ UNCHANGED vars => UNCHANGED <<connected, pending>>
  BY DEF Broadcast, Tick, vars, socketVars
<1>6. QED
  BY <1>1, <1>2, <1>3, <1>4, <1>5, NextSteps, Zenon DEF PendingIsConnected

(* A sender is queued, then pending, then resolved or dropped.              *)
LEMMA HeldStep ==
    TypeOK /\ Paths /\ PendingIsConnected /\ NoOrphanAcceptance /\ [Next]_vars
        => NoOrphanAcceptance'
<1> SUFFICES ASSUME TypeOK, Paths, PendingIsConnected, NoOrphanAcceptance, [Next]_vars,
                    NEW r \in Requests, acc'[r] = "open"
             PROVE  r \in Elements(queue') \/ r \in pending'
  BY DEF NoOrphanAcceptance
<1> DEFINE Held == r \in Elements(queue) \/ r \in pending
<1>1. acc[r] = "open" => Held /\ Kind[r] # "simple"
  BY DEF NoOrphanAcceptance, Paths
<1>2. ASSUME NEW q \in Requests, Handlers(q)
      PROVE  r \in Elements(queue') \/ r \in pending'
  <2>1. CASE Enqueue(q)
    <3>1. Elements(queue') = Elements(queue) \cup {q} /\ pending' = pending
      BY <2>1, AppendElements DEF Enqueue, TypeOK
    <3>2. q = r \/ acc[r] = "open"
      BY <2>1 DEF Enqueue, TypeOK
    <3>3. QED
      BY <1>1, <3>1, <3>2
  <2>2. CASE SendSimple(q)
    <3>1. Elements(queue') = Elements(queue) \cup {q} /\ pending' = pending /\ acc' = acc
      BY <2>2, AppendElements DEF SendSimple, TypeOK
    <3>2. QED
      BY <1>1, <3>1
  <2>3. CASE UNCHANGED <<queue, pending, acc>>
    BY <1>1, <2>3 DEF Elements
  <2>4. QED
    BY <1>2, <2>1, <2>2, <2>3
       DEF Handlers, Insert, MarkWaiting, Accepted, Refused, Subscribe, CheckFinal,
           SubscribeSimple, Receive, Lagged, TimeOut, HangUp, socketVars
<1>3. ASSUME NEW q \in Requests, NEW m \in Message, Sends(q, m)
      PROVE  r \in Elements(queue') \/ r \in pending'
  <2>1. acc[r] = "open" /\ (r \in pending => r \in pending') /\ queue' = queue
    BY <1>3, SendsType, HandleStep
  <2>2. QED
    BY <1>1, <2>1 DEF Elements
<1>4. ASSUME NEW q \in Requests, WriteCommand(q)
      PROVE  r \in Elements(queue') \/ r \in pending'
  <2>1. Elements(queue) \subseteq Elements(queue') \cup {q} /\ acc[r] = "open"
    BY <1>4, TailElements DEF WriteCommand, TypeOK
  <2>2. pending \subseteq pending' /\ (HasAcceptance(q) => q \in pending')
    BY <1>4 DEF WriteCommand
  <2>3. QED
    BY <1>1, <2>1, <2>2 DEF HasAcceptance
<1>5. ASSUME NEW q \in Requests, WriteFails(q)
      PROVE  r \in Elements(queue')
  <2>1. Elements(queue) \subseteq Elements(queue') \cup {q}
    BY <1>5, TailElements DEF WriteFails, TypeOK
  <2>2. acc[r] = "open" /\ r \notin pending /\ (r = q => ~ HasAcceptance(q))
    BY <1>5 DEF WriteFails, EndConnection
  <2>3. QED
    BY <1>1, <2>1, <2>2 DEF HasAcceptance
<1>6. ASSUME Disconnect PROVE r \in Elements(queue')
  <2>1. acc[r] = "open" /\ r \notin pending /\ queue' = queue
    BY <1>6 DEF Disconnect, EndConnection
  <2>2. QED
    BY <1>1, <2>1 DEF Elements
<1>7. ASSUME Connect PROVE r \in Elements(queue')
  <2>1. acc[r] = "open" /\ pending = {} /\ queue' = queue
    BY <1>7 DEF Connect, PendingIsConnected
  <2>2. QED
    BY <1>1, <2>1 DEF Elements
<1>8. ASSUME Broadcast \/ Tick \/ UNCHANGED vars
      PROVE  r \in Elements(queue') \/ r \in pending'
  <2>1. acc' = acc /\ queue' = queue /\ pending' = pending
    BY <1>8 DEF Broadcast, Tick, vars, socketVars
  <2>2. QED
    BY <1>1, <2>1 DEF Elements
<1>9. QED
  BY <1>2, <1>3, <1>4, <1>5, <1>6, <1>7, <1>8, NextSteps

-----------------------------------------------------------------------------
(* What can make a handler listen, and what happens to its receiver.        *)
LEMMA ReceiverStep ==
    ASSUME TypeOK, Paths, [Next]_vars, NEW r \in Requests, pc'[r] = "receiving"
    PROVE  \/ CheckFinal(r) \/ Kind[r] = "simple"
           \/ /\ pc[r] = "receiving" /\ handling' = handling /\ lagged'[r] = lagged[r]
              /\ \/ rx'[r] = rx[r]
                 \/ Receive(r)
           \/ /\ pc[r] = "receiving" /\ Broadcast
           \/ /\ pc[r] = "receiving" /\ handling = NONE
              /\ lagged'[r] = lagged[r] /\ rx'[r] = rx[r]
<1>1. ASSUME NEW q \in Requests, Handlers(q)
      PROVE  \/ CheckFinal(r) \/ Kind[r] = "simple"
             \/ /\ pc[r] = "receiving" /\ handling' = handling /\ lagged'[r] = lagged[r]
                /\ rx'[r] = rx[r] \/ Receive(r)
  <2>1. handling' = handling
    BY <1>1 DEF Handlers, Insert, Enqueue, MarkWaiting, Accepted, Refused, Subscribe,
              CheckFinal, SendSimple, SubscribeSimple, Receive, Lagged, TimeOut,
              HangUp, socketVars
  <2>2. q = r => CheckFinal(r) \/ SubscribeSimple(r) \/ Receive(r)
    BY <1>1 DEF Handlers, Insert, Enqueue, MarkWaiting, Accepted, Refused, Subscribe,
              CheckFinal, SendSimple, SubscribeSimple, Receive, Lagged, TimeOut,
              HangUp, Goto, Finish, TypeOK
  <2>3. SubscribeSimple(r) => Kind[r] = "simple"
    BY DEF SubscribeSimple, Paths
  <2>4. Receive(r) => pc[r] = "receiving" /\ lagged'[r] = lagged[r]
    BY DEF Receive
  <2>5. q # r => pc'[r] = pc[r] /\ lagged'[r] = lagged[r] /\ rx'[r] = rx[r]
    BY <1>1 DEF Handlers, Insert, Enqueue, MarkWaiting, Accepted, Refused, Subscribe,
              CheckFinal, SendSimple, SubscribeSimple, Receive, Lagged, TimeOut,
              HangUp, Goto, Finish, taskVars, TypeOK
  <2>6. QED
    BY <2>1, <2>2, <2>3, <2>4, <2>5
<1>2. ASSUME NEW q \in Requests, NEW m \in Message, Sends(q, m)
      PROVE  /\ pc[r] = "receiving" /\ handling = NONE
             /\ lagged'[r] = lagged[r] /\ rx'[r] = rx[r]
  BY <1>2, SendsType, HandleStep
<1>3. Broadcast => pc[r] = "receiving"
  BY DEF Broadcast, taskVars
<1>4. ASSUME \/ \E q \in Requests : WriteCommand(q) \/ WriteFails(q)
             \/ Connect \/ Disconnect \/ Tick \/ UNCHANGED vars
      PROVE  /\ pc[r] = "receiving" /\ handling' = handling
             /\ lagged'[r] = lagged[r] /\ rx'[r] = rx[r]
  BY <1>4 DEF WriteCommand, WriteFails, Connect, Disconnect, Tick, vars, taskVars, socketVars
<1>5. QED
  BY <1>1, <1>2, <1>3, <1>4, NextSteps

(* The message a full receiver loses is one it is told of.                  *)
LEMMA BroadcastKeeps ==
    ASSUME TypeOK, Broadcast, NEW r \in Requests, pc[r] = "receiving"
    PROVE  /\ handling \in Elements(rx'[r])
           /\ lagged[r] => lagged'[r]
           /\ Elements(rx[r]) \subseteq Elements(rx'[r]) \/ lagged'[r]
<1>1. rx[r] \in Seq(Message) /\ handling \in Message /\ pc[r] \in Listening
  BY DEF TypeOK, Broadcast, Listening
<1>2. lagged[r] => lagged'[r]
  BY DEF Broadcast
<1>3. CASE Len(rx[r]) < Capacity
  <2>1. rx'[r] = Append(rx[r], handling)
    BY <1>1, <1>3 DEF Broadcast
  <2>2. QED
    BY <1>1, <1>2, <2>1, AppendElements
<1>4. CASE ~ (Len(rx[r]) < Capacity)
  <2>1. rx'[r] = Append(Tail(rx[r]), handling)
    BY <1>1, <1>4 DEF Broadcast
  <2>2. Len(rx[r]) = Capacity /\ rx[r] # <<>>
    BY <1>1, <1>4, BridgeAssumption DEF TypeOK
  <2>3. lagged'[r]
    BY <1>1, <2>2 DEF Broadcast
  <2>4. handling \in Elements(rx'[r])
    <3>1. Tail(rx[r]) \in Seq(Message)
      BY <1>1, <2>2, TailElements
    <3>2. ASSUME NEW s \in Seq(Message)
          PROVE  handling \in Elements(Append(s, handling))
      BY <1>1, AppendElements
    <3>3. QED
      BY <2>1, <3>1, <3>2
  <2>5. QED
    BY <1>2, <2>3, <2>4
<1>5. QED
  BY <1>3, <1>4

LEMMA FinalStep ==
    TypeOK /\ Paths /\ OwnFinal /\ NoFinalMissed /\ [Next]_vars => NoFinalMissed'
<1> SUFFICES ASSUME TypeOK, Paths, OwnFinal, NoFinalMissed, [Next]_vars,
                    NEW r \in Requests, pc'[r] = "receiving", record'[r] # NONE,
                    record'[r].final # NONE, Ends(r, record'[r].final)
             PROVE  \/ record'[r].final \in Elements(rx'[r])
                    \/ record'[r].final = handling' \/ lagged'[r]
  BY DEF NoFinalMissed, Ends, IsError, IsTerminal
<1> DEFINE f == record'[r].final
<1>1. \/ record[r] # NONE /\ f = record[r].final
      \/ f = handling'
  <2>1. ASSUME NEW m \in Message, Told(r, m)
        PROVE  record[r] # NONE /\ (f = record[r].final \/ f = handling')
    <3>1. f \in {record[r].final, m} /\ record[r] # NONE
      BY <2>1, UpdatedRecord, NoneIsNoValue DEF Told, TypeOK
    <3>2. handling' = m
      BY <2>1, SendsType, HandleStep DEF Told
    <3>3. QED
      BY <3>1, <3>2
  <2>2. Marked(r) => record[r] # NONE /\ f = record[r].final
    BY NoneIsNoValue DEF Marked, Record
  <2>3. ~ New(r)
    BY DEF New
  <2>4. QED
    BY <2>1, <2>2, <2>3, RecordStep
<1>2. CASE f = handling'
  BY <1>2
<1>3. CASE record[r] # NONE /\ f = record[r].final
  <2>1. pc[r] = "receiving" => f \in Elements(rx[r]) \/ f = handling \/ lagged[r]
    BY <1>3 DEF NoFinalMissed
  <2>2. ~ CheckFinal(r)
    BY <1>3 DEF CheckFinal, Finish, TypeOK
  <2>3. Kind[r] # "simple"
    BY <1>3 DEF Paths
  <2>4. ASSUME Receive(r), f \in Elements(rx[r]) PROVE f \in Elements(rx'[r])
    <3>1. f # Head(rx[r])
      <4>1. f.req = r
        BY <1>3 DEF OwnFinal
      <4>2. QED
        BY <2>4, <4>1 DEF Receive, Finish, TypeOK
    <3>2. rx[r] \in Seq(Message) /\ rx[r] # <<>> /\ rx'[r] = Tail(rx[r])
      BY <2>4 DEF Receive, TypeOK
    <3>3. QED
      BY <2>4, <3>1, <3>2, TailElements
  <2>5. ASSUME pc[r] = "receiving", Broadcast
        PROVE  f \in Elements(rx'[r]) \/ lagged'[r]
    BY <2>1, <2>5, BroadcastKeeps
  <2>6. QED
    <3>1. ASSUME pc[r] = "receiving", handling' = handling, lagged'[r] = lagged[r],
                 rx'[r] = rx[r] \/ Receive(r)
          PROVE  f \in Elements(rx'[r]) \/ f = handling' \/ lagged'[r]
      BY <2>1, <2>4, <3>1
    <3>2. ASSUME pc[r] = "receiving", handling = NONE,
                 lagged'[r] = lagged[r], rx'[r] = rx[r]
          PROVE  f \in Elements(rx'[r]) \/ lagged'[r]
      BY <2>1, <3>2
    <3>3. QED
      BY <2>2, <2>3, <2>5, <3>1, <3>2, ReceiverStep
<1>4. QED
  BY <1>1, <1>2, <1>3

-----------------------------------------------------------------------------
(* A command enters the queue once and leaves it towards the device.        *)
LEMMA QueueStep ==
    ASSUME TypeOK, [Next]_vars
    PROVE  \/ queue' = queue /\ \A r \in Requests : pc'[r] \in {"idle", "inserted"}
                                                      => pc[r] \in {"idle", "inserted"}
           \/ \E q \in Requests :
                 /\ pc[q] \in {"idle", "inserted"} /\ pc'[q] \notin {"idle", "inserted"}
                 /\ queue' = Append(queue, q) /\ device' = device
                 /\ \A r \in Requests \ {q} : pc'[r] = pc[r]
           \/ /\ queue # <<>> /\ queue' = Tail(queue) /\ pc' = pc
              /\ \A r \in Requests \ {Head(queue)} :
                    device'[r] = device[r] \/ (device'[r] = "orphaned" /\ device[r] # "none")
<1> USE DEF TypeOK
<1>1. ASSUME NEW q \in Requests, Handlers(q)
      PROVE  \/ queue' = queue /\ \A r \in Requests : pc'[r] \in {"idle", "inserted"}
                                                      => pc[r] \in {"idle", "inserted"}
             \/ /\ pc[q] \in {"idle", "inserted"} /\ pc'[q] \notin {"idle", "inserted"}
                /\ queue' = Append(queue, q) /\ device' = device
                /\ \A r \in Requests \ {q} : pc'[r] = pc[r]
  <2>1. CASE Enqueue(q)
    BY <2>1 DEF Enqueue, Goto
  <2>2. CASE SendSimple(q)
    BY <2>2 DEF SendSimple, Goto
  <2>3. ASSUME UNCHANGED queue, ~ Enqueue(q), ~ SendSimple(q)
        PROVE  \A r \in Requests : pc'[r] \in {"idle", "inserted"}
                                     => pc[r] \in {"idle", "inserted"}
    BY <1>1, <2>3
       DEF Handlers, Insert, MarkWaiting, Accepted, Refused, Subscribe, CheckFinal,
           SubscribeSimple, Receive, Lagged, TimeOut, HangUp, Goto, Finish, taskVars
  <2>4. Enqueue(q) \/ SendSimple(q) \/ UNCHANGED queue
    BY <1>1
       DEF Handlers, Insert, MarkWaiting, Accepted, Refused, Subscribe, CheckFinal,
           SubscribeSimple, Receive, Lagged, TimeOut, HangUp, socketVars
  <2>5. QED
    BY <2>1, <2>2, <2>3, <2>4
<1>2. ASSUME NEW q \in Requests, WriteCommand(q) \/ WriteFails(q)
      PROVE  /\ queue # <<>> /\ queue' = Tail(queue) /\ pc' = pc
             /\ \A r \in Requests \ {Head(queue)} :
                   device'[r] = device[r] \/ (device'[r] = "orphaned" /\ device[r] # "none")
  BY <1>2 DEF WriteCommand, WriteFails, EndConnection, taskVars
<1>3. ASSUME \/ \E q \in Requests, m \in Message : Sends(q, m)
             \/ Connect \/ Disconnect \/ Broadcast \/ Tick \/ UNCHANGED vars
      PROVE  queue' = queue /\ pc' = pc
  <2>1. ASSUME NEW q \in Requests, NEW m \in Message, Sends(q, m)
        PROVE  queue' = queue /\ pc' = pc
    BY <2>1, SendsType, HandleStep
  <2>2. QED
    BY <1>3, <2>1 DEF Connect, Disconnect, Broadcast, Tick, vars, taskVars, socketVars
<1>4. QED
  BY <1>1, <1>2, <1>3, NextSteps

LEMMA DeviceStep ==
    ASSUME TypeOK, [Next]_vars, NEW r \in Requests
    PROVE  \/ device'[r] = device[r]
           \/ device[r] # "none" /\ device'[r] \notin {"none", "got"}
           \/ queue # <<>> /\ r = Head(queue) /\ queue' = Tail(queue)
<1>1. ASSUME NEW q \in Requests, Handlers(q) PROVE device' = device
  BY <1>1 DEF Handlers, Insert, Enqueue, MarkWaiting, Accepted, Refused, Subscribe,
              CheckFinal, SendSimple, SubscribeSimple, Receive, Lagged, TimeOut,
              HangUp, socketVars
<1>2. ASSUME NEW q \in Requests, NEW m \in Message, Sends(q, m)
      PROVE  device'[r] = device[r] \/ (device[r] # "none" /\ device'[r] \notin {"none", "got"})
  BY <1>2, SendsType
<1>3. ASSUME NEW q \in Requests, WriteCommand(q)
      PROVE  device'[r] = device[r] \/ (queue # <<>> /\ r = Head(queue) /\ queue' = Tail(queue))
  BY <1>3 DEF WriteCommand, TypeOK
<1>4. ASSUME NEW q \in Requests, WriteFails(q)
      PROVE  \/ device'[r] = device[r]
             \/ device[r] # "none" /\ device'[r] \notin {"none", "got"}
             \/ queue # <<>> /\ r = Head(queue) /\ queue' = Tail(queue)
  BY <1>4 DEF WriteFails, EndConnection, TypeOK
<1>5. ASSUME Disconnect
      PROVE  device'[r] = device[r] \/ (device[r] # "none" /\ device'[r] \notin {"none", "got"})
  BY <1>5 DEF Disconnect, EndConnection, TypeOK
<1>6. Connect \/ Broadcast \/ Tick \/ UNCHANGED vars => device' = device
  BY DEF Connect, Broadcast, Tick, vars, socketVars
<1>7. QED
  BY <1>1, <1>2, <1>3, <1>4, <1>5, <1>6, NextSteps

LEMMA OnceStep == TypeOK /\ WrittenOnce /\ [Next]_vars => WrittenOnce'
<1> SUFFICES ASSUME TypeOK, WrittenOnce, [Next]_vars PROVE WrittenOnce'
  OBVIOUS
<1> DEFINE Early(r) == pc[r] \in {"idle", "inserted"}
           NoRepeat(s) == \A i, j \in 1 .. Len(s) : s[i] = s[j] => i = j
<1>1. queue \in Seq(Requests) /\ NoRepeat(queue)
  BY DEF TypeOK, WrittenOnce
<1>2. \A r \in Requests : Early(r) \/ r \in Elements(queue) => device[r] = "none"
  BY DEF WrittenOnce
<1>3. \A r \in Requests : Early(r) => r \notin Elements(queue)
  BY DEF WrittenOnce
<1>4. ASSUME NEW q \in Requests, q \notin Elements(queue)
      PROVE  NoRepeat(Append(queue, q))
  <2>1. /\ Len(Append(queue, q)) = Len(queue) + 1 /\ Len(queue) \in Nat
        /\ \A i \in 1 .. Len(queue) : Append(queue, q)[i] = queue[i] /\ queue[i] # q
        /\ Append(queue, q)[Len(queue) + 1] = q
    BY <1>1, <1>4 DEF Elements
  <2>2. QED
    BY <1>1, <2>1
<1>5. ASSUME queue # <<>>
      PROVE  NoRepeat(Tail(queue)) /\ Head(queue) \notin Elements(Tail(queue))
  <2>1. /\ Len(Tail(queue)) = Len(queue) - 1 /\ Len(queue) \in Nat \ {0}
        /\ \A i \in 1 .. Len(Tail(queue)) : Tail(queue)[i] = queue[i + 1]
        /\ Head(queue) = queue[1]
    BY <1>1, <1>5
  <2>2. NoRepeat(Tail(queue))
    BY <1>1, <2>1
  <2>3. \A i \in 1 .. Len(Tail(queue)) : Tail(queue)[i] # queue[1]
    BY <1>1, <2>1
  <2>4. QED
    BY <2>1, <2>2, <2>3 DEF Elements
<1>6. /\ NoRepeat(queue')
      /\ \A r \in Requests : Early(r)' \/ r \in Elements(queue') => device'[r] = "none"
      /\ \A r \in Requests : Early(r)' => r \notin Elements(queue')
  <2>1. CASE queue' = queue /\ \A r \in Requests : Early(r)' => Early(r)
    <3>1. Elements(queue') = Elements(queue)
      BY <2>1 DEF Elements
    <3>2. ASSUME NEW r \in Requests, device[r] = "none" PROVE device'[r] = "none"
      <4>1. queue # <<>> => queue # Tail(queue)
        BY <1>1
      <4>2. QED
        BY <2>1, <3>2, <4>1, DeviceStep
    <3>3. QED
      BY <1>1, <1>2, <1>3, <2>1, <3>1, <3>2
  <2>2. ASSUME NEW q \in Requests, Early(q), ~ Early(q)',
               queue' = Append(queue, q), device' = device,
               \A r \in Requests \ {q} : pc'[r] = pc[r]
        PROVE  /\ NoRepeat(queue')
               /\ \A r \in Requests : Early(r)' \/ r \in Elements(queue') => device'[r] = "none"
               /\ \A r \in Requests : Early(r)' => r \notin Elements(queue')
    <3>1. Elements(queue') = Elements(queue) \cup {q}
      BY <1>1, <2>2, AppendElements
    <3>2. NoRepeat(queue')
      BY <1>3, <1>4, <2>2
    <3>3. QED
      BY <1>2, <1>3, <2>2, <3>1, <3>2
  <2>3. CASE /\ queue # <<>> /\ queue' = Tail(queue) /\ pc' = pc
             /\ \A r \in Requests \ {Head(queue)} :
                   device'[r] = device[r] \/ (device'[r] = "orphaned" /\ device[r] # "none")
    <3>1. /\ Elements(queue') \subseteq Elements(queue)
          /\ Head(queue) \in Elements(queue)
      <4>1. Head(queue) = queue[1] /\ 1 \in 1 .. Len(queue)
        BY <1>1, <2>3
      <4>2. QED
        BY <1>1, <2>3, <4>1, TailElements DEF Elements
    <3>2. NoRepeat(queue') /\ Head(queue) \notin Elements(queue')
      BY <1>5, <2>3
    <3>3. QED
      BY <1>2, <1>3, <2>3, <3>1, <3>2
  <2>4. QED
    BY <2>1, <2>2, <2>3, QueueStep
<1>7. ASSUME NEW r \in Requests, device'[r] \in {"none", "got"}, record'[r] # NONE
      PROVE  record'[r].final = NONE
  <2>1. device[r] \in {"none", "got"}
    <3>1. ASSUME queue # <<>>, r = Head(queue) PROVE device[r] = "none"
      <4>1. Head(queue) = queue[1] /\ 1 \in 1 .. Len(queue)
        BY <1>1, <3>1
      <4>2. QED
        BY <1>2, <3>1, <4>1 DEF Elements
    <3>2. QED
      BY <1>7, <3>1, DeviceStep
  <2>2. record[r] # NONE => record[r].final = NONE
    BY <2>1 DEF WrittenOnce
  <2>3. Marked(r) => record[r] # NONE /\ record'[r].final = record[r].final
    BY NoneIsNoValue DEF Marked, Record
  <2>4. ASSUME NEW m \in Message, Told(r, m) PROVE FALSE
    BY <1>7, <2>4, SendsType DEF Told
  <2>5. New(r) => record'[r].final = NONE
    BY DEF New
  <2>6. QED
    BY <1>7, <2>2, <2>3, <2>4, <2>5, RecordStep
<1>8. QED
  BY <1>6, <1>7 DEF WrittenOnce

-----------------------------------------------------------------------------
LEMMA InitIInv == Init => IInv
<1> SUFFICES ASSUME Init PROVE IInv
  OBVIOUS
<1> USE NoneIsNoValue DEF Init
<1>1. TypeOK
  <2>1. connected \in BOOLEAN /\ lagged \in [Requests -> BOOLEAN]
    BY Zenon
  <2>2. rx \in [Requests -> Seq(Message)] /\ \A r \in Requests : Len(rx[r]) <= Capacity
    BY BridgeAssumption
  <2>3. QED
    BY <2>1, <2>2 DEF TypeOK, PcValues
<1>2. Elements(queue) = {}
  BY DEF Elements
<1>3. Paths /\ PendingIsConnected /\ OwnFinal /\ NoOrphanAcceptance /\ NoFinalMissed
      /\ StatusHasFinal
  BY DEF Paths, PendingIsConnected, OwnFinal, NoOrphanAcceptance, NoFinalMissed,
         StatusHasFinal
<1>4. WrittenOnce
  BY <1>2 DEF WrittenOnce
<1>5. QED
  BY <1>1, <1>3, <1>4 DEF IInv

LEMMA StepIInv == IInv /\ [Next]_vars => IInv'
BY TypeStep, PathsStep, PendingStep, OwnFinalStep, HeldStep, FinalStep, StatusStep,
   OnceStep DEF IInv

LEMMA Invariance == Spec => []IInv
BY InitIInv, StepIInv, PTL DEF Spec

(* Every variable keeps its type, and no receiver outgrows the channel.     *)
THEOREM TypeCorrect == Spec => []TypeOK
<1>1. IInv => TypeOK
  BY DEF IInv
<1>2. QED
  BY <1>1, Invariance, PTL

(* The sender of an unresolved acceptance is held by the queue or by the    *)
(* connection, through every cut, refusal and pruning.                      *)
THEOREM AcceptancesAreHeld == Spec => []NoOrphanAcceptance
<1>1. IInv => NoOrphanAcceptance
  BY DEF IInv
<1>2. QED
  BY <1>1, Invariance, PTL

(* Subscribing before looking at the record leaves no order of events in    *)
(* which a listening handler misses the end of its request.                 *)
THEOREM FinalsAreNotMissed == Spec => []NoFinalMissed
<1>1. IInv => NoFinalMissed
  BY DEF IInv
<1>2. QED
  BY <1>1, Invariance, PTL

(* A record that says its request ended holds the event that ended it.      *)
THEOREM StatusesHaveFinals == Spec => []StatusHasFinal
<1>1. IInv => StatusHasFinal
  BY DEF IInv
<1>2. QED
  BY <1>1, Invariance, PTL

(* No later event, refusal or late acceptance replaces the first final one. *)
THEOREM FirstFinalStays == Spec => FinalEventStable
<1>1. ASSUME IInv, [Next]_vars, NEW r \in Requests,
             record[r] # NONE, record'[r] # NONE, record[r].final # NONE
      PROVE  record'[r].final = record[r].final
  <2>1. TypeOK /\ device[r] \notin {"none", "got"} /\ pc[r] # "idle"
    BY <1>1 DEF IInv, WrittenOnce
  <2>2. ~ New(r)
    BY <2>1 DEF New, Insert
  <2>3. Marked(r) => record'[r].final = record[r].final
    BY DEF Marked, Record
  <2>4. ASSUME NEW m \in Message, Told(r, m)
        PROVE  record'[r].final = record[r].final
    <3>1. m.type # "bridge_error"
      BY <2>1, <2>4, NoneIsNoValue, BridgeAssumption
         DEF Told, Sends, Line, DeviceRefuses
    <3>2. QED
      BY <1>1, <2>1, <2>4, <3>1, UpdatedRecord DEF Told, TypeOK
  <2>5. QED
    BY <1>1, <2>1, <2>2, <2>3, <2>4, RecordStep
<1>2. IInv /\ [Next]_vars
        => [\A r \in Requests :
              record[r] # NONE /\ record'[r] # NONE /\ record[r].final # NONE
                => record'[r].final = record[r].final]_vars
  BY <1>1
<1>3. QED
  BY <1>2, Invariance, PTL DEF Spec, FinalEventStable

(* A getter that times out had no event it could have answered with, other  *)
(* than one that is being broadcast.                                        *)
THEOREM TimeoutsAreUnanswered == Spec => TimeoutMeansUnanswered
<1> DEFINE Unanswered(r) == \/ record[r] = NONE \/ record[r].final = NONE
                            \/ ~ Ends(r, record[r].final)
                            \/ record[r].final = handling
<1>1. ASSUME IInv, [Next]_vars, NEW r \in Requests,
             outcome[r] = "none", outcome'[r] = "timeout"
      PROVE  Unanswered(r)
  <2>1. TimeOut(r)
    <3>1. ASSUME NEW q \in Requests, Handlers(q) PROVE TimeOut(r)
      BY <1>1, <3>1
         DEF IInv, TypeOK, Handlers, Insert, Enqueue, MarkWaiting, Accepted, Refused,
             Subscribe, CheckFinal, SendSimple, SubscribeSimple, Receive, Lagged,
             TimeOut, HangUp, Goto, Finish, taskVars
    <3>2. ASSUME NEW q \in Requests, NEW m \in Message, Sends(q, m)
          PROVE  outcome' = outcome
      BY <1>1, <3>2, SendsType, HandleStep DEF IInv
    <3>3. QED
      BY <1>1, <3>1, <3>2, NextSteps
         DEF WriteCommand, WriteFails, Connect, Disconnect, Broadcast, Tick, vars,
             taskVars
  <2>2. pc[r] = "receiving" /\ ~ lagged[r] /\ Elements(rx[r]) = {}
    BY <2>1 DEF TimeOut, Elements
  <2>3. QED
    BY <1>1, <2>2 DEF IInv, NoFinalMissed
<1>2. IInv /\ [Next]_vars
        => [\A r \in Requests :
              Kind[r] = "query" /\ outcome[r] = "none" /\ outcome'[r] = "timeout"
                => Unanswered(r)]_vars
  BY <1>1
<1>3. QED
  BY <1>2, Invariance, PTL DEF Spec, TimeoutMeansUnanswered
=============================================================================
