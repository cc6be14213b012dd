-------------------------- MODULE GrpcDedupProofs --------------------------
(* TLAPS proofs about GrpcDedup, for any set of requests and keys.          *)
EXTENDS GrpcDedup, TLAPS

(* The sender registered for a key was registered by a request for that key *)
(* that still leads, or was dropped while it did.                           *)
Registered ==
    \A k \in Keys : inflight[k] # NONE =>
        /\ key[inflight[k]] = k
        /\ Active(inflight[k]) \/ pc[inflight[k]] = "dropped"

(* A follower subscribed to a channel of its own key.                       *)
Subscribed ==
    \A r \in Requests :
        /\ pc[r] = "waiting" => sub[r] # NONE
        /\ sub[r] # NONE => key[sub[r]] = key[r]

(* A leader that ran its handler holds its own response.                    *)
Holding ==
    \A r \in Requests :
        /\ pc[r] \in {"running", "collected"} => resp[r] # NONE
        /\ resp[r] # NONE => resp[r].by = r

(* Wherever a response is kept, it is there under its own key.              *)
RightKey ==
    /\ \A k \in Keys : cache[k] # NONE => key[cache[k].by] = k
    /\ \A r \in Requests : sent[r] # NONE => key[sent[r].by] = key[r]
    /\ ReplyMatchesKey

(* Before the first clear(), a leader is registered and a channel that was  *)
(* removed has had its value sent: nobody takes over.                       *)
OneLeader ==
    clears = 0 => \A r \in Requests :
        /\ Active(r) => inflight[key[r]] = r
        /\ sub[r] # NONE /\ Closed(sub[r]) => sent[sub[r]] # NONE

(* An answer of an earlier configuration, cached or still held by its       *)
(* leader, belongs to a request that led when the cache was cleared.        *)
StaleHeld ==
    /\ lastClear.epoch \in Nat /\ lastClear.epoch <= epoch
    /\ \A r \in Requests :
          pc[r] \in {"running", "collected"} /\ resp[r].epoch < lastClear.epoch
              => r \in lastClear.active
    /\ StaleOnlyFromInFlight

(* Until it collects an answer a request has no time to show, and until it  *)
(* ends no reply.                                                           *)
Timely ==
    \A r \in Requests :
        /\ pc[r] \in {"idle", "waiting", "elected"} => resp[r] = NONE
        /\ pc[r] # "done" => reply[r] = NONE
        /\ arrived[r] <= now /\ completed[r] <= now
        /\ pc[r] = "collected" => resp[r].created = completed[r]

(* An entry carries the time at which its request, published by now, had    *)
(* its answer; so does an answer that the cache gave out.                   *)
Stamped ==
    /\ \A k \in Keys : cache[k] # NONE =>
          /\ pc[cache[k].by] = "done"
          /\ cache[k].created = completed[cache[k].by]
    /\ \A r \in Requests :
          reply[r] # NONE /\ reply[r].by # r /\ sub[r] = NONE
              => /\ pc[reply[r].by] = "done"
                 /\ arrived[r] < completed[reply[r].by] + TTL[key[r]]

(* The requests whose handler was chosen to run.                            *)
Chosen(r) == Active(r) \/ resp[r] # NONE

(* r came when the answer of s, published, had lived its life.              *)
Outlives(s, r) == Published(s) /\ completed[s] + TTL[key[r]] <= arrived[r]

(* Before the first clear(): a request dropped with its answer leaves its   *)
(* sender; a collected answer is younger than its request; an answer that   *)
(* is not the cached one is older than it, or dead; and lifetimes of one    *)
(* key do not meet.                                                         *)
LeftBehind ==
    \A r \in Requests :
        /\ pc[r] = "dropped" /\ resp[r] # NONE => inflight[key[r]] = r
        /\ pc[r] = "collected" => arrived[r] <= completed[r]

LastIsCached ==
    \A s \in Requests : Published(s) =>
        \/ completed[s] + TTL[key[s]] <= now
        \/ cache[key[s]] # NONE /\ completed[s] <= cache[key[s]].created

Apart ==
    \A r, s \in Requests :
        r # s /\ key[r] = key[s] /\ Chosen(r) /\ Chosen(s)
            => Outlives(s, r) \/ Outlives(r, s)

Spaced == clears = 0 => LeftBehind /\ LastIsCached /\ Apart

IInv ==
    /\ TypeOK
    /\ Registered
    /\ Subscribed
    /\ Holding
    /\ RightKey
    /\ OneLeader
    /\ StaleHeld
    /\ Timely
    /\ Stamped
    /\ Spaced

-----------------------------------------------------------------------------
LEMMA NoneIsNoValue == NONE \notin Requests /\ NONE \notin Response
BY ConstantsAssumption

LEMMA LifetimesAreNat == TTL \in [Keys -> Nat]
BY ConstantsAssumption

LEMMA InitIInv == Init => IInv
<1> SUFFICES ASSUME Init PROVE IInv
    OBVIOUS
<1> USE DEF Init
<1>1. TypeOK
  BY DEF TypeOK, PcValues
<1>2. Registered /\ Subscribed /\ Holding
  BY DEF Registered, Subscribed, Holding
<1>3. RightKey
  BY DEF RightKey, ReplyMatchesKey
<1>4. OneLeader
  BY DEF OneLeader, Active, Leading
<1>5. StaleHeld
  BY DEF StaleHeld, StaleOnlyFromInFlight
<1>6. Timely /\ Stamped
  BY DEF Timely, Stamped
<1>7. Spaced
  BY DEF Spaced, LeftBehind, LastIsCached, Apart, Chosen, Active, Leading, Published
<1>8. QED
  BY <1>1, <1>2, <1>3, <1>4, <1>5, <1>6, <1>7 DEF IInv

(* No action leaves the types: a leader in "running" holds a response to    *)
(* stamp again and a follower has a channel: Holding and Subscribed.        *)
LEMMA TypeStep == TypeOK /\ Subscribed /\ Holding /\ [Next]_vars => TypeOK'
<1> SUFFICES ASSUME TypeOK, Subscribed, Holding, [Next]_vars PROVE TypeOK'
    OBVIOUS
<1> USE NoneIsNoValue DEF TypeOK, PcValues, Leading, Response, mapVars,
        historyVars, configVars, timeVars, Arrive
<1>1. ASSUME NEW r \in Requests, CacheHit(r) PROVE TypeOK'
  BY <1>1 DEF CacheHit, Fresh
<1>2. ASSUME NEW r \in Requests, Join(r) PROVE TypeOK'
  BY <1>2 DEF Join
<1>3. ASSUME NEW r \in Requests, Lead(r) PROVE TypeOK'
  BY <1>3 DEF Lead
<1>4. ASSUME NEW r \in Requests, Receive(r) PROVE TypeOK'
  <2>1. sent[sub[r]] \in Response
    BY <1>4 DEF Receive, Subscribed
  <2>2. QED
    BY <1>4, <2>1 DEF Receive
<1>5. ASSUME NEW r \in Requests, TakeOver(r) PROVE TypeOK'
  BY <1>5 DEF TakeOver, Register
<1>6. ASSUME NEW r \in Requests, RunHandler(r) PROVE TypeOK'
  BY <1>6 DEF RunHandler
<1>7. ASSUME NEW r \in Requests, Collect(r) PROVE TypeOK'
  BY <1>7 DEF Collect, Holding
<1>8. ASSUME NEW r \in Requests, Publish(r) PROVE TypeOK'
  <2>1. resp[r] \in Response
    BY <1>8 DEF Publish, Holding
  <2>2. sent' \in [Requests -> Response \cup {NONE}]
    BY <1>8, <2>1 DEF Publish
  <2>3. cache' \in [Keys -> Response \cup {NONE}]
    BY <1>8, <2>1 DEF Publish
  <2>4. reply' \in [Requests -> Response \cup {NONE}]
    BY <1>8, <2>1 DEF Publish
  <2>5. inflight' \in [Keys -> Requests \cup {NONE}]
    BY <1>8 DEF Publish
  <2>6. pc' \in [Requests -> PcValues]
    BY <1>8 DEF Publish
  <2>7. QED
    BY <1>8, <2>2, <2>3, <2>4, <2>5, <2>6 DEF Publish
<1>9. ASSUME NEW r \in Requests, Drop(r) PROVE TypeOK'
  BY <1>9 DEF Drop
<1>10. CASE ReplaceHandlers
  BY <1>10 DEF ReplaceHandlers
<1>11. CASE Clear
  <2>1. {r \in Requests : Active(r)} \in SUBSET Requests
    BY DEF Active
  <2>2. lastClear' \in [epoch: Nat, active: SUBSET Requests]
    BY <1>11, <2>1 DEF Clear
  <2>3. cache' \in [Keys -> Response \cup {NONE}]
    BY <1>11 DEF Clear
  <2>4. inflight' \in [Keys -> Requests \cup {NONE}]
    BY <1>11 DEF Clear
  <2>5. reloading' \in BOOLEAN
    BY <1>11, Zenon DEF Clear
  <2>6. clears' \in Nat
    BY <1>11 DEF Clear
  <2>7. UNCHANGED <<pc, key, sent, sub, resp, reply, now, epoch, drops,
                  timeVars>>
    BY <1>11 DEF Clear
  <2>8. QED
    BY <2>2, <2>3, <2>4, <2>5, <2>6, <2>7
<1>12. CASE Tick
  BY <1>12 DEF Tick
<1>13. CASE UNCHANGED vars
  BY <1>13 DEF vars
<1>14. QED
  BY <1>1, <1>2, <1>3, <1>4, <1>5, <1>6, <1>7, <1>8, <1>9, <1>10, <1>11,
     <1>12, <1>13 DEF Next

(* The stutters and the steps that leave the requests alone.                *)
Quiet == /\ UNCHANGED <<pc, key, inflight, cache, sent, sub, resp, reply,
                        lastClear, clears, drops, arrived, completed>>
         /\ epoch' \in Nat /\ epoch <= epoch'
         /\ now' \in Nat /\ now <= now'

LEMMA QuietSteps == TypeOK /\ (ReplaceHandlers \/ Tick \/ UNCHANGED vars) => Quiet
BY DEF TypeOK, ReplaceHandlers, Tick, vars, mapVars, historyVars, timeVars, Quiet

(* Registered, Subscribed and Holding: what the channels and the leaders of *)
(* a key know of each other.                                                *)
LEMMA ChannelStep ==
    TypeOK /\ Registered /\ Subscribed /\ Holding /\ [Next]_vars
        => (Registered /\ Subscribed /\ Holding)'
<1> SUFFICES ASSUME TypeOK, Registered, Subscribed, Holding, [Next]_vars
             PROVE  (Registered /\ Subscribed /\ Holding)'
    OBVIOUS
<1> USE NoneIsNoValue DEF TypeOK, Registered, Subscribed, Holding, Active,
        Leading, mapVars, historyVars
<1>1. ASSUME NEW r \in Requests, CacheHit(r) PROVE (Registered /\ Subscribed /\ Holding)'
  BY <1>1 DEF CacheHit
<1>2. ASSUME NEW r \in Requests, Join(r) PROVE (Registered /\ Subscribed /\ Holding)'
  <2>1. Registered'
    BY <1>2 DEF Join
  <2>2. Subscribed'
    BY <1>2 DEF Join
  <2>3. Holding'
    BY <1>2 DEF Join
  <2>4. QED
    BY <2>1, <2>2, <2>3
<1>3. ASSUME NEW r \in Requests, Lead(r) PROVE (Registered /\ Subscribed /\ Holding)'
  BY <1>3 DEF Lead
<1>4. ASSUME NEW r \in Requests, Receive(r) PROVE (Registered /\ Subscribed /\ Holding)'
  BY <1>4 DEF Receive
<1>5. ASSUME NEW r \in Requests, TakeOver(r) PROVE (Registered /\ Subscribed /\ Holding)'
  BY <1>5 DEF TakeOver, Register
<1>6. ASSUME NEW r \in Requests, RunHandler(r) PROVE (Registered /\ Subscribed /\ Holding)'
  BY <1>6 DEF RunHandler, Response
<1>7. ASSUME NEW r \in Requests, Collect(r) PROVE (Registered /\ Subscribed /\ Holding)'
  BY <1>7 DEF Collect, Response
<1>8. ASSUME NEW r \in Requests, Publish(r) PROVE (Registered /\ Subscribed /\ Holding)'
  BY <1>8 DEF Publish
<1>9. ASSUME NEW r \in Requests, Drop(r) PROVE (Registered /\ Subscribed /\ Holding)'
  BY <1>9 DEF Drop
<1>10. CASE Clear
  BY <1>10 DEF Clear
<1>11. CASE ReplaceHandlers \/ Tick \/ UNCHANGED vars
  BY <1>11, QuietSteps DEF Quiet
<1>12. QED
  BY <1>1, <1>2, <1>3, <1>4, <1>5, <1>6, <1>7, <1>8, <1>9, <1>10, <1>11
     DEF Next

(* A response moves from its leader to the channel, the cache and the       *)
(* replies of one key only.                                                 *)
LEMMA RightKeyStep ==
    TypeOK /\ Registered /\ Subscribed /\ Holding /\ RightKey /\ [Next]_vars
        => RightKey'
<1> SUFFICES ASSUME TypeOK, Registered, Subscribed, Holding, RightKey, [Next]_vars
             PROVE  RightKey'
    OBVIOUS
<1> USE NoneIsNoValue DEF TypeOK, RightKey, ReplyMatchesKey, mapVars,
        historyVars, Response
<1>1. ASSUME NEW r \in Requests, CacheHit(r) PROVE RightKey'
  BY <1>1 DEF CacheHit, Fresh
<1>2. ASSUME NEW r \in Requests, Join(r) PROVE RightKey'
  BY <1>2 DEF Join
<1>3. ASSUME NEW r \in Requests, Lead(r) PROVE RightKey'
  BY <1>3 DEF Lead
<1>4. ASSUME NEW r \in Requests, Receive(r) PROVE RightKey'
  BY <1>4 DEF Receive, Subscribed
<1>5. ASSUME NEW r \in Requests, TakeOver(r) PROVE RightKey'
  BY <1>5 DEF TakeOver
<1>6. ASSUME NEW r \in Requests, RunHandler(r) PROVE RightKey'
  BY <1>6 DEF RunHandler
<1>7. ASSUME NEW r \in Requests, Collect(r) PROVE RightKey'
  BY <1>7 DEF Collect
<1>8. ASSUME NEW r \in Requests, Publish(r) PROVE RightKey'
  <2>1. resp[r] \in Response /\ resp[r].by = r
    BY <1>8 DEF Publish, Holding
  <2>2. \A c \in Requests : sent'[c] # NONE => key[sent'[c].by] = key[c]
    BY <1>8, <2>1 DEF Publish, Registered
  <2>3. \A k \in Keys : cache'[k] # NONE => key[cache'[k].by] = k
    BY <1>8, <2>1 DEF Publish
  <2>4. \A q \in Requests : reply'[q] # NONE => key[reply'[q].by] = key[q]
    BY <1>8, <2>1 DEF Publish
  <2>5. QED
    BY <1>8, <2>2, <2>3, <2>4 DEF Publish
<1>9. ASSUME NEW r \in Requests, Drop(r) PROVE RightKey'
  BY <1>9 DEF Drop
<1>10. CASE Clear
  BY <1>10 DEF Clear
<1>11. CASE ReplaceHandlers \/ Tick \/ UNCHANGED vars
  BY <1>11, QuietSteps DEF Quiet
<1>12. QED
  BY <1>1, <1>2, <1>3, <1>4, <1>5, <1>6, <1>7, <1>8, <1>9, <1>10, <1>11
     DEF Next

(* Before the first clear() the registered sender is the leader's own, and  *)
(* only Publish removes it: after sending.                                  *)
LEMMA OneLeaderStep ==
    TypeOK /\ Registered /\ Subscribed /\ Holding /\ OneLeader /\ [Next]_vars
        => OneLeader'
<1> SUFFICES ASSUME TypeOK, Registered, Subscribed, Holding, OneLeader,
                    [Next]_vars, clears' = 0
             PROVE  \A x \in Requests :
                       /\ Active(x)' => inflight'[key'[x]] = x
                       /\ sub'[x] # NONE /\ Closed(sub[x])' => sent'[sub'[x]] # NONE
    BY DEF OneLeader
<1>0. clears = 0
  <2>1. CASE Clear
    BY <2>1 DEF Clear, TypeOK
  <2>2. CASE ~ Clear
    BY <2>2 DEF Next, vars, historyVars, CacheHit, Join, Lead, Receive,
       TakeOver, RunHandler, Collect, Publish, Drop, ReplaceHandlers, Tick
  <2>3. QED
    BY <2>1, <2>2
<1> USE <1>0, NoneIsNoValue DEF TypeOK, OneLeader, Active, Leading, Closed,
        mapVars, historyVars
<1> DEFINE Goal == \A x \in Requests :
                       /\ Active(x)' => inflight'[key'[x]] = x
                       /\ sub'[x] # NONE /\ Closed(sub[x])' => sent'[sub'[x]] # NONE
<1>1. ASSUME NEW r \in Requests, CacheHit(r) PROVE Goal
  BY <1>1 DEF CacheHit
<1>2. ASSUME NEW r \in Requests, Join(r) PROVE Goal
  BY <1>2 DEF Join, Registered
<1>3. ASSUME NEW r \in Requests, Lead(r) PROVE Goal
  BY <1>3 DEF Lead, Subscribed
<1>4. ASSUME NEW r \in Requests, Receive(r) PROVE Goal
  BY <1>4 DEF Receive
<1>5. ASSUME NEW r \in Requests, TakeOver(r) PROVE Goal
  BY <1>5 DEF TakeOver, Subscribed
<1>6. ASSUME NEW r \in Requests, RunHandler(r) PROVE Goal
  BY <1>6 DEF RunHandler
<1>7. ASSUME NEW r \in Requests, Collect(r) PROVE Goal
  BY <1>7 DEF Collect
<1>8. ASSUME NEW r \in Requests, Publish(r) PROVE Goal
  <2>1. inflight[key[r]] = r /\ resp[r] # NONE
    BY <1>8 DEF Publish, Holding
  <2>2. \A x \in Requests : Active(x)' => inflight'[key'[x]] = x
    BY <1>8, <2>1 DEF Publish
  <2>3. \A x \in Requests : sub'[x] # NONE /\ Closed(sub[x])' => sent'[sub'[x]] # NONE
    BY <1>8, <2>1 DEF Publish, Subscribed
  <2>4. QED
    BY <2>2, <2>3
<1>9. ASSUME NEW r \in Requests, Drop(r) PROVE Goal
  BY <1>9 DEF Drop
<1>10. CASE Clear
  BY <1>10 DEF Clear
<1>11. CASE ReplaceHandlers \/ Tick \/ UNCHANGED vars
  BY <1>11, QuietSteps DEF Quiet
<1>12. Goal
  BY <1>1, <1>2, <1>3, <1>4, <1>5, <1>6, <1>7, <1>8, <1>9, <1>10, <1>11
     DEF Next
<1>13. QED
  BY <1>12

(* A stale answer reaches the cache only from a leader the clear() met.     *)
LEMMA StaleStep ==
    TypeOK /\ Holding /\ StaleHeld /\ [Next]_vars => StaleHeld'
<1> SUFFICES ASSUME TypeOK, Holding, StaleHeld, [Next]_vars PROVE StaleHeld'
    OBVIOUS
<1> USE NoneIsNoValue DEF TypeOK, StaleHeld, StaleOnlyFromInFlight, Response,
        mapVars, historyVars, configVars
<1>1. ASSUME NEW r \in Requests, CacheHit(r) PROVE StaleHeld'
  BY <1>1 DEF CacheHit
<1>2. ASSUME NEW r \in Requests, Join(r) PROVE StaleHeld'
  BY <1>2 DEF Join
<1>3. ASSUME NEW r \in Requests, Lead(r) PROVE StaleHeld'
  BY <1>3 DEF Lead
<1>4. ASSUME NEW r \in Requests, Receive(r) PROVE StaleHeld'
  BY <1>4 DEF Receive
<1>5. ASSUME NEW r \in Requests, TakeOver(r) PROVE StaleHeld'
  BY <1>5 DEF TakeOver
<1>6. ASSUME NEW r \in Requests, RunHandler(r) PROVE StaleHeld'
  BY <1>6 DEF RunHandler
<1>7. ASSUME NEW r \in Requests, Collect(r) PROVE StaleHeld'
  BY <1>7 DEF Collect, Holding
<1>8. ASSUME NEW r \in Requests, Publish(r) PROVE StaleHeld'
  BY <1>8 DEF Publish, Holding
<1>9. ASSUME NEW r \in Requests, Drop(r) PROVE StaleHeld'
  BY <1>9 DEF Drop
<1>10. CASE Clear
  <2>1. \A r \in Requests :
           pc[r] \in {"running", "collected"} => r \in lastClear'.active
    BY <1>10 DEF Clear, Active, Leading
  <2>2. lastClear'.epoch = epoch /\ epoch' = epoch
    BY <1>10 DEF Clear
  <2>3. \A k \in Keys : cache'[k] = NONE
    BY <1>10 DEF Clear
  <2>4. pc' = pc /\ resp' = resp
    BY <1>10 DEF Clear
  <2>5. QED
    BY <2>1, <2>2, <2>3, <2>4
<1>11. CASE ReplaceHandlers \/ Tick \/ UNCHANGED vars
  BY <1>11, QuietSteps DEF Quiet
<1>12. QED
  BY <1>1, <1>2, <1>3, <1>4, <1>5, <1>6, <1>7, <1>8, <1>9, <1>10, <1>11
     DEF Next

(* Times only move forward, and the stamp taken when the body is complete   *)
(* is the one the entry keeps.                                              *)
LEMMA TimeStep ==
    TypeOK /\ Subscribed /\ Holding /\ Timely /\ Stamped /\ [Next]_vars
        => (Timely /\ Stamped)'
<1> SUFFICES ASSUME TypeOK, Subscribed, Holding, Timely, Stamped, [Next]_vars
             PROVE  (Timely /\ Stamped)'
    OBVIOUS
<1> USE NoneIsNoValue, LifetimesAreNat DEF TypeOK, Holding, Timely, Stamped, Response, Leading,
        mapVars, historyVars, configVars, timeVars, Arrive
<1>1. ASSUME NEW r \in Requests, CacheHit(r) PROVE (Timely /\ Stamped)'
  <2>1. Timely'
    BY <1>1 DEF CacheHit, Fresh
  <2>2. Stamped'
    BY <1>1 DEF CacheHit, Fresh
  <2>3. QED
    BY <2>1, <2>2
<1>2. ASSUME NEW r \in Requests, Join(r) PROVE (Timely /\ Stamped)'
  <2>1. Timely'
    BY <1>2 DEF Join
  <2>2. Stamped'
    BY <1>2 DEF Join
  <2>3. QED
    BY <2>1, <2>2
<1>3. ASSUME NEW r \in Requests, Lead(r) PROVE (Timely /\ Stamped)'
  <2>1. Timely'
    BY <1>3 DEF Lead
  <2>2. Stamped'
    BY <1>3 DEF Lead
  <2>3. QED
    BY <2>1, <2>2
<1>4. ASSUME NEW r \in Requests, Receive(r) PROVE (Timely /\ Stamped)'
  <2>1. Timely'
    BY <1>4 DEF Receive, Subscribed
  <2>2. Stamped'
    BY <1>4 DEF Receive, Subscribed
  <2>3. QED
    BY <2>1, <2>2
<1>5. ASSUME NEW r \in Requests, TakeOver(r) PROVE (Timely /\ Stamped)'
  <2>1. Timely'
    BY <1>5 DEF TakeOver
  <2>2. Stamped'
    BY <1>5 DEF TakeOver
  <2>3. QED
    BY <2>1, <2>2
<1>6. ASSUME NEW r \in Requests, RunHandler(r) PROVE (Timely /\ Stamped)'
  <2>1. Timely'
    BY <1>6 DEF RunHandler
  <2>2. Stamped'
    BY <1>6 DEF RunHandler
  <2>3. QED
    BY <2>1, <2>2
<1>7. ASSUME NEW r \in Requests, Collect(r) PROVE (Timely /\ Stamped)'
  <2>1. Timely'
    BY <1>7 DEF Collect
  <2>2. Stamped'
    BY <1>7 DEF Collect
  <2>3. QED
    BY <2>1, <2>2
<1>8. ASSUME NEW r \in Requests, Publish(r) PROVE (Timely /\ Stamped)'
  <2>1. Timely'
    BY <1>8 DEF Publish
  <2>2. Stamped'
    BY <1>8 DEF Publish
  <2>3. QED
    BY <2>1, <2>2
<1>9. ASSUME NEW r \in Requests, Drop(r) PROVE (Timely /\ Stamped)'
  <2>1. Timely'
    BY <1>9 DEF Drop
  <2>2. Stamped'
    BY <1>9 DEF Drop
  <2>3. QED
    BY <2>1, <2>2
<1>10. CASE Clear
  BY <1>10 DEF Clear
<1>11. CASE ReplaceHandlers \/ Tick \/ UNCHANGED vars
  BY <1>11, QuietSteps DEF Quiet
<1>12. QED
  BY <1>1, <1>2, <1>3, <1>4, <1>5, <1>6, <1>7, <1>8, <1>9, <1>10, <1>11
     DEF Next

(* Before the first clear() a request leads only when no sender is in its   *)
(* way and the cached answer, which is the last one, is dead.               *)
LEMMA SpacedStep ==
    IInv /\ [Next]_vars => Spaced'
<1> SUFFICES ASSUME IInv, [Next]_vars, clears' = 0 PROVE Spaced'
    BY DEF Spaced
<1>0. clears = 0
  <2>1. CASE Clear
    BY <2>1 DEF Clear, TypeOK, IInv
  <2>2. CASE ~ Clear
    BY <2>2 DEF Next, vars, historyVars, CacheHit, Join, Lead, Receive,
       TakeOver, RunHandler, Collect, Publish, Drop, ReplaceHandlers, Tick
  <2>3. QED
    BY <2>1, <2>2
<1> USE <1>0, NoneIsNoValue, LifetimesAreNat DEF IInv, TypeOK, Holding, Timely, Chosen,
        Outlives, Published, Active, Leading, Response, mapVars, historyVars,
        configVars, timeVars, Arrive
<1>1. ASSUME NEW r \in Requests, CacheHit(r) PROVE Spaced'
  <2>1. LeftBehind'
    BY <1>1 DEF CacheHit, Fresh, Spaced, LeftBehind
  <2>2. LastIsCached'
    BY <1>1 DEF CacheHit, Fresh, Spaced, LastIsCached, Apart
  <2>3. Apart'
    BY <1>1 DEF CacheHit, Fresh, Spaced, LeftBehind, LastIsCached, Apart
  <2>4. QED
    BY <2>1, <2>2, <2>3 DEF Spaced
<1>2. ASSUME NEW r \in Requests, Join(r) PROVE Spaced'
  <2>1. LeftBehind'
    BY <1>2 DEF Join, Fresh, Spaced, LeftBehind
  <2>2. LastIsCached'
    BY <1>2 DEF Join, Fresh, Spaced, LastIsCached, Apart
  <2>3. Apart'
    BY <1>2 DEF Join, Fresh, Spaced, LeftBehind, LastIsCached, Apart
  <2>4. QED
    BY <2>1, <2>2, <2>3 DEF Spaced
<1>3. ASSUME NEW r \in Requests, Lead(r) PROVE Spaced'
  <2>1. LeftBehind'
    BY <1>3 DEF Lead, Fresh, Spaced, LeftBehind
  <2>2. LastIsCached'
    BY <1>3 DEF Lead, Fresh, Spaced, LastIsCached, Apart
  <2>3. Apart'
    <3>1. SUFFICES ASSUME NEW s \in Requests, s # r, key[s] = key[r], Chosen(s)
                   PROVE  Outlives(s, r)'
      BY <1>3 DEF Lead, Spaced, Apart
    <3>2. ~ Active(s)
      BY <1>3, <3>1 DEF Lead, OneLeader
    <3>3. Published(s)
      BY <1>3, <3>1, <3>2 DEF Lead, Spaced, LeftBehind, PcValues
    <3>4. completed[s] + TTL[key[s]] <= now
      BY <1>3, <3>1, <3>3 DEF Lead, Fresh, Spaced, LastIsCached
    <3>5. QED
      BY <1>3, <3>1, <3>3, <3>4 DEF Lead
  <2>4. QED
    BY <2>1, <2>2, <2>3 DEF Spaced
<1>4. ASSUME NEW r \in Requests, Receive(r) PROVE Spaced'
  <2>1. LeftBehind'
    BY <1>4 DEF Receive, Spaced, LeftBehind
  <2>2. LastIsCached'
    BY <1>4 DEF Receive, Spaced, LastIsCached, Apart
  <2>3. Apart'
    BY <1>4 DEF Receive, Spaced, LeftBehind, LastIsCached, Apart
  <2>4. QED
    BY <2>1, <2>2, <2>3 DEF Spaced
<1>5. ASSUME NEW r \in Requests, TakeOver(r) PROVE Spaced'
  <2>1. LeftBehind'
    BY <1>5 DEF TakeOver, Subscribed, OneLeader, Spaced, LeftBehind
  <2>2. LastIsCached'
    BY <1>5 DEF TakeOver, Subscribed, OneLeader, Spaced, LastIsCached, Apart
  <2>3. Apart'
    BY <1>5 DEF TakeOver, Subscribed, OneLeader, Spaced, LeftBehind, LastIsCached, Apart
  <2>4. QED
    BY <2>1, <2>2, <2>3 DEF Spaced
<1>6. ASSUME NEW r \in Requests, RunHandler(r) PROVE Spaced'
  <2>1. LeftBehind'
    BY <1>6 DEF RunHandler, Spaced, LeftBehind
  <2>2. LastIsCached'
    BY <1>6 DEF RunHandler, Spaced, LastIsCached, Apart
  <2>3. Apart'
    BY <1>6 DEF RunHandler, Spaced, LeftBehind, LastIsCached, Apart
  <2>4. QED
    BY <2>1, <2>2, <2>3 DEF Spaced
<1>7. ASSUME NEW r \in Requests, Collect(r) PROVE Spaced'
  <2>1. LeftBehind'
    BY <1>7 DEF Collect, Spaced, LeftBehind
  <2>2. LastIsCached'
    BY <1>7 DEF Collect, Spaced, LastIsCached, Apart
  <2>3. Apart'
    BY <1>7 DEF Collect, Spaced, LeftBehind, LastIsCached, Apart
  <2>4. QED
    BY <2>1, <2>2, <2>3 DEF Spaced
<1>8. ASSUME NEW r \in Requests, Publish(r) PROVE Spaced'
  <2>1. LeftBehind'
    BY <1>8 DEF Publish, OneLeader, Spaced, LeftBehind
  <2>2. LastIsCached'
    BY <1>8 DEF Publish, OneLeader, Spaced, LastIsCached, Apart
  <2>3. Apart'
    BY <1>8 DEF Publish, OneLeader, Spaced, LeftBehind, LastIsCached, Apart
  <2>4. QED
    BY <2>1, <2>2, <2>3 DEF Spaced
<1>9. ASSUME NEW r \in Requests, Drop(r) PROVE Spaced'
  <2>1. LeftBehind'
    BY <1>9 DEF Drop, OneLeader, Spaced, LeftBehind
  <2>2. LastIsCached'
    BY <1>9 DEF Drop, OneLeader, Spaced, LastIsCached, Apart
  <2>3. Apart'
    BY <1>9 DEF Drop, OneLeader, Spaced, LeftBehind, LastIsCached, Apart
  <2>4. QED
    BY <2>1, <2>2, <2>3 DEF Spaced
<1>10. CASE Clear
  BY <1>10 DEF Clear
<1>11. CASE ReplaceHandlers \/ Tick \/ UNCHANGED vars
  <2>1. Quiet
    BY <1>11, QuietSteps
  <2>2. LeftBehind'
    BY <2>1 DEF Quiet, Spaced, LeftBehind
  <2>3. LastIsCached'
    BY <2>1 DEF Quiet, Spaced, LastIsCached
  <2>4. Apart'
    BY <2>1 DEF Quiet, Spaced, Apart
  <2>5. QED
    BY <2>2, <2>3, <2>4 DEF Spaced
<1>12. QED
  BY <1>1, <1>2, <1>3, <1>4, <1>5, <1>6, <1>7, <1>8, <1>9, <1>10, <1>11
     DEF Next

-----------------------------------------------------------------------------
LEMMA StepIInv == IInv /\ [Next]_vars => IInv'
BY TypeStep, ChannelStep, RightKeyStep, OneLeaderStep, StaleStep, TimeStep,
   SpacedStep DEF IInv

LEMMA Invariance == Spec => []IInv
BY InitIInv, StepIInv, PTL DEF Spec

(* Every variable keeps the type dedup.rs gives it.                         *)
THEOREM TypeCorrect == Spec => []TypeOK
<1>1. IInv => TypeOK
  BY DEF IInv
<1>2. QED
  BY <1>1, Invariance, PTL

(* No request is answered with the response to another path or body.        *)
THEOREM RepliesMatch == Spec => []ReplyMatchesKey
<1>1. IInv => ReplyMatchesKey
  BY DEF IInv, RightKey
<1>2. QED
  BY <1>1, Invariance, PTL

(* Until settings are reloaded, one request per key runs the handler, even  *)
(* when leaders are dropped: the sender left in the map excludes the others.*)
THEOREM OneHandlerPerKey == Spec => []SingleFlight
<1>1. IInv => SingleFlight
  <2> SUFFICES ASSUME IInv, clears = 0, NEW r \in Requests, NEW s \in Requests,
                      Active(r), Active(s), key[r] = key[s]
               PROVE  r = s
      BY DEF SingleFlight
  <2>1. inflight[key[r]] = r /\ inflight[key[s]] = s
    BY DEF IInv, OneLeader
  <2>2. QED
    BY <2>1
<1>2. QED
  BY <1>1, Invariance, PTL

(* A follower's channel has a value, is closed, or belongs to a request that*)
(* leads or was dropped: it never waits on one that has finished.           *)
THEOREM WaitersNotForgotten == Spec => []WaitersHaveSource
<1>1. IInv => WaitersHaveSource
  <2> SUFFICES ASSUME IInv, NEW r \in Requests, pc[r] = "waiting",
                      ~ Closed(sub[r])
               PROVE  Active(sub[r]) \/ pc[sub[r]] = "dropped"
      BY DEF WaitersHaveSource
  <2>1. sub[r] \in Requests
    BY DEF IInv, TypeOK, Subscribed
  <2>2. key[sub[r]] \in Keys /\ inflight[key[sub[r]]] = sub[r] /\ sub[r] # NONE
    BY <2>1, NoneIsNoValue DEF IInv, TypeOK, Closed
  <2>3. QED
    BY <2>2 DEF IInv, Registered
<1>2. QED
  BY <1>1, Invariance, PTL

(* After clear(), an answer of an older configuration gets back into the    *)
(* cache only through a request that was leading when the cache was cleared.*)
THEOREM ClearedCacheStaleness == Spec => []StaleOnlyFromInFlight
<1>1. IInv => StaleOnlyFromInFlight
  BY DEF IInv, StaleHeld
<1>2. QED
  BY <1>1, Invariance, PTL

(* An answer lives from the completion of its body for one TTL: the cache   *)
(* serves it no longer, and until the first reload no handler runs sooner.  *)
THEOREM PaidOncePerLifetime == Spec => []OncePerLifetime
<1>1. IInv => OncePerLifetime
  <2> SUFFICES ASSUME IInv PROVE OncePerLifetime
      OBVIOUS
  <2>1. \A r \in Requests :
           reply[r] # NONE /\ reply[r].by # r /\ sub[r] = NONE
               => arrived[r] < completed[reply[r].by] + TTL[key[r]]
    BY DEF IInv, Stamped
  <2>2. ASSUME clears = 0, NEW r \in Requests, NEW s \in Requests, r # s,
               key[r] = key[s], resp[r] # NONE, resp[s] # NONE
        PROVE  \/ Published(s) /\ completed[s] + TTL[key[r]] <= arrived[r]
               \/ Published(r) /\ completed[r] + TTL[key[r]] <= arrived[s]
    BY <2>2 DEF IInv, Spaced, Apart, Chosen, Outlives
  <2>3. QED
    BY <2>1, <2>2 DEF OncePerLifetime
<1>2. QED
  BY <1>1, Invariance, PTL
=============================================================================
