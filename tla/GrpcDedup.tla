----------------------------- MODULE GrpcDedup -----------------------------
(***************************************************************************)
(* The request deduplication layer of server-rs/src/dedup.rs and the       *)
(* settings reload of server-rs/src/api.rs that clears it.                 *)
(*                                                                         *)
(* A request is one run of dedup_middleware.  The first request for a key  *)
(* (gRPC path, body) registers a broadcast sender in `inflight` and leads; *)
(* requests for the key that find the sender subscribe to it and wait.     *)
(* The leader runs the handler, caches the response and sends it.  A       *)
(* request creates at most one broadcast channel in its life, so a channel *)
(* is named by the request that created it: the map holds its only sender, *)
(* and the channel is closed once inflight no longer maps to it.           *)
(*                                                                         *)
(* A request may be dropped at any of its await points (the client goes    *)
(* away and hyper drops the service future): nothing is undone.            *)
(***************************************************************************)
EXTENDS Integers, FiniteSets

CONSTANTS Requests,    \* runs of the middleware
          Keys,        \* (path, body) pairs of the methods registered with .dedup
          TTL,         \* the cache lifetime of a key's method
          NONE,        \* Rust's None
          MaxTime,     \* bound on the clock
          MaxReloads,  \* bound on the number of settings updates
          MaxDrops     \* bound on the number of cancelled requests

Response == [by: Requests,      \* whose handler run produced it
             epoch: Nat,        \* configuration the handler ran with
             created: Nat]      \* CachedResponse.created

ASSUME ConstantsAssumption ==
    /\ TTL \in [Keys -> Nat]
    /\ NONE \notin Requests
    /\ NONE \notin Response
    /\ MaxTime \in Nat
    /\ MaxReloads \in Nat
    /\ MaxDrops \in Nat

VARIABLES
    pc,         \* where each request is
    key,        \* the DedupKey of each request, fixed
    inflight,   \* Inner.inflight: key -> creator of the registered channel
    cache,      \* Inner.cache
    sub,        \* the channel a request subscribed to
    sent,       \* the value sent on each channel
    resp,       \* the response a leader has collected
    reply,      \* what a request was answered
    now,        \* the clock, in units of the TTLs
    epoch,      \* configuration of the handlers AiBus routes to
    reloading,  \* a settings update has replaced the handlers, not cleared yet
    lastClear,  \* history: configuration and leaders at the last clear()
    clears,     \* history: number of clears
    drops,      \* history: number of dropped requests
    arrived,    \* history: when a request hit the cache or led at once
    completed   \* history: when a leader had its handler's whole answer

vars == <<pc, key, inflight, cache, sub, sent, resp, reply, now, epoch,
          reloading, lastClear, clears, drops, arrived, completed>>

mapVars     == <<inflight, cache, sent>>
historyVars == <<lastClear, clears, drops>>
configVars  == <<now, epoch, reloading>>
timeVars    == <<arrived, completed>>

Leading == {"elected", "running", "collected"}
Active(r) == pc[r] \in Leading

-----------------------------------------------------------------------------
Init ==
    /\ pc = [r \in Requests |-> "idle"]
    /\ key \in [Requests -> Keys]
    /\ inflight = [k \in Keys |-> NONE]
    /\ cache = [k \in Keys |-> NONE]
    /\ sub = [r \in Requests |-> NONE]
    /\ sent = [r \in Requests |-> NONE]
    /\ resp = [r \in Requests |-> NONE]
    /\ reply = [r \in Requests |-> NONE]
    /\ now = 0
    /\ epoch = 0
    /\ reloading = FALSE
    /\ lastClear = [epoch |-> 0, active |-> {}]
    /\ clears = 0
    /\ drops = 0
    /\ arrived = [r \in Requests |-> 0]
    /\ completed = [r \in Requests |-> 0]

(* Mutated forms (named ..._) of the definitions below stand before them:   *)
(* each is a bug the properties have to notice.                             *)

Fresh(k) == cache[k] # NONE /\ now - cache[k].created < TTL[k]

Arrive(r) ==
    /\ arrived' = [arrived EXCEPT ![r] = now]
    /\ UNCHANGED completed

(* The locked block at the top of the middleware: a fresh cache entry       *)
(* answers the request, an expired one is removed.                          *)
CacheHit(r) ==
    /\ pc[r] = "idle"
    /\ Fresh(key[r])
    /\ pc' = [pc EXCEPT ![r] = "done"]
    /\ reply' = [reply EXCEPT ![r] = cache[key[r]]]
    /\ Arrive(r)
    /\ UNCHANGED <<key, mapVars, sub, resp, configVars, historyVars>>

Join_AnyBody(r) ==
    /\ pc[r] = "idle"
    /\ ~ Fresh(key[r])
    /\ \E k \in Keys : /\ inflight[k] # NONE
                       /\ sub' = [sub EXCEPT ![r] = inflight[k]]
    /\ pc' = [pc EXCEPT ![r] = "waiting"]
    /\ UNCHANGED <<key, mapVars, resp, reply, configVars, historyVars,
                   timeVars>>

Join(r) ==
    /\ pc[r] = "idle"
    /\ ~ Fresh(key[r])
    /\ inflight[key[r]] # NONE
    /\ cache' = [cache EXCEPT ![key[r]] = NONE]
    /\ sub' = [sub EXCEPT ![r] = inflight[key[r]]]
    /\ pc' = [pc EXCEPT ![r] = "waiting"]
    /\ UNCHANGED <<key, inflight, sent, resp, reply, configVars, historyVars,
                   timeVars>>

Lead_Unregistered(r) ==
    /\ pc[r] = "idle"
    /\ ~ Fresh(key[r])
    /\ inflight[key[r]] = NONE
    /\ pc' = [pc EXCEPT ![r] = "elected"]
    /\ Arrive(r)
    /\ UNCHANGED <<key, mapVars, sub, resp, reply, configVars, lastClear,
                   clears, drops>>

Lead(r) ==
    /\ pc[r] = "idle"
    /\ ~ Fresh(key[r])
    /\ inflight[key[r]] = NONE
    /\ cache' = [cache EXCEPT ![key[r]] = NONE]
    /\ inflight' = [inflight EXCEPT ![key[r]] = r]
    /\ pc' = [pc EXCEPT ![r] = "elected"]
    /\ Arrive(r)
    /\ UNCHANGED <<key, sent, sub, resp, reply, configVars, lastClear, clears,
                   drops>>

-----------------------------------------------------------------------------
(* A follower in rx.recv(): it is answered by the value sent, or, once the  *)
(* sender is gone without a value, takes over and registers a channel of    *)
(* its own if the key has none by then.                                     *)
Receive(r) ==
    /\ pc[r] = "waiting"
    /\ sent[sub[r]] # NONE
    /\ reply' = [reply EXCEPT ![r] = sent[sub[r]]]
    /\ pc' = [pc EXCEPT ![r] = "done"]
    /\ UNCHANGED <<key, mapVars, sub, resp, configVars, historyVars,
                   timeVars>>

Closed(c) == inflight[key[c]] # c

Register(r) ==
    inflight' = [inflight EXCEPT
                   ![key[r]] = IF inflight[key[r]] = NONE THEN r ELSE @]

TakeOver(r) ==
    /\ pc[r] = "waiting"
    /\ Closed(sub[r]) /\ sent[sub[r]] = NONE
    /\ Register(r)
    /\ pc' = [pc EXCEPT ![r] = "elected"]
    /\ UNCHANGED <<key, cache, sent, sub, resp, reply, configVars, lastClear,
                   clears, drops, timeVars>>

-----------------------------------------------------------------------------
(* The leader: next.run(request) picks the handlers current at that time,   *)
(* the body is collected and stamped, and the second locked block publishes *)
(* it to whatever channel the key has and to the cache.                     *)
RunHandler(r) ==
    /\ pc[r] = "elected"
    /\ resp' = [resp EXCEPT ![r] = [by |-> r, epoch |-> epoch, created |-> now]]
    /\ pc' = [pc EXCEPT ![r] = "running"]
    /\ UNCHANGED <<key, mapVars, sub, reply, configVars, historyVars,
                   timeVars>>

Collect_KeepsStamp(r) ==
    /\ pc[r] = "running"
    /\ completed' = [completed EXCEPT ![r] = now]
    /\ pc' = [pc EXCEPT ![r] = "collected"]
    /\ UNCHANGED <<key, mapVars, sub, resp, reply, configVars, historyVars,
                   arrived>>

Collect(r) ==
    /\ pc[r] = "running"
    /\ resp' = [resp EXCEPT ![r].created = now]
    /\ pc' = [pc EXCEPT ![r] = "collected"]
    /\ completed' = [completed EXCEPT ![r] = now]
    /\ UNCHANGED <<key, mapVars, sub, reply, configVars, historyVars,
                   arrived>>

Publish_CacheOnly(r) ==
    /\ pc[r] = "collected"
    /\ cache' = [cache EXCEPT ![key[r]] = resp[r]]
    /\ reply' = [reply EXCEPT ![r] = resp[r]]
    /\ pc' = [pc EXCEPT ![r] = "done"]
    /\ UNCHANGED <<key, inflight, sent, sub, resp, configVars, historyVars,
                   timeVars>>

Publish(r) ==
    LET k == key[r] IN
    /\ pc[r] = "collected"
    /\ sent' = IF inflight[k] = NONE THEN sent
               ELSE [sent EXCEPT ![inflight[k]] = resp[r]]
    /\ inflight' = [inflight EXCEPT ![k] = NONE]
    /\ cache' = [cache EXCEPT ![k] = resp[r]]
    /\ reply' = [reply EXCEPT ![r] = resp[r]]
    /\ pc' = [pc EXCEPT ![r] = "done"]
    /\ UNCHANGED <<key, sub, resp, configVars, historyVars,
                   timeVars>>

(* The request's future is dropped at an await: no guard removes its sender.*)
Drop(r) ==
    /\ drops < MaxDrops
    /\ pc[r] \in Leading \cup {"waiting"}
    /\ pc' = [pc EXCEPT ![r] = "dropped"]
    /\ drops' = drops + 1
    /\ UNCHANGED <<key, mapVars, sub, resp, reply, configVars, lastClear,
                   clears, timeVars>>

-----------------------------------------------------------------------------
(* update_settings: state.aibus.replace(..).await, then dedup.clear().await *)
ReplaceHandlers ==
    /\ ~ reloading
    /\ clears < MaxReloads
    /\ reloading' = TRUE
    /\ epoch' = epoch + 1
    /\ UNCHANGED <<pc, key, mapVars, sub, resp, reply, now, historyVars,
                   timeVars>>

Clear_InflightOnly ==
    /\ reloading
    /\ reloading' = FALSE
    /\ inflight' = [k \in Keys |-> NONE]
    /\ clears' = clears + 1
    /\ lastClear' = [epoch |-> epoch, active |-> {r \in Requests : Active(r)}]
    /\ UNCHANGED <<pc, key, cache, sent, sub, resp, reply, now, epoch, drops, timeVars>>

Clear ==
    /\ reloading
    /\ reloading' = FALSE
    /\ inflight' = [k \in Keys |-> NONE]
    /\ cache' = [k \in Keys |-> NONE]
    /\ clears' = clears + 1
    /\ lastClear' = [epoch |-> epoch, active |-> {r \in Requests : Active(r)}]
    /\ UNCHANGED <<pc, key, sent, sub, resp, reply, now, epoch, drops, timeVars>>

Tick ==
    /\ now < MaxTime
    /\ now' = now + 1
    /\ UNCHANGED <<pc, key, mapVars, sub, resp, reply, epoch, reloading,
                   historyVars,
                   timeVars>>

-----------------------------------------------------------------------------
Progress(r) ==
    Receive(r) \/ TakeOver(r) \/ RunHandler(r) \/ Collect(r) \/ Publish(r)

Next ==
    \/ \E r \in Requests :
          \/ CacheHit(r) \/ Join(r) \/ Lead(r)
          \/ Receive(r) \/ TakeOver(r)
          \/ RunHandler(r) \/ Collect(r) \/ Publish(r)
          \/ Drop(r)
    \/ ReplaceHandlers
    \/ Clear
    \/ Tick

Spec == Init /\ [][Next]_vars

(* Tokio keeps polling a request that can go on, and the handlers return.   *)
FairSpec == Spec /\ \A r \in Requests : WF_vars(Progress(r))

-----------------------------------------------------------------------------
PcValues == {"idle", "waiting", "done", "dropped"} \cup Leading

(* Every variable has the type dedup.rs gives it.                           *)
TypeOK ==
    /\ pc \in [Requests -> PcValues]
    /\ key \in [Requests -> Keys]
    /\ inflight \in [Keys -> Requests \cup {NONE}]
    /\ cache \in [Keys -> Response \cup {NONE}]
    /\ sub \in [Requests -> Requests \cup {NONE}]
    /\ sent \in [Requests -> Response \cup {NONE}]
    /\ resp \in [Requests -> Response \cup {NONE}]
    /\ reply \in [Requests -> Response \cup {NONE}]
    /\ now \in Nat
    /\ epoch \in Nat
    /\ reloading \in BOOLEAN
    /\ lastClear \in [epoch: Nat, active: SUBSET Requests]
    /\ clears \in Nat
    /\ drops \in Nat
    /\ arrived \in [Requests -> Nat]
    /\ completed \in [Requests -> Nat]

(* Until the first settings reload, at most one request per key runs the    *)
(* handler: the election in the first locked block and the removal in the   *)
(* second one leave no gap, even when leaders are dropped.                  *)
SingleFlight ==
    clears = 0 => \A r, s \in Requests :
                     Active(r) /\ Active(s) /\ key[r] = key[s] => r = s

(* A request is only ever answered with a response that a handler produced  *)
(* for its own path and body, whether from the cache, from a channel another*)
(* leader happened to publish to, or after a takeover.                      *)
ReplyMatchesKey ==
    \A r \in Requests : reply[r] # NONE => key[reply[r].by] = key[r]

(* A follower is waiting for something: its channel has a value, or is      *)
(* closed, or its creator still runs; the one exception is a channel whose  *)
(* creator was dropped and which nothing has removed from the map.          *)
WaitersHaveSource ==
    \A r \in Requests : pc[r] = "waiting" =>
        LET c == sub[r] IN
        \/ sent[c] # NONE
        \/ Closed(c)
        \/ Active(c)
        \/ pc[c] = "dropped"

(* After clear() the cache holds answers of an earlier configuration only   *)
(* if they come from requests whose handler was already chosen to lead when *)
(* the cache was cleared.                                                   *)
StaleOnlyFromInFlight ==
    \A k \in Keys :
        cache[k] # NONE /\ cache[k].epoch < lastClear.epoch
            => cache[k].by \in lastClear.active

(* The work a request led: its handler ran to its end and was published.    *)
Published(s) == pc[s] = "done" /\ resp[s] # NONE

(* An answer lives from the moment its body was complete until its method's *)
(* TTL later, however long its handler ran, its leader waited for the lock  *)
(* or often it was served.  A request the cache answered came while the     *)
(* answer lived; and until the first reload no two handlers run for a key   *)
(* unless the later one came when the answer of the earlier one was dead:   *)
(* a paid call is made once per lifetime.                                   *)
OncePerLifetime ==
    /\ \A r \in Requests :
          reply[r] # NONE /\ reply[r].by # r /\ sub[r] = NONE
              => arrived[r] < completed[reply[r].by] + TTL[key[r]]
    /\ clears = 0 =>
          \A r, s \in Requests :
             r # s /\ key[r] = key[s] /\ resp[r] # NONE /\ resp[s] # NONE =>
                 \/ Published(s) /\ completed[s] + TTL[key[r]] <= arrived[r]
                 \/ Published(r) /\ completed[r] + TTL[key[r]] <= arrived[s]

(* The one way in which a follower may be left without an answer.           *)
LeaderDropped(r) == pc[r] = "waiting" /\ pc[sub[r]] = "dropped"

(* Every follower is eventually answered or dropped by its own client,      *)
(* unless its leader was dropped: also when clear() closes the channel it   *)
(* waits on.                                                                *)
EveryWaiterAnswered ==
    \A r \in Requests : pc[r] = "waiting" ~> pc[r] \in {"done", "dropped"} \/ LeaderDropped(r)

(* "Original request dropped without sending. Take over as leader": when    *)
(* the leader's future is dropped, a follower is not left waiting.          *)
FollowerTakesOver ==
    \A r \in Requests :
        pc[r] = "waiting" /\ pc[sub[r]] = "dropped"
            ~> pc[r] \in {"elected", "done", "dropped"}

(* "Concurrent identical requests coalesce onto a single handler            *)
(* invocation": requests elected since the last clear().                    *)
CoalesceOntoOne ==
    \A r, s \in Requests :
        /\ Active(r) /\ Active(s) /\ key[r] = key[s]
        /\ {r, s} \cap lastClear.active = {}
        => r = s
=============================================================================
