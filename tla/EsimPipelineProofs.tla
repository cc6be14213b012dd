------------------------- MODULE EsimPipelineProofs -------------------------
(* Proofs about the eSIM pipeline, for any number of intents, overlapping   *)
(* or not, whatever events are lost: types, and that a result fits its      *)
(* request.  For intents that do not overlap: a request hears of its own    *)
(* operation only, and a download ends once.                                *)
EXTENDS EsimPipeline, TLAPS

CallbackTypes == {"sysprop_update", "profile_mutation_result",
                  "download_progress", "download_result"}

ACallback == {c \in Callback : c.type \in CallbackTypes}
ACallbackEvent == {e \in Event : e.type \in CallbackTypes}

(* An event of a callback may be torn; the announcement of an operation     *)
(* with an id has that operation's action.                                  *)
AStart == {e \in Event : e.type = "action_started" /\ (e.req # NONE => e.action = Action[e.req])}

(* What the bridge is sent under the id of o.                               *)
ForRequest(o) == {e \in Event : e.type \in ResultTypes =>
                                    e.type = ResultType(Action[o]) /\ e.action = Action[o]}

ContextOK ==
    /\ context \in [action: Actions \cup {NONE}, req: Named \cup {NONE}]
    /\ starting \in [op: Ops \cup {NONE}, done: 0 .. 5]
    /\ starting.op # NONE /\ starting.done >= 4 =>
           context.action = Action[starting.op] /\ context.req = Id(starting.op)

CallbacksOK ==
    /\ todo = [o \in Ops |-> todo[o]] /\ half = [o \in Ops |-> half[o]]
    /\ \A o \in Ops :
          /\ todo[o] # NONE => todo[o] \in Seq(ACallback)
          /\ half[o] # NONE => /\ half[o] \in [read: BOOLEAN, event: ACallbackEvent]
                               /\ todo[o] \in Seq(ACallback)

QueueOK == events \in Seq(ACallbackEvent \cup AStart) /\ lost \in 0 .. MaxLost

CurrentOK == current.req # NONE => current.action = Action[current.req]

GotOK == \A o \in Ops : got[o] \in Seq(ForRequest(o))

HistoryOK == begun \in Seq(Ops) /\ overlapped \in BOOLEAN /\ failed \subseteq Ops

IInv == ContextOK /\ CallbacksOK /\ QueueOK /\ StoreTypeOK /\ CurrentOK /\ GotOK /\ HistoryOK

-----------------------------------------------------------------------------
LEMMA NoneIsNothing == NONE \notin Ops /\ NONE \notin Actions /\ Named \subseteq Ops
BY EsimEventsAssumption DEF Values

LEMMA CallbacksAreNoResults ==
    /\ CallbackTypes \cap ResultTypes = {} /\ "action_started" \notin ResultTypes
    /\ CallbackTypes \subseteq Types /\ "action_started" \in Types
BY DEF CallbackTypes, ResultTypes, ResultType, Getters, Types

LEMMA OperationType == \A a : OperationOf(a) \in Operations
BY DEF OperationOf, Operations

LEMMA MakeEventType ==
    ASSUME NEW cb \in Callback, NEW a \in Actions \cup {NONE}, NEW r \in Ops \cup {NONE},
           NEW of \in SUBSET Ops
    PROVE  /\ MakeEvent(cb, a, r, of) \in Event
           /\ MakeEvent(cb, a, r, of).type = cb.type
           /\ MakeEvent(cb, a, r, of).action = a
           /\ MakeEvent(cb, a, r, of).req = r
BY DEF MakeEvent, Callback, Event

LEMMA CbType ==
    ASSUME NEW type \in CallbackTypes, NEW key \in Keys \cup {NONE},
           NEW index \in 0 .. MaxProfiles, NEW value \in Values \cup {NONE}
    PROVE  Cb(type, key, index, value) \in ACallback
BY CallbacksAreNoResults DEF Cb, Callback, ACallback

(* The LPA calls back with events of those four types only.                 *)
LEMMA ScriptParts ==
    /\ \A v \in Values : LastIntent(v) \in ACallback
    /\ \A k \in Keys, i \in 0 .. MaxProfiles : Sysprop(k, i, NONE) \in ACallback
    /\ \A k \in Operations \cup {NONE}, v \in Values : Mutation(k, v) \in ACallback
    /\ \A v \in Values \cup {NONE} : Progress(v) \in ACallback
    /\ \A v \in Values : DownloadResult(v) \in ACallback
<1> USE EsimEventsAssumption
<1>1. "sysprop_update" \in CallbackTypes /\ "profile_mutation_result" \in CallbackTypes
      /\ "download_progress" \in CallbackTypes /\ "download_result" \in CallbackTypes
      BY DEF CallbackTypes
<1>2. "lastintent.result" \in Keys /\ Operations \subseteq Keys /\ 0 \in 0 .. MaxProfiles
      BY DEF Keys
<1>3. ASSUME NEW v \in Values PROVE LastIntent(v) \in ACallback
  <2>1. LastIntent(v) = Cb("sysprop_update", "lastintent.result", 0, v)
        BY DEF LastIntent, Sysprop
  <2> QED BY <2>1, <1>1, <1>2, CbType
<1>4. ASSUME NEW k \in Keys, NEW i \in 0 .. MaxProfiles PROVE Sysprop(k, i, NONE) \in ACallback
      BY <1>1, CbType DEF Sysprop
<1>5. ASSUME NEW k \in Operations \cup {NONE}, NEW v \in Values PROVE Mutation(k, v) \in ACallback
      BY <1>1, <1>2, CbType DEF Mutation
<1>6. ASSUME NEW v \in Values \cup {NONE} PROVE Progress(v) \in ACallback
      BY <1>1, <1>2, CbType DEF Progress
<1>7. ASSUME NEW v \in Values PROVE DownloadResult(v) \in ACallback
      BY <1>1, <1>2, CbType DEF DownloadResult
<1> QED BY <1>3, <1>4, <1>5, <1>6, <1>7

LEMMA SuccessesOf ==
    ASSUME NEW o, NEW a, a = Action[o]
    PROVE  /\ a = "getProfiles" =>
                 Successes(o) = {s \in [1 .. ProfileCount[o] + 2 -> Reports(o)] : IsInjective(s)}
           /\ a = "getEID" => Successes(o) = {<<LastIntent(a), Sysprop("EID", 0, NONE)>>}
           /\ a \in Getters \ {"getEID"} =>
                 Successes(o) = {<<LastIntent(a), Sysprop(ValueKey[a], 0, NONE)>>,
                                 <<LastIntent("No Active profile")>>}
           /\ a \in Downloads =>
                 Successes(o) =
                    {<<DownloadResult(v), DownloadResult("error")>> : v \in {"error", "disallowed_profile"}}
                    \cup {<<Progress("finished"), Mutation("enable", v), Progress(NONE)>> :
                             v \in {"success", "error"}}
                    \cup {<<Progress("finished"), Mutation(NONE, "error"), DownloadResult("error")>>}
<1>1. /\ "getProfiles" \notin Getters \cup Mutations \cup Downloads
      /\ Getters \cap Mutations = {} /\ Getters \cap Downloads = {} /\ Mutations \cap Downloads = {}
      /\ "getEID" \in Getters
      BY DEF Getters, Mutations, Downloads, Verify
<1>2. CASE a = "getProfiles" BY <1>1, <1>2 DEF Successes, Getters, Mutations, Downloads, Verify
<1>3. CASE a = "getEID" BY <1>1, <1>3 DEF Successes, Getters, Mutations, Downloads, Verify
<1>4. CASE a \in Getters \ {"getEID"}
      BY <1>1, <1>4 DEF Successes, Getters, Mutations, Downloads, Verify
<1>5. CASE a \in Downloads BY <1>1, <1>5 DEF Successes, Getters, Mutations, Downloads, Verify
<1> QED BY <1>1, <1>2, <1>3, <1>4, <1>5

LEMMA MutationScripts ==
    ASSUME NEW o, NEW a, a = Action[o], a \in Mutations, NEW s \in Successes(o)
    PROVE  \E k \in {OperationOf(a), NONE, "delete"}, v \in {"success", "error", "protected"} :
               s = <<Mutation(k, v)>>
BY DEF Successes, Getters, Mutations, Downloads, Verify

LEMMA ShortSequences ==
    ASSUME NEW S, NEW x \in S, NEW y \in S, NEW z \in S
    PROVE  <<x>> \in Seq(S) /\ <<x, y>> \in Seq(S) /\ <<x, y, z>> \in Seq(S)
OBVIOUS

LEMMA ScriptType ==
    ASSUME NEW o \in Ops, NEW s \in Successes(o) \cup Failures(o)
    PROVE  s \in Seq(ACallback)
<1>0. PICK a \in Actions : a = Action[o] BY EsimEventsAssumption
<1>2. /\ "success" \in Values /\ "error" \in Values /\ "protected" \in Values
      /\ "failed" \in Values /\ "finished" \in Values /\ "No Active profile" \in Values
      /\ "disallowed_profile" \in Values /\ Actions \subseteq Values
      /\ "enable" \in Operations /\ "delete" \in Operations
      /\ "EID" \in Keys /\ "Profile" \in Keys /\ "NmbrOfProfiles" \in Keys
      BY DEF Values, Operations, Keys
<1>3. ProfileCount[o] \in 0 .. MaxProfiles /\ MaxProfiles \in Nat BY EsimEventsAssumption
<1>4. CASE s \in Failures(o)
  <2>1. s = <<LastIntent("failed")>> BY <1>4 DEF Failures
  <2>2. LastIntent("failed") \in ACallback BY <1>2, ScriptParts
  <2> QED BY <2>1, <2>2
<1>5. CASE s \in Successes(o) /\ a = "getProfiles"
  <2>1. Reports(o) \subseteq ACallback
    <3>1. ASSUME NEW i \in 0 .. ProfileCount[o] - 1 PROVE Sysprop("Profile", i, NONE) \in ACallback
      <4>1. i \in 0 .. MaxProfiles BY <1>3
      <4> QED BY <4>1, <1>2, ScriptParts
    <3>2. Sysprop("NmbrOfProfiles", ProfileCount[o], NONE) \in ACallback
          BY <1>2, <1>3, ScriptParts
    <3>3. LastIntent("getProfiles") \in ACallback BY <1>5, <1>2, ScriptParts
    <3> QED BY <3>1, <3>2, <3>3 DEF Reports
  <2>2. s \in [1 .. ProfileCount[o] + 2 -> Reports(o)] BY <1>5, <1>0, SuccessesOf
  <2>3. s \in [1 .. ProfileCount[o] + 2 -> ACallback] BY <2>1, <2>2
  <2>4. ProfileCount[o] + 2 \in Nat BY <1>3
  <2> QED BY <2>3, <2>4
<1>6. CASE s \in Successes(o) /\ a = "getEID"
  <2>1. s = <<LastIntent(a), Sysprop("EID", 0, NONE)>> BY <1>6, <1>0, SuccessesOf
  <2>2. LastIntent(a) \in ACallback BY <1>2, ScriptParts
  <2>3. Sysprop("EID", 0, NONE) \in ACallback
    <3>1. 0 \in 0 .. MaxProfiles BY <1>3
    <3> QED BY <3>1, <1>2, ScriptParts
  <2> QED BY <2>1, <2>2, <2>3, ShortSequences
<1>7. CASE s \in Successes(o) /\ a \in Getters \ {"getEID"}
  <2>1. ValueKey[a] \in Keys BY <1>7 DEF ValueKey, Keys, Getters
  <2>2. LastIntent(a) \in ACallback BY <1>2, ScriptParts
  <2>3. LastIntent("No Active profile") \in ACallback BY <1>2, ScriptParts
  <2>4. Sysprop(ValueKey[a], 0, NONE) \in ACallback
    <3>1. 0 \in 0 .. MaxProfiles BY <1>3
    <3> QED BY <3>1, <2>1, ScriptParts
  <2>5. Successes(o) = {<<LastIntent(a), Sysprop(ValueKey[a], 0, NONE)>>,
                        <<LastIntent("No Active profile")>>}
        BY <1>7, <1>0, SuccessesOf
  <2>6. CASE s = <<LastIntent(a), Sysprop(ValueKey[a], 0, NONE)>>
        BY <2>2, <2>4, <2>6, ShortSequences
  <2>7. CASE s = <<LastIntent("No Active profile")>> BY <2>3, <2>7, ShortSequences
  <2> QED BY <1>7, <2>5, <2>6, <2>7
<1>8. CASE s \in Successes(o) /\ a \in Mutations
  <2>1. OperationOf(a) \in Operations BY OperationType
  <2>2. a \in Mutations /\ s \in Successes(o) BY <1>8
  <2>3. \E k \in {OperationOf(a), NONE, "delete"}, v \in {"success", "error", "protected"} :
            s = <<Mutation(k, v)>>
        BY <1>0, <2>2, MutationScripts
  <2>4. PICK k \in Operations \cup {NONE}, v \in Values : s = <<Mutation(k, v)>>
        BY <2>1, <2>3, <1>2
  <2>5. Mutation(k, v) \in ACallback BY ScriptParts
  <2> QED BY <2>4, <2>5, ShortSequences
<1>9. CASE s \in Successes(o) /\ a \in Downloads
  <2>0. Successes(o) =
           {<<DownloadResult(v), DownloadResult("error")>> : v \in {"error", "disallowed_profile"}}
           \cup {<<Progress("finished"), Mutation("enable", v), Progress(NONE)>> :
                    v \in {"success", "error"}}
           \cup {<<Progress("finished"), Mutation(NONE, "error"), DownloadResult("error")>>}
        BY <1>9, <1>0, SuccessesOf
  <2>1. \/ \E v \in Values : s = <<DownloadResult(v), DownloadResult("error")>>
        \/ \E v \in Values : s = <<Progress("finished"), Mutation("enable", v), Progress(NONE)>>
        \/ s = <<Progress("finished"), Mutation(NONE, "error"), DownloadResult("error")>>
        BY <1>2, <1>9, <2>0
  <2>2. Progress("finished") \in ACallback /\ Progress(NONE) \in ACallback BY <1>2, ScriptParts
  <2>3. \A v \in Values : Mutation("enable", v) \in ACallback BY <1>2, ScriptParts
  <2>4. \A v \in Values : DownloadResult(v) \in ACallback BY ScriptParts
  <2>5. Mutation(NONE, "error") \in ACallback /\ DownloadResult("error") \in ACallback
        BY <1>2, ScriptParts
  <2>6. CASE \E v \in Values : s = <<DownloadResult(v), DownloadResult("error")>>
        BY <2>4, <2>5, <2>6, ShortSequences
  <2>7. CASE \E v \in Values : s = <<Progress("finished"), Mutation("enable", v), Progress(NONE)>>
        BY <2>2, <2>3, <2>7, ShortSequences
  <2>8. CASE s = <<Progress("finished"), Mutation(NONE, "error"), DownloadResult("error")>>
        BY <2>2, <2>5, <2>8, ShortSequences
  <2> QED BY <2>1, <2>6, <2>7, <2>8
<1>10. s \in Failures(o) \/ s \in Successes(o) OBVIOUS
<1>11. a = "getProfiles" \/ a \in Getters \cup Mutations \cup Downloads BY DEF Actions
<1> QED BY <1>4, <1>5, <1>6, <1>7, <1>8, <1>9, <1>10, <1>11

-----------------------------------------------------------------------------
(* The store.                                                               *)
LEMMA SentOK ==
    ASSUME StoreTypeOK, GotOK, NEW e \in Event, Sent(e),
           e.req # NONE /\ e.type \in ResultTypes =>
               e.type = ResultType(Action[e.req]) /\ e.action = Action[e.req]
    PROVE  got' \in [Ops -> Seq(Event)] /\ GotOK'
<1>1. CASE e.req = NONE
  <2>1. got' = got BY <1>1 DEF Sent
  <2> QED BY <2>1 DEF GotOK, StoreTypeOK, ForRequest
<1>2. CASE e.req # NONE
  <2>1. e.req \in Ops BY <1>2 DEF Event
  <2>2. got' = [got EXCEPT ![e.req] = Append(@, e)] BY <1>2 DEF Sent
  <2>3. e \in ForRequest(e.req) BY <1>2 DEF ForRequest
  <2>4. got \in [Ops -> Seq(Event)] BY DEF StoreTypeOK
  <2>5. got[e.req] \in Seq(Event) /\ got[e.req] \in Seq(ForRequest(e.req))
        BY <2>1, <2>4 DEF GotOK
  <2>6. Append(got[e.req], e) \in Seq(Event) /\ Append(got[e.req], e) \in Seq(ForRequest(e.req))
        BY <2>3, <2>5
  <2>7. got' \in [Ops -> Seq(Event)] BY <2>1, <2>2, <2>4, <2>6
  <2>8. ASSUME NEW o \in Ops PROVE got'[o] \in Seq(ForRequest(o))
    <3>1. CASE o = e.req BY <3>1, <2>1, <2>2, <2>4, <2>6
    <3>2. CASE o # e.req BY <3>2, <2>1, <2>2, <2>4 DEF GotOK
    <3> QED BY <3>1, <3>2
  <2> QED BY <2>7, <2>8 DEF GotOK, ForRequest
<1> QED BY <1>1, <1>2

LEMMA ActionStartedOK ==
    ASSUME StoreTypeOK, CurrentOK, GotOK, NEW e \in ACallbackEvent \cup AStart, ActionStarted(e)
    PROVE  StoreTypeOK' /\ CurrentOK' /\ GotOK'
<1>1. e \in AStart /\ e \in Event
      BY DEF ActionStarted, ACallbackEvent, CallbackTypes, AStart
<1>2. e.type \notin ResultTypes BY <1>1, CallbacksAreNoResults DEF AStart
<1>3. Sent(e) BY DEF ActionStarted
<1>4. got' \in [Ops -> Seq(Event)] /\ GotOK' BY <1>1, <1>2, <1>3, SentOK
<1>5. current' = [action |-> e.action, req |-> e.req] BY DEF ActionStarted
<1>6. e.action \in Actions \cup {NONE} /\ e.req \in Ops \cup {NONE} BY <1>1 DEF Event
<1>7. CurrentOK' BY <1>1, <1>5 DEF CurrentOK, AStart
<1>8. current' \in [action: Actions \cup {NONE}, req: Ops \cup {NONE}] BY <1>5, <1>6
<1>9. /\ lastIntent' \in [value: Values \cup {NONE}, of: SUBSET Ops]
      /\ profiles' \in [Indices -> SUBSET Ops]
      BY DEF ActionStarted, StoreTypeOK
<1>10. count' \in [n: 0 .. MaxProfiles, of: SUBSET Ops]
       BY EsimEventsAssumption DEF ActionStarted, StoreTypeOK
<1>11. imei' \subseteq Ops BY DEF ActionStarted, StoreTypeOK
<1>12. download' \in [req: Ops \cup {NONE}, action: Downloads \cup {NONE}, ended: BOOLEAN]
       BY <1>6 DEF ActionStarted, StoreTypeOK
<1> QED BY <1>4, <1>7, <1>8, <1>9, <1>10, <1>11, <1>12 DEF StoreTypeOK

LEMMA ForwardOK ==
    ASSUME StoreTypeOK, CurrentOK, GotOK, NEW e \in ACallbackEvent \cup AStart,
           ForwardOfDownload(e)
    PROVE  StoreTypeOK' /\ CurrentOK' /\ GotOK'
<1>1. e \in Event BY DEF ACallbackEvent, AStart
<1>2. e.type \notin ResultTypes
      BY CallbacksAreNoResults DEF ForwardOfDownload, CallbackTypes
<1>3. got' = got \/ Sent(e) BY DEF ForwardOfDownload
<1>4. got' \in [Ops -> Seq(Event)] /\ GotOK'
  <2>1. CASE got' = got BY <2>1 DEF GotOK, StoreTypeOK, ForRequest
  <2>2. CASE Sent(e) BY <2>2, <1>1, <1>2, SentOK
  <2> QED BY <1>3, <2>1, <2>2
<1>5. UNCHANGED <<current, lastIntent, profiles, count, imei>> BY DEF ForwardOfDownload
<1>6. download' \in [req: Ops \cup {NONE}, action: Downloads \cup {NONE}, ended: BOOLEAN]
  <2>1. (download.ended \/ IsTerminalDownloadEvent(e)) \in BOOLEAN OBVIOUS
  <2>2. \/ download' = download
        \/ download' = [download EXCEPT !.ended = download.ended \/ IsTerminalDownloadEvent(e)]
        BY DEF ForwardOfDownload
  <2>3. download \in [req: Ops \cup {NONE}, action: Downloads \cup {NONE}, ended: BOOLEAN]
        BY DEF StoreTypeOK
  <2>4. PICK b \in BOOLEAN : download' = download \/ download' = [download EXCEPT !.ended = b]
        BY <2>1, <2>2
  <2> QED BY <2>3, <2>4
<1> QED BY <1>4, <1>5, <1>6 DEF StoreTypeOK, CurrentOK

(* Whatever is put together is of the kind of the current action.           *)
LEMMA SynthesizedOK ==
    ASSUME NEW c \in [action: Actions \cup {NONE}, req: Ops \cup {NONE}],
           c.action \in {"getProfiles"} \cup Getters,
           c.req # NONE => c.action = Action[c.req],
           NEW v \in {"success", "no_active_profile"}, NEW of \in SUBSET Ops,
           NEW s, s = [type |-> ResultType(c.action), key |-> NONE, index |-> 0, value |-> v,
                       action |-> c.action, req |-> c.req, of |-> of]
    PROVE  /\ s \in Event
           /\ s.req # NONE => s.type = ResultType(Action[s.req]) /\ s.action = Action[s.req]
<1>1. ResultType(c.action) \in Types BY DEF Types, ResultTypes
<1>2. v \in Values BY DEF Values
<1>3. 0 \in 0 .. MaxProfiles BY EsimEventsAssumption
<1> QED BY <1>1, <1>2, <1>3 DEF Event

LEMMA SyspropUpdateOK ==
    ASSUME StoreTypeOK, CurrentOK, GotOK, NEW e \in ACallbackEvent \cup AStart, SyspropUpdate(e)
    PROVE  StoreTypeOK' /\ CurrentOK' /\ GotOK'
<1>1. e \in Event BY DEF ACallbackEvent, AStart
<1>2. /\ e.value \in Values \cup {NONE} /\ e.of \in SUBSET Ops /\ e.index \in 0 .. MaxProfiles
      BY <1>1 DEF Event
<1>3. current' = current /\ download' = download BY DEF SyspropUpdate
<1>4. current \in [action: Actions \cup {NONE}, req: Ops \cup {NONE}] BY DEF StoreTypeOK
<1>5. lastIntent' \in [value: Values \cup {NONE}, of: SUBSET Ops]
      BY <1>2 DEF SyspropUpdate, StoreTypeOK
<1>6. profiles' \in [Indices -> SUBSET Ops] BY <1>2 DEF SyspropUpdate, StoreTypeOK
<1>7. count' \in [n: 0 .. MaxProfiles, of: SUBSET Ops] BY <1>2 DEF SyspropUpdate, StoreTypeOK
<1>8. imei' \subseteq Ops BY <1>2 DEF SyspropUpdate, StoreTypeOK
<1>9. ProfilesOf' \subseteq Ops
  <2>1. ASSUME NEW i \in 0 .. count'.n - 1 PROVE profiles'[i] \subseteq Ops
    <3>1. i \in Indices BY <1>7, EsimEventsAssumption DEF Indices
    <3> QED BY <3>1, <1>6
  <2>2. count'.of \subseteq Ops BY <1>7
  <2> QED BY <2>1, <2>2 DEF ProfilesOf
<1>10. \/ got' = got
       \/ /\ current.action \in {"getProfiles"} \cup Getters
          /\ \E v \in {"success", "no_active_profile"}, of \in SUBSET Ops :
                 Sent([type |-> ResultType(current.action), key |-> NONE, index |-> 0,
                       value |-> v, action |-> current.action, req |-> current.req, of |-> of])
  <2>1. CASE ProfilesReady(e)' 
    <3>1. current.action = "getProfiles" BY <2>1, <1>3 DEF ProfilesReady
    <3>2. Sent(Synthesized("success", ProfilesOf)') BY <2>1 DEF SyspropUpdate
    <3>3. ProfilesOf' \cup lastIntent'.of \in SUBSET Ops BY <1>5, <1>9
    <3>4. Synthesized("success", ProfilesOf)' =
             [type |-> ResultType(current.action), key |-> NONE, index |-> 0,
              value |-> "success", action |-> current.action, req |-> current.req,
              of |-> ProfilesOf' \cup lastIntent'.of]
          BY <1>3 DEF Synthesized
    <3> QED BY <3>1, <3>2, <3>3, <3>4
  <2>2. CASE ~ ProfilesReady(e)' /\ ValueReady(e)'
    <3>1. current.action \in Getters BY <2>2, <1>3 DEF ValueReady
    <3>2. Sent(Synthesized("success", e.of \cup imei)') BY <2>2 DEF SyspropUpdate
    <3>3. e.of \cup imei' \cup lastIntent'.of \in SUBSET Ops BY <1>2, <1>5, <1>8
    <3>4. Synthesized("success", e.of \cup imei)' =
             [type |-> ResultType(current.action), key |-> NONE, index |-> 0,
              value |-> "success", action |-> current.action, req |-> current.req,
              of |-> e.of \cup imei' \cup lastIntent'.of]
          BY <1>3 DEF Synthesized
    <3> QED BY <3>1, <3>2, <3>3, <3>4
  <2>3. CASE ~ ProfilesReady(e)' /\ ~ ValueReady(e)' /\ NoActiveProfile(e)'
    <3>1. current.action \in Getters BY <2>3, <1>3 DEF NoActiveProfile
    <3>2. Sent(Synthesized("no_active_profile", {})') BY <2>3 DEF SyspropUpdate
    <3>3. {} \cup lastIntent'.of \in SUBSET Ops BY <1>5
    <3>4. Synthesized("no_active_profile", {})' =
             [type |-> ResultType(current.action), key |-> NONE, index |-> 0,
              value |-> "no_active_profile", action |-> current.action, req |-> current.req,
              of |-> {} \cup lastIntent'.of]
          BY <1>3 DEF Synthesized
    <3> QED BY <3>1, <3>2, <3>3, <3>4
  <2>4. CASE ~ ProfilesReady(e)' /\ ~ ValueReady(e)' /\ ~ NoActiveProfile(e)'
        BY <2>4 DEF SyspropUpdate
  <2> QED BY <2>1, <2>2, <2>3, <2>4
<1>11. got' \in [Ops -> Seq(Event)] /\ GotOK'
  <2>1. CASE got' = got BY <2>1 DEF GotOK, StoreTypeOK, ForRequest
  <2>2. CASE got' # got
    <3>1. PICK v \in {"success", "no_active_profile"}, of \in SUBSET Ops :
             /\ current.action \in {"getProfiles"} \cup Getters
             /\ Sent([type |-> ResultType(current.action), key |-> NONE, index |-> 0,
                      value |-> v, action |-> current.action, req |-> current.req, of |-> of])
          BY <2>2, <1>10
    <3>2. PICK s : s = [type |-> ResultType(current.action), key |-> NONE, index |-> 0, value |-> v,
                        action |-> current.action, req |-> current.req, of |-> of]
          OBVIOUS
    <3>3. /\ s \in Event
          /\ s.req # NONE => s.type = ResultType(Action[s.req]) /\ s.action = Action[s.req]
          BY <1>4, <3>1, <3>2, SynthesizedOK DEF CurrentOK
    <3>4. Sent(s) BY <3>1, <3>2
    <3> QED BY <3>3, <3>4, SentOK
  <2> QED BY <2>1, <2>2
<1> QED BY <1>3, <1>5, <1>6, <1>7, <1>8, <1>11 DEF StoreTypeOK, CurrentOK

LEMMA OnEventOK ==
    ASSUME StoreTypeOK, CurrentOK, GotOK, NEW e \in ACallbackEvent \cup AStart, OnEvent(e)
    PROVE  StoreTypeOK' /\ CurrentOK' /\ GotOK'
BY ActionStartedOK, SyspropUpdateOK, ForwardOK DEF OnEvent

-----------------------------------------------------------------------------
(* The hook.                                                                *)
LEMMA WritesOf ==
    ASSUME NEW o \in Ops, NEW n \in 0 .. 3, context \in [action: Actions \cup {NONE}, req: Named \cup {NONE}]
    PROVE  /\ Writes(o)[n + 1] \in [action: Actions \cup {NONE}, req: Named \cup {NONE}]
           /\ n + 1 = 4 => Writes(o)[n + 1] = [action |-> Action[o], req |-> Id(o)]
<1>1. Action[o] \in Actions BY EsimEventsAssumption
<1>2. Id(o) \in Named \cup {NONE} BY DEF Id
<1>3. context.req \in Named \cup {NONE} OBVIOUS
<1>4. CASE n = 0 BY <1>4, <1>3 DEF Writes
<1>5. CASE n = 1 BY <1>5 DEF Writes
<1>6. CASE n = 2 BY <1>6, <1>1 DEF Writes
<1>7. CASE n = 3 BY <1>7, <1>1, <1>2 DEF Writes
<1> QED BY <1>4, <1>5, <1>6, <1>7

LEMMA StartCommandOK ==
    ASSUME IInv, NEW o \in Ops, StartCommand(o)
    PROVE  ContextOK' /\ CallbacksOK' /\ QueueOK'
<1>1. starting' = [op |-> o, done |-> 0] /\ UNCHANGED <<context, todo, half, events, lost>>
      BY DEF StartCommand
<1> QED BY <1>1 DEF IInv, ContextOK, CallbacksOK, QueueOK

LEMMA WriteContextOK ==
    ASSUME IInv, WriteContext
    PROVE  ContextOK' /\ CallbacksOK' /\ QueueOK'
<1>1. PICK o \in Ops, n \in 0 .. 3 : starting = [op |-> o, done |-> n]
      BY DEF IInv, ContextOK, WriteContext
<1>2. context' = Writes(o)[n + 1] BY <1>1 DEF WriteContext
<1>3. starting' = [op |-> o, done |-> n + 1] BY <1>1 DEF WriteContext
<1>4. ContextOK'
  <2>1. context \in [action: Actions \cup {NONE}, req: Named \cup {NONE}]
        BY DEF IInv, ContextOK
  <2>2. context' \in [action: Actions \cup {NONE}, req: Named \cup {NONE}]
        BY <1>2, <2>1, WritesOf
  <2>3. n + 1 = 4 => context' = [action |-> Action[o], req |-> Id(o)] BY <1>2, <2>1, WritesOf
  <2>4. starting' \in [op: Ops \cup {NONE}, done: 0 .. 5] BY <1>3
  <2>5. starting'.op = o /\ starting'.done = n + 1 BY <1>3
  <2> QED BY <2>2, <2>3, <2>4, <2>5 DEF ContextOK
<1>5. UNCHANGED <<todo, half, events, lost>> BY DEF WriteContext
<1> QED BY <1>4, <1>5 DEF IInv, CallbacksOK, QueueOK

LEMMA EmitStartedOK ==
    ASSUME IInv, EmitStarted
    PROVE  ContextOK' /\ CallbacksOK' /\ QueueOK'
<1>1. PICK o \in Ops :
         /\ starting.op = o /\ starting.done = 4
         /\ events' = Append(events, Started(o))
         /\ starting' = [op |-> o, done |-> 5]
      BY DEF EmitStarted
<1>2. UNCHANGED <<context, todo, half, lost>> BY DEF EmitStarted
<1>3. context.action = Action[o] /\ context.req = Id(o)
      BY <1>1, NoneIsNothing DEF IInv, ContextOK
<1>4. ContextOK' BY <1>1, <1>2, <1>3 DEF IInv, ContextOK
<1>5. Action[o] \in Actions /\ Id(o) \in Ops \cup {NONE} /\ 0 \in 0 .. MaxProfiles
      BY EsimEventsAssumption DEF Id
<1>6. Started(o) \in AStart
  <2>1. PICK cb : cb = Cb("action_started", NONE, 0, NONE) OBVIOUS
  <2>2. cb \in Callback /\ cb.type = "action_started"
        BY <2>1, <1>5, CallbacksAreNoResults DEF Cb, Callback
  <2>3. Started(o) = MakeEvent(cb, Action[o], Id(o), {o}) BY <2>1, <1>3 DEF Started
  <2>4. Id(o) # NONE => Action[o] = Action[Id(o)] BY DEF Id
  <2> QED BY <2>2, <2>3, <2>4, <1>5, MakeEventType DEF AStart
<1>7. QueueOK' BY <1>1, <1>2, <1>6 DEF IInv, QueueOK
<1>8. CallbacksOK' BY <1>2 DEF IInv, CallbacksOK
<1> QED BY <1>4, <1>7, <1>8

LEMMA SetOffOK ==
    ASSUME IInv, SetOff
    PROVE  ContextOK' /\ CallbacksOK' /\ QueueOK'
<1>1. PICK o \in Ops :
         /\ starting.op = o /\ starting.done = 5
         /\ events' = events \/ events' = Append(events, Imei(o))
         /\ \E s \in Successes(o) \cup Failures(o) : todo' = [todo EXCEPT ![o] = s]
      BY DEF SetOff
<1>2. starting' = [op |-> NONE, done |-> 0] /\ UNCHANGED <<context, half, lost>> BY DEF SetOff
<1>3. ContextOK' BY <1>2 DEF IInv, ContextOK
<1>4. context.action = Action[o] /\ context.req = Id(o)
      BY <1>1, NoneIsNothing DEF IInv, ContextOK
<1>5. Action[o] \in Actions /\ Id(o) \in Ops \cup {NONE} /\ 0 \in 0 .. MaxProfiles
      BY EsimEventsAssumption DEF Id
<1>6. Imei(o) \in ACallbackEvent
  <2>1. PICK cb : cb = Sysprop("IMEI", 0, NONE) OBVIOUS
  <2>2. "IMEI" \in Keys BY DEF Keys
  <2>3. cb \in ACallback BY <2>1, <2>2, <1>5, ScriptParts
  <2>4. Imei(o) = MakeEvent(cb, Action[o], Id(o), {o}) BY <2>1, <1>4 DEF Imei
  <2> QED BY <2>3, <2>4, <1>5, MakeEventType DEF ACallback, ACallbackEvent
<1>7. QueueOK' BY <1>1, <1>2, <1>6, SMTT(30) DEF IInv, QueueOK
<1>8. CallbacksOK'
  <2>1. PICK s \in Successes(o) \cup Failures(o) : todo' = [todo EXCEPT ![o] = s] BY <1>1
  <2>2. s \in Seq(ACallback) BY ScriptType
  <2> QED BY <2>1, <2>2, <1>2 DEF IInv, CallbacksOK
<1> QED BY <1>3, <1>7, <1>8

LEMMA BeginEmitOK ==
    ASSUME IInv, NEW o \in Ops, BeginEmit(o)
    PROVE  ContextOK' /\ CallbacksOK' /\ QueueOK'
<1>1. todo[o] \in Seq(ACallback) /\ todo[o] # <<>> BY DEF BeginEmit, IInv, CallbacksOK
<1>2. PICK cb : cb = Head(todo[o]) OBVIOUS
<1>3. cb \in ACallback BY <1>1, <1>2
<1>4. PICK key : key = IF cb.type = "profile_mutation_result" /\ cb.key = NONE
                       THEN OperationOf(context.action) ELSE cb.key
      OBVIOUS
<1>5. key \in Keys \cup {NONE}
  <2>1. Operations \subseteq Keys BY DEF Keys
  <2>2. cb.key \in Keys \cup {NONE} BY <1>3 DEF ACallback, Callback
  <2> QED BY <1>4, <2>1, <2>2, OperationType
<1>6. PICK c : c = [cb EXCEPT !.key = key] OBVIOUS
<1>7. c \in ACallback
  <2>1. cb \in Callback /\ cb.type \in CallbackTypes BY <1>3 DEF ACallback
  <2>2. c \in Callback /\ c.type = cb.type BY <2>1, <1>5, <1>6 DEF Callback
  <2> QED BY <2>1, <2>2 DEF ACallback
<1>8. context.action \in Actions \cup {NONE} BY DEF IInv, ContextOK
<1>9. MakeEvent(c, context.action, NONE, {o}) \in ACallbackEvent
  <2>1. NONE \in Ops \cup {NONE} /\ {o} \in SUBSET Ops OBVIOUS
  <2>2. c \in Callback /\ c.type \in CallbackTypes BY <1>7 DEF ACallback
  <2>3. PICK a \in Actions \cup {NONE} : a = context.action BY <1>8
  <2>4. MakeEvent(c, a, NONE, {o}) \in Event /\ MakeEvent(c, a, NONE, {o}).type = c.type
        BY <2>1, <2>2, MakeEventType
  <2> QED BY <2>2, <2>3, <2>4 DEF ACallbackEvent
<1>10. half' = [half EXCEPT ![o] =
                  [read |-> FALSE, event |-> MakeEvent(c, context.action, NONE, {o})]]
       BY <1>2, <1>4, <1>6 DEF BeginEmit
<1>11. todo' = [todo EXCEPT ![o] = Tail(todo[o])] BY DEF BeginEmit
<1>12. Tail(todo[o]) \in Seq(ACallback) BY <1>1
<1>13. CallbacksOK' BY <1>9, <1>10, <1>11, <1>12 DEF IInv, CallbacksOK
<1>14. UNCHANGED <<context, starting, events, lost>> BY DEF BeginEmit
<1> QED BY <1>13, <1>14 DEF IInv, ContextOK, QueueOK

LEMMA ReadRequestIdOK ==
    ASSUME IInv, NEW o \in Ops, ReadRequestId(o)
    PROVE  ContextOK' /\ CallbacksOK' /\ QueueOK'
<1>1. half[o] \in [read: BOOLEAN, event: ACallbackEvent]
      BY DEF ReadRequestId, IInv, CallbacksOK
<1>2. PICK e \in ACallbackEvent : e = half[o].event BY <1>1
<1>3. PICK r \in Ops \cup {NONE} : r = context.req BY NoneIsNothing DEF IInv, ContextOK
<1>4. PICK f : f = [e EXCEPT !.req = r] OBVIOUS
<1>5. f \in ACallbackEvent
  <2>1. e \in Event /\ e.type \in CallbackTypes BY DEF ACallbackEvent
  <2>2. f \in Event /\ f.type = e.type BY <2>1, <1>4 DEF Event
  <2> QED BY <2>1, <2>2 DEF ACallbackEvent
<1>6. half' = [half EXCEPT ![o] = [read |-> TRUE, event |-> f]]
      BY <1>2, <1>3, <1>4 DEF ReadRequestId
<1>7. UNCHANGED <<context, starting, todo, events, lost>> BY DEF ReadRequestId
<1>8. CallbacksOK'
  <2>1. todo[o] \in Seq(ACallback) BY DEF ReadRequestId, IInv, CallbacksOK
  <2>2. PICK g \in [read: BOOLEAN, event: ACallbackEvent] : half' = [half EXCEPT ![o] = g]
        BY <1>5, <1>6
  <2> QED BY <2>1, <2>2, <1>7 DEF IInv, CallbacksOK
<1> QED BY <1>7, <1>8 DEF IInv, ContextOK, QueueOK

LEMMA OfferOK ==
    ASSUME IInv, NEW o \in Ops, Offer(o)
    PROVE  ContextOK' /\ CallbacksOK' /\ QueueOK'
<1>1. half[o] \in [read: BOOLEAN, event: ACallbackEvent] BY DEF Offer, IInv, CallbacksOK
<1>2. half[o].event \in ACallbackEvent BY <1>1
<1>3. events \in Seq(ACallbackEvent \cup AStart) BY DEF IInv, QueueOK
<1>4. events' \in Seq(ACallbackEvent \cup AStart) BY <1>2, <1>3 DEF Offer
<1>5. UNCHANGED <<context, starting, lost>> BY DEF Offer
<1>6. half' = [half EXCEPT ![o] = NONE] BY DEF Offer
<1>7. DownloadResult("success") \in ACallback
  <2>1. "success" \in Values BY DEF Values
  <2> QED BY <2>1, ScriptParts
<1>8. \A p \in Ops : todo'[p] # NONE => todo'[p] \in Seq(ACallback)
  <2>1. CASE todo' = todo BY <2>1 DEF IInv, CallbacksOK
  <2>2. CASE todo' = [todo EXCEPT ![o] = <<DownloadResult("success")>> \o todo[o]]
    <3>1. todo[o] \in Seq(ACallback) BY DEF Offer, IInv, CallbacksOK
    <3>2. <<DownloadResult("success")>> \o todo[o] \in Seq(ACallback) BY <3>1, <1>7
    <3> QED BY <3>2, <2>2 DEF IInv, CallbacksOK
  <2> QED BY <2>1, <2>2 DEF Offer
<1>9. todo' = [p \in Ops |-> todo'[p]] BY DEF Offer, IInv, CallbacksOK
<1>10. \A p \in Ops \ {o} : half[p] # NONE => todo'[p] = todo[p]
       BY DEF Offer, IInv, CallbacksOK
<1>11. CallbacksOK' BY <1>6, <1>8, <1>9, <1>10 DEF IInv, CallbacksOK
<1> QED BY <1>4, <1>5, <1>11 DEF IInv, ContextOK, QueueOK

LEMMA HookStepOK ==
    ASSUME IInv, HookStep
    PROVE  IInv'
<1>1. ContextOK' /\ CallbacksOK' /\ QueueOK'
      BY StartCommandOK, WriteContextOK, EmitStartedOK, SetOffOK, BeginEmitOK, ReadRequestIdOK, OfferOK
      DEF HookStep, HookNext
<1>2. UNCHANGED store BY DEF HookStep
<1>3. StoreTypeOK' BY <1>2 DEF IInv, StoreTypeOK, store
<1>4. CurrentOK' /\ GotOK'
      BY <1>2 DEF IInv, CurrentOK, GotOK, ForRequest, store
<1>5. HistoryOK'
  <2>1. begun \in Seq(Ops) /\ starting'.op \in Ops \cup {NONE}
        BY <1>1 DEF IInv, ContextOK, HistoryOK
  <2>2. begun' \in Seq(Ops) BY <2>1 DEF HookStep
  <2>3. overlapped' \in BOOLEAN
    <3>1. overlapped \in BOOLEAN BY DEF IInv, HistoryOK
    <3>2. \/ overlapped' = overlapped
          \/ overlapped' = (overlapped \/ \E p \in Ops : Running(p))
          BY DEF HookStep
    <3> QED BY <3>1, <3>2, Zenon
  <2>4. failed' \subseteq Ops
    <3>1. failed' = failed \cup {o \in Ops : todo[o] = NONE /\ todo'[o] \in Failures(o)}
          BY DEF HookStep
    <3> QED BY <3>1 DEF IInv, HistoryOK
  <2> QED BY <2>2, <2>3, <2>4 DEF HistoryOK
<1> QED BY <1>1, <1>3, <1>4, <1>5 DEF IInv

LEMMA DeliverOK ==
    ASSUME IInv, Deliver
    PROVE  IInv'
<1>1. events \in Seq(ACallbackEvent \cup AStart) /\ events # <<>> BY DEF IInv, QueueOK, Deliver
<1>2. PICK e : e = Head(events) /\ OnEvent(e) BY DEF Deliver
<1>3. e \in ACallbackEvent \cup AStart BY <1>1, <1>2
<1>4. StoreTypeOK' /\ CurrentOK' /\ GotOK' BY <1>2, <1>3, OnEventOK DEF IInv
<1>5. /\ events' = Tail(events)
      /\ UNCHANGED <<context, starting, todo, half, lost, history>>
      BY DEF Deliver
<1>6. events' \in Seq(ACallbackEvent \cup AStart) BY <1>1, <1>5
<1>7. ContextOK' /\ CallbacksOK' BY <1>5 DEF IInv, ContextOK, CallbacksOK
<1>8. HistoryOK' BY <1>5 DEF IInv, HistoryOK, history
<1> QED BY <1>4, <1>5, <1>6, <1>7, <1>8 DEF IInv, QueueOK

LEMMA LoseOK ==
    ASSUME IInv, Lose, MaxLost \in Nat
    PROVE  IInv'
<1>1. events \in Seq(ACallbackEvent \cup AStart) /\ events # <<>> BY DEF IInv, QueueOK, Lose
<1>2. /\ events' = Tail(events) /\ lost' = lost + 1 /\ lost < MaxLost
      /\ UNCHANGED <<context, starting, todo, half, store, history>>
      BY DEF Lose
<1>3. events' \in Seq(ACallbackEvent \cup AStart) BY <1>1, <1>2
<1>4. lost' \in 0 .. MaxLost BY <1>2 DEF IInv, QueueOK
<1>5. ContextOK' /\ CallbacksOK' BY <1>2 DEF IInv, ContextOK, CallbacksOK
<1>6. StoreTypeOK' BY <1>2 DEF IInv, StoreTypeOK, store
<1>7. CurrentOK' /\ GotOK' BY <1>2 DEF IInv, CurrentOK, GotOK, ForRequest, store
<1>8. HistoryOK' BY <1>2 DEF IInv, HistoryOK, history
<1> QED BY <1>3, <1>4, <1>5, <1>6, <1>7, <1>8 DEF IInv, QueueOK

LEMMA InitOK ==
    ASSUME Init, MaxLost \in Nat
    PROVE  IInv
<1> USE EsimEventsAssumption DEF Init, HookInit, StoreInit
<1>1. ContextOK BY DEF ContextOK
<1>2. CallbacksOK BY DEF CallbacksOK
<1>3. QueueOK BY DEF QueueOK
<1>4. StoreTypeOK BY DEF StoreTypeOK, Indices
<1>5. CurrentOK BY DEF CurrentOK
<1>6. GotOK BY DEF GotOK
<1>7. HistoryOK
  <2>1. begun \in Seq(Ops) /\ failed \subseteq Ops OBVIOUS
  <2>2. overlapped \in BOOLEAN BY Zenon
  <2> QED BY <2>1, <2>2 DEF HistoryOK
<1> QED BY <1>1, <1>2, <1>3, <1>4, <1>5, <1>6, <1>7 DEF IInv

(* IInv is an invariant of the pipeline, overlapping intents and lost       *)
(* events included.                                                         *)
THEOREM Inductive == Spec => []IInv
<1> USE EsimBoundsAssumption
<1>1. Init => IInv BY InitOK
<1>2. IInv /\ [Next]_vars => IInv'
  <2> SUFFICES ASSUME IInv, [Next]_vars PROVE IInv' OBVIOUS
  <2>1. CASE HookStep BY <2>1, HookStepOK
  <2>2. CASE Deliver BY <2>2, DeliverOK
  <2>3. CASE Lose BY <2>3, LoseOK
  <2>4. CASE UNCHANGED vars
    <3>1. UNCHANGED hook /\ UNCHANGED store /\ UNCHANGED history BY <2>4 DEF vars
    <3>2. ContextOK' /\ CallbacksOK' /\ QueueOK'
          BY <3>1 DEF IInv, ContextOK, CallbacksOK, QueueOK, hook
    <3>3. StoreTypeOK' BY <3>1 DEF IInv, StoreTypeOK, store
    <3>4. CurrentOK' /\ GotOK' BY <3>1 DEF IInv, CurrentOK, GotOK, ForRequest, store
    <3>5. HistoryOK' BY <3>1 DEF IInv, HistoryOK, history
    <3> QED BY <3>2, <3>3, <3>4, <3>5 DEF IInv
  <2> QED BY <2>1, <2>2, <2>3, <2>4 DEF Next
<1> QED BY <1>1, <1>2, PTL DEF Spec

(* Every variable of the hook and of the store has its type.                *)
THEOREM TypeCorrect == Spec => []TypeOK
<1>1. IInv => TypeOK
  <2> SUFFICES ASSUME IInv PROVE TypeOK OBVIOUS
  <2>1. ACallback \subseteq Callback /\ ACallbackEvent \subseteq Event /\ AStart \subseteq Event
        BY DEF ACallback, ACallbackEvent, AStart
  <2>2. \A o \in Ops : todo[o] # NONE => todo[o] \in Seq(Callback)
        BY <2>1 DEF IInv, CallbacksOK
  <2>3. \A o \in Ops : half[o] # NONE => half[o].event \in Event
        BY <2>1 DEF IInv, CallbacksOK
  <2>4. events \in Seq(Event) BY <2>1 DEF IInv, QueueOK
  <2> QED BY <2>2, <2>3, <2>4 DEF IInv, TypeOK, HookTypeOK, ContextOK, QueueOK, HistoryOK
<1> QED BY <1>1, Inductive, PTL

(* A result the store puts together answers the request whose id it         *)
(* carries: EsimOperationContext is written by one thread and announced as  *)
(* a whole, so the torn reads of the callbacks do no harm to it.            *)
THEOREM ResultFits == Spec => []ResultFitsRequest
<1>1. IInv => ResultFitsRequest
  <2> SUFFICES ASSUME IInv, NEW o \in Ops, NEW i \in 1 .. Len(got[o]), got[o][i].type \in ResultTypes
               PROVE  got[o][i].type = ResultType(Action[o]) /\ got[o][i].action = Action[o]
        BY DEF ResultFitsRequest, Elements
  <2>1. got[o] \in Seq(ForRequest(o)) BY DEF IInv, GotOK
  <2>2. got[o][i] \in ForRequest(o) BY <2>1
  <2> QED BY <2>2 DEF ForRequest
<1> QED BY <1>1, Inductive, PTL

-----------------------------------------------------------------------------
(* As long as no operation begins while another runs.  The queue holds the  *)
(* events of one operation after those of the other, in the order in which  *)
(* they began, and each carries the action and id of its operation.         *)
Latest == begun[Len(begun)]

BegunOK ==
    /\ \A i, j \in 1 .. Len(begun) : begun[i] = begun[j] => i = j
    /\ \A p \in Ops : p \in Elements(begun) <=> todo[p] # NONE \/ starting.op = p
    /\ starting.op # NONE => begun # <<>> /\ starting.op = Latest /\ todo[starting.op] = NONE

ByOwner(e, p) == e.of = {p} /\ e.action = Action[p] /\ e.req = Id(p)

(* What runs is the latest operation; the context is its, and so is what    *)
(* its callbacks read there.                                                *)
AloneOK ==
    /\ \A p \in Ops : Running(p) => p = Latest /\ starting.op = NONE
    /\ starting.op = NONE /\ begun # <<>> =>
           context.action = Action[Latest] /\ context.req = Id(Latest)
    /\ \A p \in Ops : half[p] # NONE =>
           /\ half[p].event.of = {p} /\ half[p].event.action = Action[p]
           /\ half[p].read => half[p].event.req = Id(p)

(* The operation has begun and is not announced.                            *)
NotYet(o) == starting.op = o /\ starting.done <= 4

OrderOK ==
    /\ \A i \in 1 .. Len(events) : \E p \in Elements(begun) : ByOwner(events[i], p)
    /\ \A i, j \in 1 .. Len(events) : i < j =>
          /\ \A p \in events[i].of, q \in events[j].of : ~ Earlier(q, p)
          /\ events[j].type = "action_started" => events[i].of # events[j].of
    /\ \A o \in Ops : NotYet(o) =>
          got[o] = <<>> /\ \A i \in 1 .. Len(events) : events[i].of # {o}

(* What has been told to a request is older than what is still queued.      *)
KnownOK ==
    /\ \A o \in Ops : got[o] # <<>> =>
          /\ o \in Elements(begun)
          /\ \A i \in 1 .. Len(events) :
                /\ \A p \in events[i].of : ~ Earlier(p, o)
                /\ events[i].type = "action_started" => events[i].of # {o}
    /\ current.req # NONE => got[current.req] # <<>>

InProfiles == {p \in Ops : \E i \in Indices : p \in profiles[i]}

(* Whose reports the store would answer the current request with.           *)
Collected ==
    IF current.action = "getProfiles" THEN lastIntent.of \cup count.of \cup InProfiles
    ELSE IF current.action \in Getters THEN lastIntent.of \cup imei ELSE {}

NotStaleOK ==
    /\ current.req # NONE => \A p \in Collected : ~ Earlier(p, current.req)
    /\ \A o \in Ops : \A i \in 1 .. Len(got[o]) : \A p \in got[o][i].of : ~ Earlier(p, o)

IntentOK == lastIntent.value # NONE => lastIntent.of # {}

IsCurrent(p) == current.action = Action[p] /\ current.req = Id(p)

(* If moreover nothing is lost: an operation's announcement comes first, so *)
(* the first event of the queue announces or belongs to the current one.    *)
CompleteOK ==
    /\ \A i \in 1 .. Len(events) : events[i].type # "action_started" =>
          IF i = 1 THEN \A p \in events[i].of : IsCurrent(p)
          ELSE events[i - 1].of = events[i].of
    /\ begun # <<>> /\ ~ NotYet(Latest) =>
          IF events = <<>> THEN IsCurrent(Latest) ELSE events[Len(events)].of = {Latest}
    /\ current.req # NONE => Collected \subseteq {current.req}
    /\ \A o \in Ops : \A i \in 1 .. Len(got[o]) : got[o][i].of = {o}

(* A download that was announced is followed until its last event is gone;  *)
(* a final event marks it ended, and no other event comes after that.       *)
Followed(o) == download.req = o /\ download.action = Verify
Over(o) == o # Latest /\ \A i \in 1 .. Len(events) : events[i].of # {o}
Finals(o) == {i \in 1 .. Len(got[o]) : IsFinal(o, got[o][i])}

DownloadOK ==
    \A o \in Ops : Action[o] = Verify /\ got[o] # <<>> /\ got[o][1].type = "action_started" =>
        /\ Over(o) \/ (Followed(o) /\ (Finals(o) # {} => download.ended))
        /\ Finals(o) \subseteq {Len(got[o])}

Queued == OrderOK /\ KnownOK /\ NotStaleOK /\ DownloadOK

SerialInv ==
    /\ BegunOK
    /\ ~ overlapped => AloneOK /\ IntentOK /\ Queued /\ (lost = 0 => CompleteOK)

-----------------------------------------------------------------------------
(* The order in which operations began.                                     *)
LEMMA NoneIsNoScript == NONE \notin Seq(ACallback)
<1>1. Seq(ACallback) \subseteq Seq(Callback) BY DEF ACallback
<1> QED BY <1>1, EsimEventsAssumption

LEMMA LatestBegan ==
    ASSUME begun \in Seq(Ops), begun # <<>>
    PROVE  Latest \in Elements(begun) /\ Latest \in Ops
<1>1. Len(begun) \in 1 .. Len(begun) OBVIOUS
<1> QED BY <1>1 DEF Latest, Elements

LEMMA BeganIsOp ==
    ASSUME begun \in Seq(Ops), NEW p \in Elements(begun)
    PROVE  p \in Ops /\ begun # <<>>
BY DEF Elements

LEMMA EarlierOrder ==
    ASSUME begun \in Seq(Ops), BegunOK
    PROVE  /\ \A p : ~ Earlier(p, p)
           /\ \A p, q \in Elements(begun) : p # q => Earlier(p, q) \/ Earlier(q, p)
           /\ \A p, q : Earlier(p, q) => p \in Elements(begun) /\ q \in Elements(begun)
<1>1. ASSUME NEW p, Earlier(p, p) PROVE FALSE
      BY <1>1 DEF Earlier, BegunOK
<1>2. ASSUME NEW p \in Elements(begun), NEW q \in Elements(begun), p # q
      PROVE  Earlier(p, q) \/ Earlier(q, p)
  <2>1. PICK i \in 1 .. Len(begun) : begun[i] = p BY DEF Elements
  <2>2. PICK j \in 1 .. Len(begun) : begun[j] = q BY DEF Elements
  <2>3. i < j \/ j < i BY <1>2, <2>1, <2>2
  <2> QED BY <2>1, <2>2, <2>3 DEF Earlier
<1>3. ASSUME NEW p, NEW q, Earlier(p, q) PROVE p \in Elements(begun) /\ q \in Elements(begun)
      BY <1>3 DEF Earlier, Elements
<1> QED BY <1>1, <1>2, <1>3

LEMMA NothingAfterLatest ==
    ASSUME begun \in Seq(Ops), begun # <<>>, BegunOK
    PROVE  \A q : ~ Earlier(Latest, q)
<1> SUFFICES ASSUME NEW q, Earlier(Latest, q) PROVE FALSE OBVIOUS
<1>1. PICK i, j \in 1 .. Len(begun) : i < j /\ begun[i] = Latest /\ begun[j] = q BY DEF Earlier
<1>2. i = Len(begun)
  <2>1. Len(begun) \in 1 .. Len(begun) OBVIOUS
  <2>2. begun[i] = begun[Len(begun)] BY <1>1 DEF Latest
  <2> QED BY <2>1, <2>2 DEF BegunOK
<1> QED BY <1>1, <1>2

LEMMA BegunGrows ==
    ASSUME begun \in Seq(Ops), NEW o \in Ops, o \notin Elements(begun), begun' = Append(begun, o)
    PROVE  /\ Elements(begun)' = Elements(begun) \cup {o}
           /\ Latest' = o /\ begun' # <<>>
           /\ \A p, q : q # o => (Earlier(p, q)' <=> Earlier(p, q))
<1>1. Len(begun') = Len(begun) + 1 /\ Len(begun) \in Nat OBVIOUS
<1>2. \A i \in 1 .. Len(begun) : begun'[i] = begun[i] OBVIOUS
<1>3. begun'[Len(begun) + 1] = o OBVIOUS
<1>4. Elements(begun)' = Elements(begun) \cup {o}
  <2>1. ASSUME NEW x \in Elements(begun)' PROVE x \in Elements(begun) \cup {o}
    <3>1. PICK i \in 1 .. Len(begun) + 1 : begun'[i] = x BY <1>1 DEF Elements
    <3>2. i \in 1 .. Len(begun) \/ i = Len(begun) + 1 BY <1>1
    <3> QED BY <3>1, <3>2, <1>2, <1>3 DEF Elements
  <2>2. ASSUME NEW x \in Elements(begun) PROVE x \in Elements(begun)'
    <3>1. PICK i \in 1 .. Len(begun) : begun[i] = x BY DEF Elements
    <3>2. i \in 1 .. Len(begun') BY <1>1
    <3> QED BY <3>1, <3>2, <1>2 DEF Elements
  <2>3. o \in Elements(begun)'
    <3>1. Len(begun) + 1 \in 1 .. Len(begun') BY <1>1
    <3> QED BY <3>1, <1>3 DEF Elements
  <2> QED BY <2>1, <2>2, <2>3
<1>5. Latest' = o BY <1>1, <1>3 DEF Latest
<1>6. ASSUME NEW p, NEW q, q # o PROVE Earlier(p, q)' <=> Earlier(p, q)
  <2>1. ASSUME Earlier(p, q)' PROVE Earlier(p, q)
    <3>1. PICK i, j \in 1 .. Len(begun) + 1 : i < j /\ begun'[i] = p /\ begun'[j] = q
          BY <2>1, <1>1 DEF Earlier
    <3>2. j # Len(begun) + 1 BY <3>1, <1>3, <1>6
    <3>3. i \in 1 .. Len(begun) /\ j \in 1 .. Len(begun) BY <3>1, <3>2, <1>1
    <3> QED BY <3>1, <3>3, <1>2 DEF Earlier
  <2>2. ASSUME Earlier(p, q) PROVE Earlier(p, q)'
    <3>1. PICK i, j \in 1 .. Len(begun) : i < j /\ begun[i] = p /\ begun[j] = q
          BY <2>2 DEF Earlier
    <3>2. i \in 1 .. Len(begun') /\ j \in 1 .. Len(begun') BY <1>1
    <3> QED BY <3>1, <3>2, <1>2 DEF Earlier
  <2> QED BY <2>1, <2>2
<1> QED BY <1>4, <1>5, <1>6, <1>3, <1>1

LEMMA BegunSame ==
    ASSUME begun' = begun
    PROVE  /\ Elements(begun)' = Elements(begun) /\ Latest' = Latest
           /\ \A p, q : Earlier(p, q)' <=> Earlier(p, q)
BY DEF Elements, Latest, Earlier

(* A step of the hook begins an operation or leaves begun alone.            *)
LEMMA HookCases ==
    ASSUME IInv, HookStep
    PROVE  \/ \E o \in Ops : /\ StartCommand(o) /\ begun' = Append(begun, o)
                             /\ ~ overlapped' => ~ overlapped /\ \A p \in Ops : ~ Running(p)
           \/ /\ \/ WriteContext \/ EmitStarted \/ SetOff
                 \/ \E o \in Ops : BeginEmit(o) \/ ReadRequestId(o) \/ Offer(o)
              /\ begun' = begun /\ overlapped' = overlapped
<1>1. CASE \E o \in Ops : StartCommand(o)
  <2>1. PICK o \in Ops : StartCommand(o) BY <1>1
  <2>2. starting.op = NONE /\ starting'.op = o BY <2>1 DEF StartCommand
  <2>3. starting'.op # NONE BY <2>2, NoneIsNothing
  <2>4. /\ begun' = Append(begun, starting'.op)
        /\ overlapped' = (overlapped \/ \E p \in Ops : Running(p))
        BY <2>2, <2>3 DEF HookStep
  <2>5. ~ overlapped' => ~ overlapped /\ \A p \in Ops : ~ Running(p) BY <2>4, Zenon
  <2> QED BY <2>1, <2>2, <2>4, <2>5
<1>2. CASE \/ WriteContext \/ EmitStarted \/ SetOff
           \/ \E o \in Ops : BeginEmit(o) \/ ReadRequestId(o) \/ Offer(o)
  <2>1. starting.op # NONE \/ starting'.op = NONE \/ starting' = starting
    <3>1. WriteContext => starting.op # NONE BY DEF WriteContext
    <3>2. EmitStarted => starting.op # NONE BY NoneIsNothing DEF EmitStarted
    <3>3. SetOff => starting.op # NONE BY NoneIsNothing DEF SetOff
    <3>4. \A o \in Ops : BeginEmit(o) \/ ReadRequestId(o) \/ Offer(o) => starting' = starting
          BY DEF BeginEmit, ReadRequestId, Offer
    <3> QED BY <1>2, <3>1, <3>2, <3>3, <3>4
  <2>2. ~ (starting.op = NONE /\ starting'.op # NONE) BY <2>1
  <2>3. UNCHANGED <<begun, overlapped>> BY <2>2 DEF HookStep
  <2> QED BY <1>2, <2>3
<1> QED BY <1>1, <1>2 DEF HookStep, HookNext

LEMMA BegunHook ==
    ASSUME IInv, BegunOK, HookStep
    PROVE  BegunOK'
<1>1. begun \in Seq(Ops) BY DEF IInv, HistoryOK
<1>2. starting.op \in Ops \cup {NONE} BY DEF IInv, ContextOK
<1>3. ASSUME NEW o \in Ops, StartCommand(o), begun' = Append(begun, o) PROVE BegunOK'
  <2>1. /\ starting.op = NONE /\ todo[o] = NONE /\ starting'.op = o /\ todo' = todo
        BY <1>3 DEF StartCommand
  <2>2. o \notin Elements(begun) BY <2>1, NoneIsNothing DEF BegunOK
  <2>3. Elements(begun)' = Elements(begun) \cup {o} /\ Latest' = o /\ begun' # <<>>
        BY <1>1, <1>3, <2>2, BegunGrows
  <2>4. \A p \in Ops : p \in Elements(begun)' <=> todo'[p] # NONE \/ starting'.op = p
        BY <2>1, <2>3, NoneIsNothing DEF BegunOK
  <2>5. ASSUME NEW i \in 1 .. Len(begun'), NEW j \in 1 .. Len(begun'), begun'[i] = begun'[j]
        PROVE  i = j
    <3>1. /\ Len(begun') = Len(begun) + 1 /\ Len(begun) \in Nat
          /\ begun'[Len(begun) + 1] = o
          /\ \A k \in 1 .. Len(begun) : begun'[k] = begun[k]
          BY <1>1, <1>3
    <3>2. \A k \in 1 .. Len(begun) : begun'[k] # o BY <2>2, <3>1 DEF Elements
    <3>3. CASE i \in 1 .. Len(begun) /\ j \in 1 .. Len(begun)
          BY <3>3, <3>1, <2>5 DEF BegunOK
    <3>4. CASE i = Len(begun) + 1 \/ j = Len(begun) + 1 BY <3>4, <3>1, <3>2, <2>5
    <3> QED BY <3>1, <3>3, <3>4
  <2> QED BY <2>1, <2>3, <2>4, <2>5 DEF BegunOK
<1>4. ASSUME begun' = begun, NEW o \in Ops, starting.op = o, starting'.op = NONE, NEW s, s # NONE,
             todo' = [todo EXCEPT ![o] = s]
      PROVE  BegunOK'
  <2>1. todo = [p \in Ops |-> todo[p]] BY DEF IInv, CallbacksOK
  <2>2. todo'[o] = s /\ \A p \in Ops \ {o} : todo'[p] = todo[p] BY <2>1, <1>4
  <2>3. \A p \in Ops : p \in Elements(begun)' <=> todo'[p] # NONE \/ starting'.op = p
        BY <2>2, <1>4, BegunSame, NoneIsNothing DEF BegunOK
  <2> QED BY <2>3, <1>4 DEF BegunOK
<1>5. ASSUME begun' = begun, starting'.op = starting.op,
             \A p \in Ops : todo'[p] = NONE <=> todo[p] = NONE
      PROVE  BegunOK'
  <2>1. \A p \in Ops : p \in Elements(begun)' <=> todo'[p] # NONE \/ starting'.op = p
        BY <1>5, BegunSame DEF BegunOK
  <2>2. starting'.op # NONE => begun' # <<>> /\ starting'.op = Latest' /\ todo'[starting'.op] = NONE
        BY <1>2, <1>5, BegunSame DEF BegunOK
  <2> QED BY <2>1, <2>2, <1>5 DEF BegunOK
<1>6. ASSUME WriteContext, begun' = begun PROVE BegunOK'
  <2>1. starting'.op = starting.op /\ todo' = todo
        BY <1>6 DEF WriteContext, IInv, ContextOK
  <2> QED BY <2>1, <1>5, <1>6
<1>7. ASSUME EmitStarted, begun' = begun PROVE BegunOK'
  <2>1. starting'.op = starting.op /\ todo' = todo BY <1>7 DEF EmitStarted
  <2> QED BY <2>1, <1>5, <1>7
<1>8. ASSUME SetOff, begun' = begun PROVE BegunOK'
  <2>0. starting'.op = NONE BY <1>8 DEF SetOff
  <2>1. PICK o \in Ops : /\ starting.op = o
                         /\ \E s \in Successes(o) \cup Failures(o) : todo' = [todo EXCEPT ![o] = s]
        BY <1>8 DEF SetOff
  <2>2. PICK s \in Successes(o) \cup Failures(o) : todo' = [todo EXCEPT ![o] = s] BY <2>1
  <2>3. s # NONE BY ScriptType, NoneIsNoScript
  <2> QED BY <2>0, <2>1, <2>2, <2>3, <1>4, <1>8
<1>9. ASSUME NEW o \in Ops, BeginEmit(o) \/ ReadRequestId(o) \/ Offer(o), begun' = begun
      PROVE  BegunOK'
  <2>1. starting' = starting BY <1>9 DEF BeginEmit, ReadRequestId, Offer
  <2>2. /\ todo[o] # NONE
        /\ todo' = todo \/ \E s \in Seq(ACallback) : todo' = [todo EXCEPT ![o] = s]
    <3>1. CASE BeginEmit(o)
      <4>1. todo[o] \in Seq(ACallback) /\ todo[o] # <<>> /\ todo[o] # NONE
            BY <3>1 DEF BeginEmit, IInv, CallbacksOK
      <4>2. Tail(todo[o]) \in Seq(ACallback) BY <4>1
      <4> QED BY <3>1, <4>1, <4>2 DEF BeginEmit
    <3>2. CASE ReadRequestId(o)
      <4>1. todo[o] \in Seq(ACallback) BY <3>2 DEF ReadRequestId, IInv, CallbacksOK
      <4> QED BY <3>2, <4>1, NoneIsNoScript DEF ReadRequestId
    <3>3. CASE Offer(o)
      <4>1. todo[o] \in Seq(ACallback) BY <3>3 DEF Offer, IInv, CallbacksOK
      <4>2. DownloadResult("success") \in ACallback
        <5>1. "success" \in Values BY DEF Values
        <5> QED BY <5>1, ScriptParts
      <4>3. <<DownloadResult("success")>> \o todo[o] \in Seq(ACallback) BY <4>1, <4>2
      <4> QED BY <3>3, <4>1, <4>3, NoneIsNoScript DEF Offer
    <3> QED BY <1>9, <3>1, <3>2, <3>3
  <2>3. todo = [p \in Ops |-> todo[p]] BY DEF IInv, CallbacksOK
  <2>4. \A p \in Ops : todo'[p] = NONE <=> todo[p] = NONE BY <2>2, <2>3, NoneIsNoScript
  <2> QED BY <2>1, <2>4, <1>5, <1>9
<1> QED BY <1>3, <1>6, <1>7, <1>8, <1>9, HookCases

(* As long as no operation overlaps another, the one that began last alone  *)
(* is active, and the context is its.                                       *)
LEMMA AloneHook ==
    ASSUME IInv, IInv', BegunOK, BegunOK', AloneOK, HookStep, ~ overlapped'
    PROVE  AloneOK'
<1>1. begun \in Seq(Ops) BY DEF IInv, HistoryOK
<1>2. /\ todo = [p \in Ops |-> todo[p]] /\ half = [p \in Ops |-> half[p]]
      BY DEF IInv, CallbacksOK
<1>3. ASSUME NEW o \in Ops, StartCommand(o), \A p \in Ops : ~ Running(p) PROVE AloneOK'
  <2>1. todo' = todo /\ half' = half /\ starting'.op = o BY <1>3 DEF StartCommand
  <2>2. \A p \in Ops : ~ Running(p)' BY <1>3, <2>1 DEF Running
  <2>3. \A p \in Ops : half'[p] = NONE
    <3>1. \A p \in Ops : half[p] # NONE => todo[p] # NONE
          BY NoneIsNoScript DEF IInv, CallbacksOK
    <3> QED BY <3>1, <1>3, <2>1 DEF Running
  <2> QED BY <2>1, <2>2, <2>3, NoneIsNothing DEF AloneOK
<1>4. ASSUME begun' = begun, WriteContext PROVE AloneOK'
  <2>1. starting'.op = starting.op /\ starting.op # NONE /\ todo' = todo /\ half' = half
        BY <1>4 DEF WriteContext, IInv, ContextOK
  <2>2. \A p \in Ops : ~ Running(p) BY <2>1 DEF AloneOK
  <2>3. \A p \in Ops : ~ Running(p)' BY <2>1, <2>2 DEF Running
  <2> QED BY <2>1, <2>3 DEF AloneOK
<1>5. ASSUME begun' = begun, EmitStarted PROVE AloneOK'
  <2>1. starting'.op = starting.op /\ starting.op # NONE /\ todo' = todo /\ half' = half
        BY <1>5, NoneIsNothing DEF EmitStarted
  <2>2. \A p \in Ops : ~ Running(p) BY <2>1 DEF AloneOK
  <2>3. \A p \in Ops : ~ Running(p)' BY <2>1, <2>2 DEF Running
  <2> QED BY <2>1, <2>3 DEF AloneOK
<1>6. ASSUME begun' = begun, SetOff PROVE AloneOK'
  <2>1. PICK o \in Ops : /\ starting.op = o /\ starting.done = 5
                         /\ \E s \in Successes(o) \cup Failures(o) : todo' = [todo EXCEPT ![o] = s]
        BY <1>6 DEF SetOff
  <2>2. context' = context /\ half' = half /\ starting'.op = NONE BY <1>6 DEF SetOff
  <2>3. o = Latest /\ Latest' = Latest BY <2>1, <1>6, NoneIsNothing, BegunSame DEF BegunOK
  <2>4. context.action = Action[o] /\ context.req = Id(o)
        BY <2>1, NoneIsNothing DEF IInv, ContextOK
  <2>5. \A p \in Ops : ~ Running(p) BY <2>1, NoneIsNothing DEF AloneOK
  <2>6. \A p \in Ops \ {o} : ~ Running(p)' BY <2>1, <2>2, <2>5, <1>2 DEF Running
  <2> QED BY <2>1, <2>2, <2>3, <2>4, <2>6 DEF AloneOK
<1>7. ASSUME begun' = begun, NEW o \in Ops, BeginEmit(o) \/ ReadRequestId(o) \/ Offer(o)
      PROVE  AloneOK'
  <2>1. UNCHANGED <<context, starting>> BY <1>7 DEF BeginEmit, ReadRequestId, Offer
  <2>2. Running(o)
    <3>1. half[o] # NONE => todo[o] # NONE BY NoneIsNoScript DEF IInv, CallbacksOK
    <3> QED BY <1>7, <3>1 DEF BeginEmit, ReadRequestId, Offer, Running
  <2>3. o = Latest /\ starting.op = NONE /\ begun # <<>>
    <3>1. o \in Elements(begun) BY <2>2 DEF BegunOK, Running
    <3> QED BY <2>2, <3>1, <1>1, BeganIsOp DEF AloneOK
  <2>4. context.action = Action[o] /\ context.req = Id(o) BY <2>3 DEF AloneOK
  <2>5. \A p \in Ops \ {o} : todo'[p] = todo[p] /\ half'[p] = half[p]
        BY <1>7, <1>2 DEF BeginEmit, ReadRequestId, Offer
  <2>6. \A p \in Ops : Running(p)' => p = Latest' /\ starting'.op = NONE
        BY <2>1, <2>3, <2>5, <1>7, BegunSame DEF AloneOK, Running
  <2>7. half'[o] # NONE =>
           /\ half'[o].event.of = {o} /\ half'[o].event.action = Action[o]
           /\ half'[o].read => half'[o].event.req = Id(o)
    <3>1. CASE BeginEmit(o)
      <4>1. PICK c : half' = [half EXCEPT ![o] = [read |-> FALSE,
                                event |-> MakeEvent(c, context.action, NONE, {o})]]
            BY <3>1 DEF BeginEmit
      <4>2. half'[o] = [read |-> FALSE, event |-> MakeEvent(c, context.action, NONE, {o})]
            BY <4>1, <1>2
      <4> QED BY <4>2, <2>4 DEF MakeEvent
    <3>2. CASE ReadRequestId(o)
      <4>1. half[o] \in [read: BOOLEAN, event: ACallbackEvent] /\ half[o] # NONE
            BY <3>2 DEF ReadRequestId, IInv, CallbacksOK
      <4>2. PICK e \in Event : e = half[o].event BY <4>1 DEF ACallbackEvent
      <4>3. PICK f : f = [e EXCEPT !.req = context.req] OBVIOUS
      <4>4. f.of = e.of /\ f.action = e.action /\ f.req = context.req BY <4>2, <4>3 DEF Event
      <4>5. half'[o] = [read |-> TRUE, event |-> f]
            BY <3>2, <4>2, <4>3, <1>2 DEF ReadRequestId
      <4>6. e.of = {o} /\ e.action = Action[o] BY <4>1, <4>2 DEF AloneOK
      <4> QED BY <4>4, <4>5, <4>6, <2>4
    <3>3. CASE Offer(o) BY <3>3, <1>2 DEF Offer
    <3> QED BY <1>7, <3>1, <3>2, <3>3
  <2> QED BY <2>1, <2>3, <2>4, <2>5, <2>6, <2>7, <1>7, BegunSame DEF AloneOK
<1> QED BY <1>3, <1>4, <1>5, <1>6, <1>7, HookCases

-----------------------------------------------------------------------------
(* What the hook's steps mean for the queue.                                *)
LEMMA QueueUntouched ==
    ASSUME IInv, BegunOK, Queued, events' = events, UNCHANGED store, begun' = begun,
           \A o \in Ops : NotYet(o)' => NotYet(o)
    PROVE  /\ Queued'
           /\ CompleteOK /\ (begun # <<>> /\ ~ NotYet(Latest)' => ~ NotYet(Latest)) => CompleteOK'
<1> USE BegunSame
<1>1. UNCHANGED <<current, lastIntent, profiles, count, imei, download, got>> BY DEF store
<1>2. OrderOK' BY <1>1 DEF Queued, OrderOK, ByOwner
<1>3. KnownOK' BY <1>1 DEF Queued, KnownOK
<1>4. Collected' = Collected BY <1>1 DEF Collected, InProfiles
<1>5. NotStaleOK' BY <1>1, <1>4 DEF Queued, NotStaleOK
<1>6. \A o \in Ops : Over(o)' = Over(o) /\ Followed(o)' = Followed(o) /\ Finals(o)' = Finals(o)
      BY <1>1 DEF Over, Followed, Finals
<1>7. DownloadOK' BY <1>1, <1>6 DEF Queued, DownloadOK
<1>8. ASSUME CompleteOK, begun # <<>> /\ ~ NotYet(Latest)' => ~ NotYet(Latest) PROVE CompleteOK'
  <2>1. \A p : IsCurrent(p)' <=> IsCurrent(p) BY <1>1 DEF IsCurrent
  <2>2. \A i \in 1 .. Len(events') : events'[i].type # "action_started" =>
          IF i = 1 THEN \A p \in events'[i].of : IsCurrent(p)'
          ELSE events'[i - 1].of = events'[i].of
        BY <1>8, <2>1 DEF CompleteOK
  <2>3. begun' # <<>> /\ ~ NotYet(Latest)' =>
          IF events' = <<>> THEN IsCurrent(Latest)' ELSE events'[Len(events')].of = {Latest'}
        BY <1>8, <1>1 DEF CompleteOK, IsCurrent
  <2>4. current'.req # NONE => Collected' \subseteq {current'.req}
        BY <1>8, <1>1, <1>4 DEF CompleteOK
  <2>5. \A o \in Ops : \A i \in 1 .. Len(got'[o]) : got'[o][i].of = {o}
        BY <1>8, <1>1 DEF CompleteOK
  <2> QED BY <2>2, <2>3, <2>4, <2>5 DEF CompleteOK
<1> QED BY <1>2, <1>3, <1>5, <1>7, <1>8 DEF Queued

LEMMA QueueBegin ==
    ASSUME IInv, BegunOK, Queued, NEW o \in Ops, StartCommand(o), begun' = Append(begun, o),
           UNCHANGED store
    PROVE  Queued' /\ (CompleteOK => CompleteOK')
<1>1. UNCHANGED <<current, lastIntent, profiles, count, imei, download, got>> BY DEF store
<1>2. starting' = [op |-> o, done |-> 0] /\ starting.op = NONE /\ todo[o] = NONE /\ events' = events
      BY DEF StartCommand
<1>3. o \notin Elements(begun) BY <1>2, NoneIsNothing DEF BegunOK
<1>4. begun \in Seq(Ops) BY DEF IInv, HistoryOK
<1>5. /\ Elements(begun)' = Elements(begun) \cup {o} /\ Latest' = o /\ begun' # <<>>
      /\ \A p, q : q # o => (Earlier(p, q)' <=> Earlier(p, q))
      BY <1>3, <1>4, BegunGrows
<1>6. \A i \in 1 .. Len(events) : o \notin events[i].of
      BY <1>3 DEF Queued, OrderOK, ByOwner
<1>7. \A p \in Ops : got[p] # <<>> => p \in Elements(begun) /\ p # o
      BY <1>3 DEF Queued, KnownOK
<1>8. OrderOK'
  <2>1. \A i \in 1 .. Len(events') : \E p \in Elements(begun)' : ByOwner(events'[i], p)
        BY <1>2, <1>5 DEF Queued, OrderOK, ByOwner
  <2>2. \A i, j \in 1 .. Len(events') : i < j =>
           /\ \A p \in events'[i].of, q \in events'[j].of : ~ Earlier(q, p)'
           /\ events'[j].type = "action_started" => events'[i].of # events'[j].of
        BY <1>2, <1>5, <1>6 DEF Queued, OrderOK
  <2>3. \A p \in Ops : NotYet(p)' => p = o BY <1>2 DEF NotYet
  <2>4. got[o] = <<>> /\ \A i \in 1 .. Len(events) : events[i].of # {o} BY <1>6, <1>7
  <2>5. \A p \in Ops : NotYet(p)' =>
           got'[p] = <<>> /\ \A i \in 1 .. Len(events') : events'[i].of # {p}
        BY <1>1, <1>2, <2>3, <2>4
  <2> QED BY <2>1, <2>2, <2>5 DEF OrderOK
<1>9. KnownOK' BY <1>1, <1>2, <1>5, <1>7 DEF Queued, KnownOK
<1>10. Collected' = Collected BY <1>1 DEF Collected, InProfiles
<1>11. current.req \in Ops \cup {NONE} BY DEF IInv, StoreTypeOK
<1>12. NotStaleOK'
  <2>1. current.req # NONE => current.req # o BY <1>7, <1>11 DEF Queued, KnownOK
  <2>2. current'.req # NONE => \A p \in Collected' : ~ Earlier(p, current.req)'
        BY <2>1, <1>1, <1>5, <1>10 DEF Queued, NotStaleOK
  <2>3. \A p \in Ops : \A i \in 1 .. Len(got[p]) : got[p] # <<>>
        BY DEF IInv, GotOK
  <2>4. \A p \in Ops : \A i \in 1 .. Len(got'[p]) : \A q \in got'[p][i].of : ~ Earlier(q, p)'
        BY <1>1, <1>5, <1>7, <2>3 DEF Queued, NotStaleOK
  <2> QED BY <2>2, <2>4 DEF NotStaleOK
<1>13. DownloadOK'
  <2>1. \A p \in Ops : Followed(p)' = Followed(p) /\ Finals(p)' = Finals(p)
        BY <1>1 DEF Followed, Finals
  <2>2. \A p \in Ops : p # o /\ Over(p) => Over(p)' BY <1>2, <1>5 DEF Over
  <2> QED BY <1>1, <1>7, <2>1, <2>2 DEF Queued, DownloadOK
<1>14. ASSUME CompleteOK PROVE CompleteOK'
  <2>1. \A p : IsCurrent(p)' <=> IsCurrent(p) BY <1>1 DEF IsCurrent
  <2>2. \A i \in 1 .. Len(events') : events'[i].type # "action_started" =>
          IF i = 1 THEN \A p \in events'[i].of : IsCurrent(p)'
          ELSE events'[i - 1].of = events'[i].of
        BY <1>14, <1>2, <2>1 DEF CompleteOK
  <2>3. NotYet(Latest)' BY <1>2, <1>5 DEF NotYet
  <2>4. current'.req # NONE => Collected' \subseteq {current'.req}
        BY <1>14, <1>1, <1>10 DEF CompleteOK
  <2>5. \A p \in Ops : \A i \in 1 .. Len(got'[p]) : got'[p][i].of = {p}
        BY <1>14, <1>1 DEF CompleteOK
  <2> QED BY <2>2, <2>3, <2>4, <2>5 DEF CompleteOK
<1> QED BY <1>8, <1>9, <1>12, <1>13, <1>14 DEF Queued

LEMMA QueueAppend ==
    ASSUME IInv, BegunOK, Queued, begun # <<>>, begun' = begun, UNCHANGED store,
           NEW e, events' = Append(events, e), ByOwner(e, Latest),
           e.type = "action_started" => NotYet(Latest), \A o \in Ops : ~ NotYet(o)'
    PROVE  Queued' /\ (CompleteOK /\ (e.type = "action_started" \/ ~ NotYet(Latest)) => CompleteOK')
<1> USE BegunSame
<1>1. UNCHANGED <<current, lastIntent, profiles, count, imei, download, got>> BY DEF store
<1>2. begun \in Seq(Ops) /\ events \in Seq(ACallbackEvent \cup AStart)
      BY DEF IInv, HistoryOK, QueueOK
<1>3. Latest \in Elements(begun) /\ Latest \in Ops /\ \A q : ~ Earlier(Latest, q)
      BY <1>2, LatestBegan, NothingAfterLatest
<1>4. /\ Len(events) \in Nat /\ Len(events') = Len(events) + 1
      /\ events'[Len(events) + 1] = e /\ \A i \in 1 .. Len(events) : events'[i] = events[i]
      BY <1>2
<1>5. e.of = {Latest} BY DEF ByOwner
<1>6. OrderOK'
  <2>1. ASSUME NEW i \in 1 .. Len(events') PROVE \E p \in Elements(begun)' : ByOwner(events'[i], p)
    <3>1. CASE i = Len(events) + 1
          BY <3>1, <1>3, <1>4 DEF ByOwner
    <3>2. CASE i \in 1 .. Len(events) BY <3>2, <1>4 DEF Queued, OrderOK
    <3> QED BY <3>1, <3>2, <1>4
  <2>2. ASSUME NEW i \in 1 .. Len(events'), NEW j \in 1 .. Len(events'), i < j
        PROVE  /\ \A p \in events'[i].of, q \in events'[j].of : ~ Earlier(q, p)'
               /\ events'[j].type = "action_started" => events'[i].of # events'[j].of
    <3>1. i \in 1 .. Len(events) BY <2>2, <1>4
    <3>2. CASE j = Len(events) + 1
      <4>1. e.type = "action_started" => events[i].of # {Latest}
            BY <3>1, <1>3 DEF Queued, OrderOK
      <4> QED BY <4>1, <3>1, <3>2, <1>3, <1>4, <1>5
    <3>3. CASE j \in 1 .. Len(events) BY <2>2, <3>1, <3>3, <1>4 DEF Queued, OrderOK
    <3> QED BY <3>2, <3>3, <1>4
  <2> QED BY <2>1, <2>2 DEF OrderOK
<1>7. KnownOK'
  <2>1. \A o \in Ops : got'[o] # <<>> => o \in Elements(begun)' BY <1>1 DEF Queued, KnownOK
  <2>2. current'.req # NONE => got'[current'.req] # <<>> BY <1>1 DEF Queued, KnownOK
  <2>3. ASSUME NEW o \in Ops, got'[o] # <<>>, NEW i \in 1 .. Len(events')
        PROVE  /\ \A p \in events'[i].of : ~ Earlier(p, o)'
               /\ events'[i].type = "action_started" => events'[i].of # {o}
    <3>1. CASE i = Len(events) + 1
      <4>1. e.type = "action_started" => got[Latest] = <<>> BY <1>3 DEF Queued, OrderOK
      <4> QED BY <2>3, <3>1, <4>1, <1>1, <1>3, <1>4, <1>5
    <3>2. CASE i \in 1 .. Len(events) BY <2>3, <3>2, <1>1, <1>4 DEF Queued, KnownOK
    <3> QED BY <3>1, <3>2, <1>4
  <2> QED BY <2>1, <2>2, <2>3 DEF KnownOK
<1>8. Collected' = Collected BY <1>1 DEF Collected, InProfiles
<1>9. NotStaleOK' BY <1>1, <1>8 DEF Queued, NotStaleOK
<1>10. DownloadOK'
  <2>1. \A p \in Ops : Followed(p)' = Followed(p) /\ Finals(p)' = Finals(p)
        BY <1>1 DEF Followed, Finals
  <2>2. ASSUME NEW p \in Ops, Over(p) PROVE Over(p)'
    <3>1. {Latest} # {p} /\ \A i \in 1 .. Len(events) : events[i].of # {p} BY <2>2 DEF Over
    <3>2. \A i \in 1 .. Len(events') : i = Len(events) + 1 \/ i \in 1 .. Len(events) BY <1>4
    <3>3. \A i \in 1 .. Len(events') : events'[i].of # {p} BY <3>1, <3>2, <1>4, <1>5
    <3> QED BY <2>2, <3>3 DEF Over
  <2> QED BY <1>1, <2>1, <2>2 DEF Queued, DownloadOK
<1>11. ASSUME CompleteOK, e.type = "action_started" \/ ~ NotYet(Latest) PROVE CompleteOK'
  <2>1. \A p : IsCurrent(p)' <=> IsCurrent(p) BY <1>1 DEF IsCurrent
  <2>2. ASSUME NEW i \in 1 .. Len(events'), events'[i].type # "action_started"
        PROVE  IF i = 1 THEN \A p \in events'[i].of : IsCurrent(p)'
               ELSE events'[i - 1].of = events'[i].of
    <3>1. CASE i \in 1 .. Len(events)
      <4>1. i # 1 => i - 1 \in 1 .. Len(events) BY <3>1, <1>4
      <4> QED BY <3>1, <4>1, <2>1, <2>2, <1>4, <1>11 DEF CompleteOK
    <3>2. CASE i = Len(events) + 1
      <4>1. ~ NotYet(Latest) BY <3>2, <2>2, <1>4, <1>11
      <4>2. IF events = <<>> THEN IsCurrent(Latest) ELSE events[Len(events)].of = {Latest}
            BY <4>1, <1>11 DEF CompleteOK
      <4>3. CASE events = <<>>
        <5>1. i = 1 BY <4>3, <3>2
        <5>2. \A p \in events'[i].of : IsCurrent(p)' BY <4>2, <4>3, <3>2, <2>1, <1>4, <1>5
        <5> QED BY <5>1, <5>2
      <4>4. CASE events # <<>>
        <5>1. i # 1 /\ Len(events) \in 1 .. Len(events) /\ i - 1 = Len(events)
              BY <4>4, <3>2, <1>2
        <5>2. events'[i - 1] = events[Len(events)] BY <5>1, <1>4
        <5> QED BY <4>2, <4>4, <5>1, <5>2, <3>2, <1>4, <1>5
      <4> QED BY <4>3, <4>4
    <3> QED BY <3>1, <3>2, <1>4
  <2>3. events' # <<>> /\ events'[Len(events')].of = {Latest'} BY <1>2, <1>4, <1>5
  <2>4. current'.req # NONE => Collected' \subseteq {current'.req}
        BY <1>11, <1>1, <1>8 DEF CompleteOK
  <2>5. \A o \in Ops : \A i \in 1 .. Len(got'[o]) : got'[o][i].of = {o}
        BY <1>11, <1>1 DEF CompleteOK
  <2> QED BY <2>2, <2>3, <2>4, <2>5 DEF CompleteOK
<1> QED BY <1>6, <1>7, <1>9, <1>10, <1>11 DEF Queued

LEMMA QueueHook ==
    ASSUME IInv, BegunOK, AloneOK, Queued, HookStep, ~ overlapped'
    PROVE  Queued' /\ (CompleteOK => CompleteOK')
<1>1. begun \in Seq(Ops) /\ UNCHANGED store BY DEF IInv, HistoryOK, HookStep
<1>2. starting \in [op: Ops \cup {NONE}, done: 0 .. 5] BY DEF IInv, ContextOK
<1>3. ASSUME begun' = begun, WriteContext PROVE Queued' /\ (CompleteOK => CompleteOK')
  <2>1. PICK o \in Ops, n \in 0 .. 3 : starting = [op |-> o, done |-> n] BY <1>2, <1>3 DEF WriteContext
  <2>2. starting' = [op |-> o, done |-> n + 1] BY <2>1, <1>3 DEF WriteContext
  <2>3. \A p \in Ops : NotYet(p)' <=> NotYet(p) BY <2>1, <2>2 DEF NotYet
  <2>4. events' = events BY <1>3 DEF WriteContext
  <2>5. begun # <<>> => (~ NotYet(Latest)' => ~ NotYet(Latest))
    <3>1. begun # <<>> => Latest \in Ops /\ Latest' = Latest BY <1>1, <1>3, LatestBegan, BegunSame
    <3> QED BY <3>1, <2>1, <2>2 DEF NotYet
  <2> QED BY <1>1, <1>3, <2>3, <2>4, <2>5, QueueUntouched
<1>4. ASSUME begun' = begun, EmitStarted PROVE Queued' /\ (CompleteOK => CompleteOK')
  <2>1. PICK o \in Ops : /\ starting.op = o /\ starting.done = 4 /\ events' = Append(events, Started(o))
                         /\ starting' = [op |-> o, done |-> 5]
        BY <1>4 DEF EmitStarted
  <2>2. begun # <<>> /\ o = Latest BY <2>1, NoneIsNothing DEF BegunOK
  <2>3. context.action = Action[o] /\ context.req = Id(o)
        BY <2>1, NoneIsNothing DEF IInv, ContextOK
  <2>4. ByOwner(Started(o), Latest) /\ Started(o).type = "action_started"
        BY <2>2, <2>3 DEF Started, MakeEvent, Cb, ByOwner
  <2>5. NotYet(Latest) /\ \A p \in Ops : ~ NotYet(p)' BY <2>1, <2>2 DEF NotYet
  <2> QED BY <1>1, <1>4, <2>1, <2>2, <2>4, <2>5, QueueAppend
<1>5. ASSUME begun' = begun, SetOff PROVE Queued' /\ (CompleteOK => CompleteOK')
  <2>1. PICK o \in Ops : /\ starting.op = o /\ starting.done = 5
                         /\ events' = events \/ events' = Append(events, Imei(o))
        BY <1>5 DEF SetOff
  <2>2. starting' = [op |-> NONE, done |-> 0] BY <1>5 DEF SetOff
  <2>3. begun # <<>> /\ o = Latest BY <2>1, NoneIsNothing DEF BegunOK
  <2>4. ~ NotYet(Latest) /\ \A p \in Ops : ~ NotYet(p)' BY <2>1, <2>2, NoneIsNothing DEF NotYet
  <2>5. CASE events' = events BY <1>1, <1>5, <2>4, <2>5, QueueUntouched
  <2>6. CASE events' = Append(events, Imei(o))
    <3>1. context.action = Action[o] /\ context.req = Id(o)
          BY <2>1, NoneIsNothing DEF IInv, ContextOK
    <3>2. ByOwner(Imei(o), Latest) /\ Imei(o).type # "action_started"
          BY <2>3, <3>1 DEF Imei, MakeEvent, Sysprop, Cb, ByOwner
    <3> QED BY <1>1, <1>5, <2>3, <2>4, <2>6, <3>2, QueueAppend
  <2> QED BY <2>1, <2>5, <2>6
<1>6. ASSUME begun' = begun, NEW o \in Ops, BeginEmit(o) \/ ReadRequestId(o)
      PROVE  Queued' /\ (CompleteOK => CompleteOK')
  <2>1. UNCHANGED <<starting, events>> BY <1>6 DEF BeginEmit, ReadRequestId
  <2>2. \A p : NotYet(p)' <=> NotYet(p) BY <2>1 DEF NotYet
  <2>3. ~ NotYet(Latest)' => ~ NotYet(Latest) BY <2>1, <1>6, BegunSame DEF NotYet
  <2> QED BY <1>1, <1>6, <2>1, <2>2, <2>3, QueueUntouched
<1>7. ASSUME begun' = begun, NEW o \in Ops, Offer(o) PROVE Queued' /\ (CompleteOK => CompleteOK')
  <2>1. /\ starting' = starting /\ half[o] # NONE /\ half[o].read
        /\ events' = Append(events, half[o].event)
        BY <1>7 DEF Offer
  <2>2. todo[o] # NONE BY <2>1, NoneIsNoScript DEF IInv, CallbacksOK
  <2>3. Running(o) BY <2>1, <2>2 DEF Running
  <2>4. o = Latest /\ starting.op = NONE BY <2>3 DEF AloneOK
  <2>5. o \in Elements(begun) BY <2>2 DEF BegunOK
  <2>6. begun # <<>> BY <2>5, <1>1, BeganIsOp
  <2>7. ByOwner(half[o].event, Latest) BY <2>1, <2>4 DEF AloneOK, ByOwner
  <2>8. half[o].event.type # "action_started"
        BY <2>1 DEF IInv, CallbacksOK, ACallbackEvent, CallbackTypes
  <2>9. ~ NotYet(Latest) /\ \A p \in Ops : ~ NotYet(p)' BY <2>1, <2>4, NoneIsNothing DEF NotYet
  <2> QED BY <1>1, <1>7, <2>1, <2>6, <2>7, <2>8, <2>9, QueueAppend
<1>8. ASSUME NEW o \in Ops, StartCommand(o), begun' = Append(begun, o)
      PROVE  Queued' /\ (CompleteOK => CompleteOK')
      BY <1>1, <1>8, QueueBegin
<1> QED BY <1>3, <1>4, <1>5, <1>6, <1>7, <1>8, HookCases

-----------------------------------------------------------------------------
(* What an event does to the store.                                         *)
Tells(r, f) == r \in Ops /\ got' = [got EXCEPT ![r] = Append(@, f)]

LEMMA GotGrows ==
    ASSUME got \in [Ops -> Seq(Event)], NEW r, NEW f, Tells(r, f)
    PROVE  /\ \A o \in Ops \ {r} : got'[o] = got[o]
           /\ got'[r] # <<>> /\ Len(got'[r]) = Len(got[r]) + 1 /\ got'[r][Len(got[r]) + 1] = f
           /\ \A i \in 1 .. Len(got[r]) : got'[r][i] = got[r][i]
           /\ Len(got[r]) \in Nat
           /\ \A i \in 1 .. Len(got'[r]) : i \in 1 .. Len(got[r]) \/ i = Len(got[r]) + 1
<1>0. r \in Ops /\ got' = [got EXCEPT ![r] = Append(got[r], f)] BY DEF Tells
<1>1. got'[r] = Append(got[r], f) /\ \A o \in Ops \ {r} : got'[o] = got[o] BY <1>0
<1>2. got[r] \in Seq(Event) BY <1>0
<1>3. /\ Len(got'[r]) = Len(got[r]) + 1 /\ Len(got[r]) \in Nat
      /\ got'[r][Len(got[r]) + 1] = f
      /\ \A i \in 1 .. Len(got[r]) : got'[r][i] = got[r][i]
      BY <1>1, <1>2
<1>4. got'[r] # <<>> BY <1>3
<1> QED BY <1>1, <1>3, <1>4

LEMMA SentTells ==
    ASSUME NEW e \in Event, Sent(e)
    PROVE  (e.req = NONE /\ got' = got) \/ (e.req \in Ops /\ Tells(e.req, e))
<1>1. e.req \in Ops \cup {NONE} BY DEF Event
<1>2. CASE e.req = NONE BY <1>2 DEF Sent
<1>3. CASE e.req # NONE BY <1>1, <1>3 DEF Sent, Tells
<1> QED BY <1>2, <1>3

LEMMA CollectedAfter ==
    ASSUME StoreTypeOK, NEW e \in Event, SyspropUpdate(e)
    PROVE  Collected' \subseteq Collected \cup e.of
<1>1. current' = current BY DEF SyspropUpdate
<1>2. lastIntent'.of \subseteq lastIntent.of \cup e.of BY DEF SyspropUpdate
<1>3. count'.of \subseteq count.of \cup e.of BY DEF SyspropUpdate
<1>4. imei' \subseteq imei \cup e.of BY DEF SyspropUpdate
<1>5. \A i \in Indices : profiles'[i] \subseteq profiles[i] \cup e.of
  <2>1. profiles' = profiles \/ profiles' = [profiles EXCEPT ![e.index] = e.of]
        BY DEF SyspropUpdate
  <2>2. profiles \in [Indices -> SUBSET Ops] BY DEF StoreTypeOK
  <2> QED BY <2>1, <2>2
<1>6. InProfiles' \subseteq InProfiles \cup e.of BY <1>5 DEF InProfiles
<1>7. CASE current.action = "getProfiles"
      BY <1>1, <1>2, <1>3, <1>6, <1>7 DEF Collected
<1>8. CASE current.action # "getProfiles" BY <1>1, <1>2, <1>4, <1>8 DEF Collected
<1> QED BY <1>7, <1>8

(* What is put together comes from what was collected for the current       *)
(* action, and from something.                                              *)
LEMMA ResultOf ==
    ASSUME StoreTypeOK, StoreTypeOK', IntentOK', NEW e \in Event, e.of # {}, SyspropUpdate(e)
    PROVE  \/ got' = got
           \/ /\ current.action \in {"getProfiles"} \cup Getters
              /\ \E f : /\ f.type \in ResultTypes /\ f.of # {} /\ f.of \subseteq Collected' \cup e.of
                        /\ Tells(current.req, f)
<1>1. current' = current BY DEF SyspropUpdate
<1>2. "getProfiles" \notin Getters BY DEF Getters
<1>3. current.req \in Ops \cup {NONE} BY DEF StoreTypeOK
<1>4. ASSUME NEW v, NEW of, current.action \in {"getProfiles"} \cup Getters,
             NEW s, s = [type |-> ResultType(current.action), key |-> NONE, index |-> 0, value |-> v,
                         action |-> current.action, req |-> current.req,
                         of |-> of \cup lastIntent'.of],
             Sent(s)
      PROVE  \/ got' = got
             \/ s.type \in ResultTypes /\ s.of = of \cup lastIntent'.of /\ Tells(current.req, s)
  <2>1. s.type \in ResultTypes /\ s.of = of \cup lastIntent'.of /\ s.req = current.req
        BY <1>4 DEF ResultTypes
  <2>2. CASE current.req = NONE BY <2>1, <2>2, <1>4 DEF Sent
  <2>3. CASE current.req # NONE BY <2>1, <2>3, <1>3, <1>4 DEF Sent, Tells
  <2> QED BY <2>1, <2>2, <2>3
<1>5. CASE ProfilesReady(e)'
  <2>1. current.action = "getProfiles" /\ count'.of # {} BY <1>1, <1>5 DEF ProfilesReady
  <2>2. Sent(Synthesized("success", ProfilesOf)') BY <1>5 DEF SyspropUpdate
  <2>3. PICK s : s = Synthesized("success", ProfilesOf)' OBVIOUS
  <2>4. s = [type |-> ResultType(current.action), key |-> NONE, index |-> 0, value |-> "success",
             action |-> current.action, req |-> current.req, of |-> ProfilesOf' \cup lastIntent'.of]
        BY <1>1, <2>3 DEF Synthesized
  <2>5. got' = got \/ (s.type \in ResultTypes /\ s.of = ProfilesOf' \cup lastIntent'.of
                       /\ Tells(current.req, s))
        BY <2>1, <2>2, <2>3, <2>4, <1>4
  <2>6. ProfilesOf' \cup lastIntent'.of \subseteq Collected'
    <3>1. \A i \in 0 .. count'.n - 1 : i \in Indices
          BY EsimEventsAssumption DEF StoreTypeOK, Indices
    <3>2. profiles' \in [Indices -> SUBSET Ops] BY DEF StoreTypeOK
    <3>3. ProfilesOf' \subseteq count'.of \cup InProfiles'
          BY <3>1, <3>2 DEF ProfilesOf, InProfiles
    <3> QED BY <3>3, <2>1, <1>1 DEF Collected
  <2>7. ProfilesOf' # {} BY <2>1 DEF ProfilesOf
  <2> QED BY <2>1, <2>5, <2>6, <2>7
<1>6. CASE ~ ProfilesReady(e)' /\ ValueReady(e)'
  <2>1. current.action \in Getters BY <1>1, <1>6 DEF ValueReady
  <2>2. Sent(Synthesized("success", e.of \cup imei)') BY <1>6 DEF SyspropUpdate
  <2>3. PICK s : s = Synthesized("success", e.of \cup imei)' OBVIOUS
  <2>4. s = [type |-> ResultType(current.action), key |-> NONE, index |-> 0, value |-> "success",
             action |-> current.action, req |-> current.req, of |-> (e.of \cup imei') \cup lastIntent'.of]
        BY <1>1, <2>3 DEF Synthesized
  <2>5. got' = got \/ (s.type \in ResultTypes /\ s.of = (e.of \cup imei') \cup lastIntent'.of
                       /\ Tells(current.req, s))
        BY <2>1, <2>2, <2>3, <2>4, <1>4
  <2>6. (e.of \cup imei') \cup lastIntent'.of \subseteq Collected' \cup e.of
        BY <2>1, <1>1, <1>2 DEF Collected
  <2> QED BY <2>1, <2>5, <2>6
<1>7. CASE ~ ProfilesReady(e)' /\ ~ ValueReady(e)' /\ NoActiveProfile(e)'
  <2>1. current.action \in Getters /\ lastIntent'.value = "No Active profile"
        BY <1>1, <1>7 DEF NoActiveProfile
  <2>2. Sent(Synthesized("no_active_profile", {})') BY <1>7 DEF SyspropUpdate
  <2>3. PICK s : s = Synthesized("no_active_profile", {})' OBVIOUS
  <2>4. s = [type |-> ResultType(current.action), key |-> NONE, index |-> 0,
             value |-> "no_active_profile", action |-> current.action, req |-> current.req,
             of |-> {} \cup lastIntent'.of]
        BY <1>1, <2>3 DEF Synthesized
  <2>5. got' = got \/ (s.type \in ResultTypes /\ s.of = {} \cup lastIntent'.of
                       /\ Tells(current.req, s))
        BY <2>1, <2>2, <2>3, <2>4, <1>4
  <2>6. lastIntent'.of \subseteq Collected' BY <2>1, <1>1, <1>2 DEF Collected
  <2>7. "No Active profile" # NONE BY EsimEventsAssumption DEF Values
  <2>8. lastIntent'.of # {} BY <2>1, <2>7 DEF IntentOK
  <2> QED BY <2>1, <2>5, <2>6, <2>8
<1>8. CASE ~ ProfilesReady(e)' /\ ~ ValueReady(e)' /\ ~ NoActiveProfile(e)'
      BY <1>8 DEF SyspropUpdate
<1> QED BY <1>5, <1>6, <1>7, <1>8

LEMMA IntentAfter ==
    ASSUME IntentOK, NEW e \in Event, e.of # {}, OnEvent(e)
    PROVE  IntentOK'
<1>1. CASE ActionStarted(e) BY <1>1 DEF ActionStarted, IntentOK
<1>2. CASE SyspropUpdate(e) BY <1>2 DEF SyspropUpdate, IntentOK
<1>3. CASE ForwardOfDownload(e) BY <1>3 DEF ForwardOfDownload, IntentOK
<1> QED BY <1>1, <1>2, <1>3 DEF OnEvent

(* The three ways in which an event changes what is known.                  *)
LEMMA EventCases ==
    ASSUME StoreTypeOK, StoreTypeOK', IntentOK', NEW e \in Event, e.of # {}, OnEvent(e)
    PROVE  \/ /\ e.type = "action_started"
              /\ current' = [action |-> e.action, req |-> e.req] /\ Collected' = {}
              /\ (e.req = NONE /\ got' = got) \/ Tells(e.req, e)
           \/ /\ e.type # "action_started"
              /\ current' = current /\ Collected' \subseteq Collected \cup e.of
              /\ \/ got' = got
                 \/ Tells(e.req, e)
                 \/ /\ current.action \in {"getProfiles"} \cup Getters
                    /\ \E f : /\ f.type \in ResultTypes /\ f.of # {}
                              /\ f.of \subseteq Collected' \cup e.of /\ Tells(current.req, f)
<1>1. CASE ActionStarted(e)
  <2>1. e.type = "action_started" /\ current' = [action |-> e.action, req |-> e.req] /\ Sent(e)
        BY <1>1 DEF ActionStarted
  <2>2. Collected' = {}
    <3>1. CASE e.action = "getProfiles"
      <4>1. /\ lastIntent'.of = {} /\ count'.of = {} /\ \A i \in Indices : profiles'[i] = {}
            BY <1>1, <3>1 DEF ActionStarted
      <4>2. InProfiles' = {} BY <4>1 DEF InProfiles
      <4> QED BY <4>1, <4>2, <2>1, <3>1 DEF Collected
    <3>2. CASE e.action \in Getters /\ e.action # "getProfiles"
      <4>1. lastIntent'.of = {} /\ imei' = {} BY <1>1, <3>2 DEF ActionStarted
      <4> QED BY <4>1, <2>1, <3>2 DEF Collected
    <3>3. CASE e.action \notin Getters /\ e.action # "getProfiles" BY <2>1, <3>3 DEF Collected
    <3> QED BY <3>1, <3>2, <3>3
  <2> QED BY <2>1, <2>2, SentTells
<1>2. CASE SyspropUpdate(e)
  <2>1. e.type = "sysprop_update" /\ current' = current BY <1>2 DEF SyspropUpdate
  <2> QED BY <1>2, <2>1, ResultOf, CollectedAfter
<1>3. CASE ForwardOfDownload(e)
  <2>1. e.type # "action_started" /\ UNCHANGED <<current, lastIntent, profiles, count, imei>>
        BY <1>3 DEF ForwardOfDownload
  <2>2. Collected' = Collected BY <2>1 DEF Collected, InProfiles
  <2>3. got' = got \/ Sent(e) BY <1>3 DEF ForwardOfDownload
  <2> QED BY <2>1, <2>2, <2>3, SentTells
<1> QED BY <1>1, <1>2, <1>3 DEF OnEvent

-----------------------------------------------------------------------------
(* What the queue looks like once its first event has left it.              *)
LEMMA TailOf ==
    ASSUME IInv, events # <<>>, events' = Tail(events)
    PROVE  /\ Len(events') = Len(events) - 1 /\ Len(events) \in Nat \ {0}
           /\ \A i \in 1 .. Len(events') : events'[i] = events[i + 1] /\ i + 1 \in 1 .. Len(events)
           /\ Head(events) = events[1] /\ 1 \in 1 .. Len(events)
           /\ Head(events) \in ACallbackEvent \cup AStart /\ Head(events) \in Event
<1>1. events \in Seq(ACallbackEvent \cup AStart) BY DEF IInv, QueueOK
<1>2. Head(events) \in ACallbackEvent \cup AStart BY <1>1
<1>3. Head(events) \in Event BY <1>2 DEF ACallbackEvent, AStart
<1> QED BY <1>1, <1>2, <1>3

LEMMA QueueRest ==
    ASSUME IInv, BegunOK, OrderOK, events # <<>>, events' = Tail(events), begun' = begun,
           NEW e, e = Head(events)
    PROVE  /\ \A i \in 1 .. Len(events') : \E p \in Elements(begun)' : ByOwner(events'[i], p)
           /\ \A i, j \in 1 .. Len(events') : i < j =>
                 /\ \A p \in events'[i].of, q \in events'[j].of : ~ Earlier(q, p)'
                 /\ events'[j].type = "action_started" => events'[i].of # events'[j].of
           /\ \E p \in Elements(begun) :
                 /\ ByOwner(e, p) /\ p \in Ops
                 /\ \A j \in 1 .. Len(events') :
                       /\ \A q \in events'[j].of : ~ Earlier(q, p)
                       /\ events'[j].type = "action_started" => events'[j].of # {p}
<1> USE BegunSame
<1>1. /\ Len(events') = Len(events) - 1 /\ Len(events) \in Nat \ {0}
      /\ \A i \in 1 .. Len(events') : events'[i] = events[i + 1] /\ i + 1 \in 1 .. Len(events)
      /\ e = events[1] /\ 1 \in 1 .. Len(events)
      BY TailOf
<1>2. \A i \in 1 .. Len(events') : \E p \in Elements(begun)' : ByOwner(events'[i], p)
      BY <1>1 DEF OrderOK
<1>3. ASSUME NEW i \in 1 .. Len(events'), NEW j \in 1 .. Len(events'), i < j
      PROVE  /\ \A p \in events'[i].of, q \in events'[j].of : ~ Earlier(q, p)'
             /\ events'[j].type = "action_started" => events'[i].of # events'[j].of
  <2>1. i + 1 < j + 1 /\ i + 1 \in 1 .. Len(events) /\ j + 1 \in 1 .. Len(events) BY <1>1, <1>3
  <2>2. /\ \A p \in events[i + 1].of, q \in events[j + 1].of : ~ Earlier(q, p)
        /\ events[j + 1].type = "action_started" => events[i + 1].of # events[j + 1].of
        BY <2>1 DEF OrderOK
  <2> QED BY <2>2, <1>1
<1>4. PICK p \in Elements(begun) : ByOwner(e, p) BY <1>1 DEF OrderOK
<1>5. p \in Ops BY <1>4, BeganIsOp DEF IInv, HistoryOK
<1>6. p \in e.of /\ e.of = {p} BY <1>4 DEF ByOwner
<1>7. ASSUME NEW j \in 1 .. Len(events')
      PROVE  /\ \A q \in events'[j].of : ~ Earlier(q, p)
             /\ events'[j].type = "action_started" => events'[j].of # {p}
  <2>1. 1 < j + 1 /\ j + 1 \in 1 .. Len(events) BY <1>1
  <2>2. /\ \A x \in events[1].of, q \in events[j + 1].of : ~ Earlier(q, x)
        /\ events[j + 1].type = "action_started" => events[1].of # events[j + 1].of
        BY <2>1, <1>1 DEF OrderOK
  <2> QED BY <2>2, <1>1, <1>6
<1> QED BY <1>2, <1>3, <1>4, <1>5, <1>7

LEMMA KnownRest ==
    ASSUME IInv, KnownOK, events # <<>>, events' = Tail(events), begun' = begun,
           NEW o \in Ops, got[o] # <<>>
    PROVE  /\ o \in Elements(begun)'
           /\ \A i \in 1 .. Len(events') :
                 /\ \A q \in events'[i].of : ~ Earlier(q, o)'
                 /\ events'[i].type = "action_started" => events'[i].of # {o}
BY TailOf, BegunSame DEF KnownOK

LEMMA QueueLose ==
    ASSUME IInv, BegunOK, Queued, Lose
    PROVE  Queued'
<1> USE BegunSame
<1>1. /\ events # <<>> /\ events' = Tail(events) /\ begun' = begun /\ starting' = starting
      /\ UNCHANGED <<current, lastIntent, profiles, count, imei, download, got>>
      BY DEF Lose, store, history
<1>2. \A i \in 1 .. Len(events') : events'[i] = events[i + 1] /\ i + 1 \in 1 .. Len(events)
      BY <1>1, TailOf
<1>3. OrderOK'
  <2>1. \A o \in Ops : NotYet(o)' =>
           got'[o] = <<>> /\ \A i \in 1 .. Len(events') : events'[i].of # {o}
        BY <1>1, <1>2 DEF Queued, OrderOK, NotYet
  <2> QED BY <1>1, <2>1, QueueRest DEF Queued, OrderOK
<1>4. KnownOK'
  <2>1. current'.req # NONE => got'[current'.req] # <<>> BY <1>1 DEF Queued, KnownOK
  <2> QED BY <1>1, <2>1, KnownRest DEF Queued, KnownOK
<1>5. NotStaleOK'
  <2>1. Collected' = Collected BY <1>1 DEF Collected, InProfiles
  <2> QED BY <1>1, <2>1 DEF Queued, NotStaleOK
<1>6. DownloadOK'
  <2>1. \A p \in Ops : Followed(p)' = Followed(p) /\ Finals(p)' = Finals(p)
        BY <1>1 DEF Followed, Finals
  <2>2. \A p \in Ops : Over(p) => Over(p)' BY <1>1, <1>2 DEF Over
  <2> QED BY <1>1, <2>1, <2>2 DEF Queued, DownloadOK
<1> QED BY <1>3, <1>4, <1>5, <1>6 DEF Queued

(* Handling an event, in what it has to do with the order of operations.    *)
LEMMA QueueDeliver ==
    ASSUME IInv, IInv', BegunOK, IntentOK, Queued, Deliver
    PROVE  IntentOK' /\ OrderOK' /\ KnownOK' /\ NotStaleOK' /\ (CompleteOK => CompleteOK')
<1> USE BegunSame
<1>1. /\ events # <<>> /\ events' = Tail(events) /\ begun' = begun /\ starting' = starting
      BY DEF Deliver, history
<1>2. PICK e : e = Head(events) /\ OnEvent(e) BY DEF Deliver
<1>3. /\ Len(events') = Len(events) - 1 /\ Len(events) \in Nat \ {0}
      /\ \A i \in 1 .. Len(events') : events'[i] = events[i + 1] /\ i + 1 \in 1 .. Len(events)
      /\ e = events[1] /\ 1 \in 1 .. Len(events) /\ e \in Event
      BY <1>1, <1>2, TailOf
<1>4. PICK p \in Elements(begun) :
         /\ ByOwner(e, p) /\ p \in Ops
         /\ \A j \in 1 .. Len(events') :
               /\ \A q \in events'[j].of : ~ Earlier(q, p)
               /\ events'[j].type = "action_started" => events'[j].of # {p}
      BY <1>1, <1>2, QueueRest DEF Queued
<1>5. e.of = {p} /\ e.action = Action[p] /\ e.req = Id(p) BY <1>4 DEF ByOwner
<1>6. Id(p) = p \/ Id(p) = NONE BY DEF Id
<1>7. IntentOK'
  <2>1. e.of # {} BY <1>5
  <2> QED BY <1>2, <1>3, <2>1, IntentAfter
<1>8. \/ /\ e.type = "action_started"
         /\ current' = [action |-> e.action, req |-> e.req] /\ Collected' = {}
         /\ (e.req = NONE /\ got' = got) \/ Tells(e.req, e)
      \/ /\ e.type # "action_started"
         /\ current' = current /\ Collected' \subseteq Collected \cup e.of
         /\ \/ got' = got
            \/ Tells(e.req, e)
            \/ /\ current.action \in {"getProfiles"} \cup Getters
               /\ \E f : /\ f.type \in ResultTypes /\ f.of # {}
                         /\ f.of \subseteq Collected' \cup e.of /\ Tells(current.req, f)
  <2>1. e.of # {} BY <1>5
  <2> QED BY <1>2, <1>3, <1>7, <2>1, EventCases DEF IInv
<1>9. got \in [Ops -> Seq(Event)] /\ current.req \in Ops \cup {NONE}
      BY DEF IInv, StoreTypeOK
<1>10. begun \in Seq(Ops) BY DEF IInv, HistoryOK
<1>11. /\ \A q : ~ Earlier(q, q)
       /\ \A q, r \in Elements(begun) : q # r => Earlier(q, r) \/ Earlier(r, q)
       BY <1>10, EarlierOrder
(* Who has heard anything afterwards.                                       *)
<1>12. /\ \A o \in Ops : got'[o] # <<>> => got[o] # <<>> \/ o = p
       /\ \A o \in Ops : got[o] # <<>> => got'[o] # <<>>
  <2>1. CASE got' = got BY <2>1
  <2>2. CASE Tells(e.req, e) /\ got' # got
    <3>1. e.req = p BY <2>2, <1>5, <1>6, NoneIsNothing DEF Tells
    <3> QED BY <2>2, <3>1, <1>9, GotGrows
  <2>3. ASSUME NEW f, Tells(current.req, f)
        PROVE  /\ \A o \in Ops : got'[o] # <<>> => got[o] # <<>> \/ o = p
               /\ \A o \in Ops : got[o] # <<>> => got'[o] # <<>>
    <3>1. current.req \in Ops /\ got[current.req] # <<>>
          BY <2>3, NoneIsNothing DEF Tells, Queued, KnownOK
    <3> QED BY <2>3, <3>1, <1>9, GotGrows
  <2> QED BY <1>8, <2>1, <2>2, <2>3
<1>13. OrderOK'
  <2>1. ASSUME NEW o \in Ops, NotYet(o)'
        PROVE  got'[o] = <<>> /\ \A i \in 1 .. Len(events') : events'[i].of # {o}
    <3>1. NotYet(o) BY <2>1, <1>1 DEF NotYet
    <3>2. got[o] = <<>> /\ \A i \in 1 .. Len(events) : events[i].of # {o}
          BY <3>1 DEF Queued, OrderOK
    <3>3. o # p BY <3>2, <1>3, <1>5
    <3>4. got'[o] = <<>> BY <3>2, <3>3, <1>12, Zenon
    <3>5. ASSUME NEW i \in 1 .. Len(events') PROVE events'[i].of # {o}
      <4>1. events'[i] = events[i + 1] /\ i + 1 \in 1 .. Len(events) BY <1>3, Zenon
      <4> QED BY <3>2, <4>1, Zenon
    <3> QED BY <3>4, <3>5, Zenon
  <2> QED BY <2>1, <1>1, QueueRest DEF Queued, OrderOK
<1>14. KnownOK'
  <2>1. ASSUME NEW o \in Ops, got'[o] # <<>>
        PROVE  /\ o \in Elements(begun)'
               /\ \A i \in 1 .. Len(events') :
                     /\ \A q \in events'[i].of : ~ Earlier(q, o)'
                     /\ events'[i].type = "action_started" => events'[i].of # {o}
    <3>1. CASE got[o] # <<>> BY <3>1, <1>1, KnownRest DEF Queued
    <3>2. CASE o = p BY <3>2, <1>1, <1>4
    <3> QED BY <2>1, <3>1, <3>2, <1>12
  <2>2. current'.req # NONE => got'[current'.req] # <<>>
    <3>1. CASE e.type = "action_started"
      <4>1. current'.req = e.req /\ (e.req = NONE \/ Tells(e.req, e)) BY <3>1, <1>8
      <4> QED BY <4>1, <1>9, GotGrows
    <3>2. CASE e.type # "action_started"
      <4>1. current' = current BY <3>2, <1>8
      <4>2. current.req # NONE => got[current.req] # <<>> BY DEF Queued, KnownOK
      <4> QED BY <4>1, <4>2, <1>9, <1>12
    <3> QED BY <3>1, <3>2
  <2> QED BY <2>1, <2>2 DEF KnownOK
(* Nothing older than the current operation is collected for it.            *)
<1>15. current'.req # NONE => \A q \in Collected' : ~ Earlier(q, current.req) /\ current' = current
  <2>1. CASE e.type = "action_started" BY <2>1, <1>8
  <2>2. CASE e.type # "action_started"
    <3>1. current' = current /\ Collected' \subseteq Collected \cup {p} BY <2>2, <1>5, <1>8
    <3>2. current.req # NONE => ~ Earlier(p, current.req)
          BY <1>3, <1>5, <1>9 DEF Queued, KnownOK
    <3> QED BY <3>1, <3>2 DEF Queued, NotStaleOK
  <2> QED BY <2>1, <2>2
<1>16. NotStaleOK'
  <2>1. ASSUME NEW o \in Ops, NEW i \in 1 .. Len(got'[o]), NEW q \in got'[o][i].of
        PROVE  ~ Earlier(q, o)
    <3>1. CASE got'[o] = got[o] BY <3>1 DEF Queued, NotStaleOK
    <3>2. CASE Tells(e.req, e) /\ got'[o] # got[o]
      <4>1. o = e.req /\ o = p BY <3>2, <1>5, <1>6, <1>9, GotGrows, NoneIsNothing DEF Tells
      <4>2. i \in 1 .. Len(got[o]) \/ got'[o][i] = e BY <3>2, <4>1, <1>9, GotGrows
      <4>3. i \in 1 .. Len(got[o]) => got'[o][i] = got[o][i] BY <3>2, <4>1, <1>9, GotGrows
      <4>4. CASE i \in 1 .. Len(got[o]) BY <4>3, <4>4 DEF Queued, NotStaleOK
      <4>5. CASE got'[o][i] = e BY <4>1, <4>5, <1>5, <1>11
      <4> QED BY <4>2, <4>4, <4>5
    <3>3. ASSUME NEW f, Tells(current.req, f), f.of \subseteq Collected' \cup e.of,
                 current' = current, got'[o] # got[o]
          PROVE  ~ Earlier(q, o)
      <4>1. o = current.req /\ o # NONE BY <3>3, <1>9, GotGrows, NoneIsNothing
      <4>2. i \in 1 .. Len(got[o]) \/ got'[o][i] = f BY <3>3, <4>1, <1>9, GotGrows
      <4>3. i \in 1 .. Len(got[o]) => got'[o][i] = got[o][i] BY <3>3, <4>1, <1>9, GotGrows
      <4>4. CASE i \in 1 .. Len(got[o]) BY <4>3, <4>4 DEF Queued, NotStaleOK
      <4>5. CASE got'[o][i] = f
        <5>1. q \in Collected' \/ q = p BY <4>5, <3>3, <1>5
        <5>2. ~ Earlier(p, o) BY <4>1, <1>3, <1>5, <1>9 DEF Queued, KnownOK
        <5> QED BY <5>1, <5>2, <4>1, <3>3, <1>15
      <4> QED BY <4>2, <4>4, <4>5
    <3> QED BY <1>8, <3>1, <3>2, <3>3
  <2>2. \A o \in Ops : \A i \in 1 .. Len(got'[o]) : \A q \in got'[o][i].of : ~ Earlier(q, o)'
        BY <2>1, <1>1
  <2>3. ASSUME current'.req # NONE, NEW q \in Collected' PROVE ~ Earlier(q, current.req)'
    <3>1. current' = current /\ ~ Earlier(q, current.req) BY <2>3, <1>15
    <3>2. PICK r : r = current.req OBVIOUS
    <3>3. ~ Earlier(q, r)' BY <3>1, <3>2, <1>1
    <3> QED BY <3>1, <3>2, <3>3
  <2> QED BY <2>2, <2>3 DEF NotStaleOK
(* If nothing is lost: the store is where the queue begins.                 *)
<1>17. ASSUME CompleteOK PROVE CompleteOK'
  <2>1. IsCurrent(p)' /\ \A q : IsCurrent(q) /\ e.type # "action_started" => IsCurrent(q)'
    <3>1. CASE e.type = "action_started" BY <3>1, <1>5, <1>8 DEF IsCurrent
    <3>2. CASE e.type # "action_started"
      <4>1. IsCurrent(p) BY <3>2, <1>3, <1>5, <1>17 DEF CompleteOK
      <4>2. current' = current BY <3>2, <1>8
      <4> QED BY <4>1, <4>2 DEF IsCurrent
    <3> QED BY <3>1, <3>2
  <2>2. ASSUME NEW i \in 1 .. Len(events'), events'[i].type # "action_started"
        PROVE  IF i = 1 THEN \A q \in events'[i].of : IsCurrent(q)'
               ELSE events'[i - 1].of = events'[i].of
    <3>1. i + 1 \in 1 .. Len(events) /\ i + 1 # 1 /\ events[i + 1] = events'[i] BY <1>3
    <3>2. events[(i + 1) - 1].of = events[i + 1].of BY <3>1, <2>2, <1>17 DEF CompleteOK
    <3>3. events[i].of = events'[i].of BY <3>1, <3>2
    <3>4. CASE i = 1 BY <3>3, <3>4, <1>3, <1>5, <2>1
    <3>5. CASE i # 1
      <4>1. i - 1 \in 1 .. Len(events') BY <3>5, <1>3
      <4>2. events'[i - 1] = events[(i - 1) + 1] BY <4>1, <1>3
      <4> QED BY <4>2, <3>3, <3>5
    <3> QED BY <3>4, <3>5
  <2>3. ASSUME begun' # <<>>, ~ NotYet(Latest)'
        PROVE  IF events' = <<>> THEN IsCurrent(Latest)' ELSE events'[Len(events')].of = {Latest'}
    <3>1. begun # <<>> /\ Latest' = Latest /\ ~ NotYet(Latest) BY <2>3, <1>1 DEF NotYet
    <3>2. events[Len(events)].of = {Latest}
          BY <3>1, <1>1, <1>17 DEF CompleteOK
    <3>3. CASE events' = <<>>
      <4>1. Len(events) = 1 BY <3>3, <1>3
      <4>2. p = Latest BY <4>1, <3>2, <1>3, <1>5
      <4>3. IsCurrent(Latest)' BY <4>2, <3>1, <2>1 DEF IsCurrent
      <4> QED BY <4>3, <3>3
    <3>4. CASE events' # <<>>
      <4>1. Len(events') \in 1 .. Len(events')
        <5>1. events' \in Seq(ACallbackEvent \cup AStart) BY DEF IInv, QueueOK
        <5> QED BY <5>1, <3>4
      <4>2. events'[Len(events')] = events[Len(events)] BY <4>1, <1>3
      <4> QED BY <4>2, <3>1, <3>2, <3>4
    <3> QED BY <3>3, <3>4
  <2>4. current'.req # NONE => Collected' \subseteq {current'.req}
    <3>1. CASE e.type = "action_started" BY <3>1, <1>8
    <3>2. CASE e.type # "action_started"
      <4>1. current' = current /\ Collected' \subseteq Collected \cup {p} BY <3>2, <1>5, <1>8
      <4>2. current.req = Id(p) BY <3>2, <1>3, <1>5, <1>17 DEF CompleteOK, IsCurrent
      <4>3. current.req # NONE => p = current.req /\ Collected \subseteq {current.req}
            BY <4>2, <1>6, <1>17 DEF CompleteOK
      <4> QED BY <4>1, <4>3
    <3> QED BY <3>1, <3>2
  <2>5. ASSUME NEW o \in Ops, NEW i \in 1 .. Len(got'[o]) PROVE got'[o][i].of = {o}
    <3>1. CASE got'[o] = got[o] BY <3>1, <1>17 DEF CompleteOK
    <3>2. CASE Tells(e.req, e) /\ got'[o] # got[o]
      <4>1. o = e.req /\ o = p BY <3>2, <1>5, <1>6, <1>9, GotGrows, NoneIsNothing DEF Tells
      <4>2. i \in 1 .. Len(got[o]) \/ got'[o][i] = e BY <3>2, <4>1, <1>9, GotGrows
      <4>3. i \in 1 .. Len(got[o]) => got'[o][i] = got[o][i] BY <3>2, <4>1, <1>9, GotGrows
      <4> QED BY <4>1, <4>2, <4>3, <1>5, <1>17 DEF CompleteOK
    <3>3. ASSUME NEW f, Tells(current.req, f), f.of # {}, f.of \subseteq Collected' \cup e.of,
                 e.type # "action_started", current' = current, got'[o] # got[o]
          PROVE  got'[o][i].of = {o}
      <4>1. o = current.req /\ o # NONE BY <3>3, <1>9, GotGrows, NoneIsNothing
      <4>2. i \in 1 .. Len(got[o]) \/ got'[o][i] = f BY <3>3, <4>1, <1>9, GotGrows
      <4>3. i \in 1 .. Len(got[o]) => got'[o][i] = got[o][i] BY <3>3, <4>1, <1>9, GotGrows
      <4>4. p = o
        <5>1. current.req = Id(p) BY <3>3, <1>3, <1>5, <1>17 DEF CompleteOK, IsCurrent
        <5> QED BY <5>1, <4>1, <1>6
      <4>5. f.of = {o} BY <3>3, <4>1, <4>4, <2>4, <1>5
      <4> QED BY <4>2, <4>3, <4>5, <1>17 DEF CompleteOK
    <3> QED BY <1>8, <3>1, <3>2, <3>3
  <2> QED BY <2>2, <2>3, <2>4, <2>5, <1>1 DEF CompleteOK
<1> QED BY <1>7, <1>13, <1>14, <1>16, <1>17

(* Handling an event, in what it has to do with downloads.                  *)
LEMMA DownloadDeliver ==
    ASSUME IInv, IInv', BegunOK, IntentOK, Queued, Deliver
    PROVE  DownloadOK'
<1> USE BegunSame
<1>1. /\ events # <<>> /\ events' = Tail(events) /\ begun' = begun
      BY DEF Deliver, history
<1>2. PICK e : e = Head(events) /\ OnEvent(e) BY DEF Deliver
<1>3. /\ \A i \in 1 .. Len(events') : events'[i] = events[i + 1] /\ i + 1 \in 1 .. Len(events)
      /\ e = events[1] /\ 1 \in 1 .. Len(events) /\ e \in Event
      BY <1>1, <1>2, TailOf
<1>4. PICK p \in Elements(begun) :
         /\ ByOwner(e, p) /\ p \in Ops
         /\ \A j \in 1 .. Len(events') :
               /\ \A q \in events'[j].of : ~ Earlier(q, p)
               /\ events'[j].type = "action_started" => events'[j].of # {p}
      BY <1>1, <1>2, QueueRest DEF Queued
<1>5. e.of = {p} /\ e.action = Action[p] /\ e.req = Id(p) BY <1>4 DEF ByOwner
<1>6. Id(p) = p \/ Id(p) = NONE BY DEF Id
<1>7. got \in [Ops -> Seq(Event)] /\ current.req \in Ops \cup {NONE}
      BY DEF IInv, StoreTypeOK
<1>8. begun \in Seq(Ops) /\ begun # <<>> BY <1>4, BeganIsOp DEF IInv, HistoryOK
<1>9. /\ \A q, r \in Elements(begun) : q # r => Earlier(q, r) \/ Earlier(r, q)
      /\ \A q : ~ Earlier(Latest, q)
      BY <1>8, EarlierOrder, NothingAfterLatest
<1>10. /\ Verify \notin {"getProfiles"} \cup Getters /\ Verify \in Downloads
       /\ "action_started" \notin {"sysprop_update", "profile_mutation_result",
                                   "download_progress", "download_result"}
       BY DEF Verify, Getters, Downloads
(* A property update tells a download nothing.                              *)
<1>11. ASSUME NEW o \in Ops, Action[o] = Verify, SyspropUpdate(e) PROVE got'[o] = got[o]
  <2>1. e.of # {} BY <1>5
  <2>2. IntentOK' BY <1>2, <1>3, <2>1, IntentAfter
  <2>3. \/ got' = got
        \/ current.action \in {"getProfiles"} \cup Getters /\ \E f : Tells(current.req, f)
        BY <1>3, <1>11, <2>1, <2>2, ResultOf DEF IInv
  <2>4. ASSUME NEW f, Tells(current.req, f), current.action \in {"getProfiles"} \cup Getters
        PROVE  got'[o] = got[o]
    <3>1. current.req # NONE BY <2>4, NoneIsNothing DEF Tells
    <3>2. current.action = Action[current.req] BY <3>1 DEF IInv, CurrentOK
    <3>3. current.req # o BY <3>2, <2>4, <1>10, <1>11
    <3> QED BY <3>3, <2>4, <1>7, GotGrows
  <2> QED BY <2>3, <2>4
<1>12. ASSUME NEW o \in Ops, Action[o] = Verify, o # p PROVE got'[o] = got[o]
  <2>1. CASE SyspropUpdate(e) BY <2>1, <1>11, <1>12
  <2>2. CASE ~ SyspropUpdate(e)
    <3>1. got' = got \/ Sent(e) BY <1>2, <2>2 DEF OnEvent, ActionStarted, ForwardOfDownload
    <3>2. got' = got \/ Tells(e.req, e) BY <3>1, <1>3, SentTells
    <3>3. e.req # o \/ got' = got BY <3>2, <1>5, <1>6, <1>12, NoneIsNothing DEF Tells
    <3> QED BY <3>2, <3>3, <1>7, GotGrows
  <2> QED BY <2>1, <2>2
<1>13. ASSUME NEW o \in Ops, Over(o) PROVE Over(o)' /\ o # p
  <2>1. Over(o)' BY <1>13, <1>1, <1>3 DEF Over
  <2>2. events[1].of # {o} BY <1>13, <1>3 DEF Over
  <2> QED BY <2>1, <2>2, <1>3, <1>5
<1>14. ASSUME NEW o \in Ops, got[o] # <<>>, o # p PROVE Over(o)'
  <2>1. o \in Elements(begun) /\ ~ Earlier(p, o) BY <1>14, <1>3, <1>5 DEF Queued, KnownOK
  <2>2. Earlier(o, p) BY <2>1, <1>4, <1>9, <1>14
  <2>3. o # Latest BY <2>2, <1>9
  <2>4. ASSUME NEW j \in 1 .. Len(events'), events'[j].of = {o} PROVE FALSE
        BY <2>2, <2>4, <1>4
  <2> QED BY <2>3, <2>4, <1>1 DEF Over
<1>15. ASSUME NEW o \in Ops, got'[o] = got[o] PROVE Finals(o)' = Finals(o)
       BY <1>15 DEF Finals
<1> SUFFICES ASSUME NEW o \in Ops, Action[o] = Verify, got'[o] # <<>>,
                    got'[o][1].type = "action_started"
             PROVE  /\ Over(o)' \/ (Followed(o)' /\ (Finals(o)' # {} => download'.ended))
                    /\ Finals(o)' \subseteq {Len(got'[o])}
    BY DEF DownloadOK
<1>16. CASE o # p
  <2>1. got'[o] = got[o] BY <1>12, <1>16
  <2>2. Over(o)' BY <2>1, <1>14, <1>16
  <2>3. Finals(o)' \subseteq {Len(got'[o])} BY <2>1, <1>15 DEF Queued, DownloadOK
  <2> QED BY <2>2, <2>3
<1>17. CASE o = p /\ got[o] # <<>>
  <2>1. got[o] \in Seq(Event) /\ 1 \in 1 .. Len(got[o]) BY <1>7, <1>17
  <2>2. e.type # "action_started" BY <1>3, <1>5, <1>17 DEF Queued, KnownOK
  <2>3. got'[o][1] = got[o][1]
    <3>1. CASE SyspropUpdate(e) BY <3>1, <1>11
    <3>2. CASE ForwardOfDownload(e)
      <4>1. got' = got \/ Tells(e.req, e) BY <3>2, <1>3, SentTells DEF ForwardOfDownload
      <4> QED BY <4>1, <2>1, <1>7, GotGrows
    <3>3. ~ ActionStarted(e) BY <2>2 DEF ActionStarted
    <3> QED BY <3>1, <3>2, <3>3, <1>2 DEF OnEvent
  <2>4. ~ Over(o) BY <1>13, <1>17
  <2>5. /\ Followed(o) /\ (Finals(o) # {} => download.ended)
        /\ Finals(o) \subseteq {Len(got[o])}
        BY <2>3, <2>4, <1>17 DEF Queued, DownloadOK
  <2>6. CASE SyspropUpdate(e)
    <3>1. got'[o] = got[o] /\ download' = download BY <2>6, <1>11 DEF SyspropUpdate
    <3>2. Followed(o)' BY <3>1, <2>5 DEF Followed
    <3> QED BY <3>1, <3>2, <2>5, <1>15
  <2>7. CASE ForwardOfDownload(e) /\ got' = got
    <3>1. /\ download'.req = download.req /\ download'.action = download.action
          /\ download.ended => download'.ended
      <4>1. download \in [req: Ops \cup {NONE}, action: Downloads \cup {NONE}, ended: BOOLEAN]
            BY DEF IInv, StoreTypeOK
      <4>2. \/ download' = download
            \/ download' = [download EXCEPT !.ended = download.ended \/ IsTerminalDownloadEvent(e)]
            BY <2>7 DEF ForwardOfDownload
      <4> QED BY <4>1, <4>2
    <3>2. Followed(o)' BY <3>1, <2>5 DEF Followed
    <3> QED BY <3>1, <3>2, <2>5, <2>7, <1>15
  <2>8. CASE ForwardOfDownload(e) /\ got' # got
    <3>1. Sent(e) BY <2>8 DEF ForwardOfDownload
    <3>2. e.req = o /\ Tells(o, e)
      <4>1. e.req \in Ops /\ Tells(e.req, e) BY <3>1, <2>8, <1>3, SentTells
      <4>2. e.req = o BY <4>1, <1>5, <1>6, <1>17, NoneIsNothing
      <4> QED BY <4>1, <4>2
    <3>3. ActionOf(e) = Verify
      <4>1. Verify # NONE BY EsimEventsAssumption DEF Values, Actions, Downloads
      <4> QED BY <4>1, <1>5, <1>17 DEF ActionOf
    <3>4. MatchesActiveDownload(e)
          BY <3>2, <3>3, <2>5, <1>10 DEF MatchesActiveDownload, Followed
    <3>5. ~ download.ended /\ download' = [download EXCEPT !.ended = @ \/ IsTerminalDownloadEvent(e)]
          BY <2>8, <3>4 DEF ForwardOfDownload
    <3>6. Finals(o) = {} BY <3>5, <2>5
    <3>7. /\ Len(got'[o]) = Len(got[o]) + 1 /\ got'[o][Len(got[o]) + 1] = e
          /\ \A i \in 1 .. Len(got[o]) : got'[o][i] = got[o][i]
          /\ \A i \in 1 .. Len(got'[o]) : i \in 1 .. Len(got[o]) \/ i = Len(got[o]) + 1
          BY <3>2, <1>7, GotGrows
    <3>8. ASSUME NEW i \in Finals(o)' PROVE i = Len(got'[o]) /\ IsFinal(o, e)
      <4>1. i \in 1 .. Len(got'[o]) /\ IsFinal(o, got'[o][i]) BY DEF Finals
      <4>2. i \notin 1 .. Len(got[o]) BY <4>1, <3>6, <3>7 DEF Finals
      <4> QED BY <4>1, <4>2, <3>7
    <3>9. IsFinal(o, e) => IsTerminalDownloadEvent(e)
          BY <3>3, <3>4 DEF IsFinal, IsTerminalDownloadEvent
    <3>10. /\ download'.req = download.req /\ download'.action = download.action
           /\ IsTerminalDownloadEvent(e) => download'.ended
      <4>1. download \in [req: Ops \cup {NONE}, action: Downloads \cup {NONE}, ended: BOOLEAN]
            BY DEF IInv, StoreTypeOK
      <4> QED BY <4>1, <3>5
    <3>11. Followed(o)' BY <3>10, <2>5 DEF Followed
    <3> QED BY <3>8, <3>9, <3>10, <3>11
  <2>9. ~ ActionStarted(e) BY <2>2 DEF ActionStarted
  <2> QED BY <2>6, <2>7, <2>8, <2>9, <1>2 DEF OnEvent
<1>18. CASE o = p /\ got[o] = <<>>
  <2>1. ~ SyspropUpdate(e) BY <1>11, <1>18
  <2>2. Sent(e) /\ got' # got
        BY <1>2, <1>18, <2>1 DEF OnEvent, ActionStarted, ForwardOfDownload
  <2>3. Tells(e.req, e) BY <2>2, <1>3, SentTells
  <2>4. e.req = o BY <2>3, <1>5, <1>6, <1>18, NoneIsNothing DEF Tells
  <2>5. Len(got[o]) = 0 BY <1>18
  <2>6. Len(got'[o]) = 1 /\ got'[o][1] = e
    <3>1. Tells(o, e) BY <2>3, <2>4
    <3>2. Len(got'[o]) = Len(got[o]) + 1 /\ got'[o][Len(got[o]) + 1] = e
          BY <3>1, <1>7, GotGrows
    <3> QED BY <3>2, <2>5
  <2>7. ActionStarted(e)
        BY <2>1, <2>6, <1>2, <1>10 DEF OnEvent, ForwardOfDownload
  <2>8. download' = [req |-> e.req, action |-> e.action, ended |-> FALSE]
        BY <2>7, <1>5, <1>10, <1>18 DEF ActionStarted
  <2>9. Followed(o)' BY <2>4, <2>8, <1>5, <1>18 DEF Followed
  <2>10. ~ IsFinal(o, e) BY <2>6 DEF IsFinal
  <2>11. Finals(o)' = {} BY <2>6, <2>10 DEF Finals
  <2> QED BY <2>9, <2>11
<1> QED BY <1>16, <1>17, <1>18

LEMMA SerialOK ==
    ASSUME IInv, IInv', SerialInv, [Next]_vars
    PROVE  SerialInv'
<1>1. CASE HookStep
  <2>1. BegunOK' BY <1>1, BegunHook DEF SerialInv
  <2>2. lost' = lost
    <3>1. lost' = lost
          BY <1>1 DEF HookStep, HookNext, StartCommand, WriteContext, EmitStarted, SetOff,
                      BeginEmit, ReadRequestId, Offer
    <3> QED BY <3>1
  <2>3. ASSUME ~ overlapped' PROVE ~ overlapped
        BY <1>1, <2>3, HookCases
  <2>4. ASSUME ~ overlapped'
        PROVE  AloneOK' /\ IntentOK' /\ Queued' /\ (lost' = 0 => CompleteOK')
    <3>1. AloneOK /\ IntentOK /\ Queued /\ (lost = 0 => CompleteOK) BY <2>3, <2>4 DEF SerialInv
    <3>2. AloneOK' BY <1>1, <2>1, <2>4, <3>1, AloneHook DEF SerialInv
    <3>3. IntentOK' BY <1>1, <3>1 DEF HookStep, store, IntentOK
    <3>4. Queued' /\ (CompleteOK => CompleteOK') BY <1>1, <2>4, <3>1, QueueHook DEF SerialInv
    <3> QED BY <2>2, <3>1, <3>2, <3>3, <3>4
  <2> QED BY <2>1, <2>4 DEF SerialInv
<1>2. ASSUME UNCHANGED <<context, starting, todo, half, history>>
      PROVE  BegunOK' /\ overlapped' = overlapped /\ (AloneOK => AloneOK')
  <2>1. begun' = begun /\ overlapped' = overlapped BY <1>2 DEF history
  <2>2. BegunOK'
    <3>1. Elements(begun)' = Elements(begun) /\ Latest' = Latest BY <2>1, BegunSame
    <3> QED BY <3>1, <2>1, <1>2 DEF SerialInv, BegunOK
  <2>3. AloneOK => AloneOK' BY <1>2, <2>1, BegunSame DEF AloneOK, Running
  <2> QED BY <2>1, <2>2, <2>3
<1>3. CASE Deliver
  <2>1. UNCHANGED <<context, starting, todo, half, lost, history>> BY <1>3 DEF Deliver
  <2>2. BegunOK' /\ overlapped' = overlapped /\ (AloneOK => AloneOK') BY <2>1, <1>2
  <2>3. ASSUME ~ overlapped
        PROVE  AloneOK' /\ IntentOK' /\ Queued' /\ (lost' = 0 => CompleteOK')
    <3>1. AloneOK /\ IntentOK /\ Queued /\ (lost = 0 => CompleteOK) BY <2>3 DEF SerialInv
    <3>2. IntentOK' /\ OrderOK' /\ KnownOK' /\ NotStaleOK' /\ (CompleteOK => CompleteOK')
          BY <1>3, <3>1, QueueDeliver DEF SerialInv
    <3>3. DownloadOK' BY <1>3, <3>1, DownloadDeliver DEF SerialInv
    <3> QED BY <2>1, <2>2, <3>1, <3>2, <3>3 DEF Queued
  <2> QED BY <2>2, <2>3 DEF SerialInv
<1>4. CASE Lose
  <2>1. /\ UNCHANGED <<context, starting, todo, half, store, history>> /\ lost' = lost + 1
        BY <1>4 DEF Lose
  <2>2. BegunOK' /\ overlapped' = overlapped /\ (AloneOK => AloneOK') BY <2>1, <1>2
  <2>3. lost' # 0 BY <2>1 DEF IInv, QueueOK
  <2>4. IntentOK => IntentOK' BY <2>1 DEF IntentOK, store
  <2>5. Queued => Queued' BY <1>4, QueueLose DEF SerialInv
  <2> QED BY <2>2, <2>3, <2>4, <2>5 DEF SerialInv
<1>5. CASE UNCHANGED vars
  <2>1. UNCHANGED <<context, starting, todo, half, lost, history>> /\ events' = events
        /\ UNCHANGED store /\ begun' = begun
        BY <1>5 DEF vars, hook, history
  <2>2. BegunOK' /\ overlapped' = overlapped /\ (AloneOK => AloneOK') BY <2>1, <1>2
  <2>3. IntentOK => IntentOK' BY <2>1 DEF IntentOK, store
  <2>4. (\A o : NotYet(o)' <=> NotYet(o)) /\ (NotYet(Latest)' <=> NotYet(Latest))
        BY <2>1, BegunSame DEF NotYet
  <2>5. Queued => Queued' /\ (CompleteOK => CompleteOK')
        BY <2>1, <2>4, QueueUntouched DEF SerialInv
  <2> QED BY <2>1, <2>2, <2>3, <2>5 DEF SerialInv
<1> QED BY <1>1, <1>3, <1>4, <1>5 DEF Next

LEMMA SerialInit ==
    ASSUME Init, IInv
    PROVE  SerialInv
<1>1. begun = <<>> /\ \A o \in Ops : todo[o] = NONE /\ half[o] = NONE /\ got[o] = <<>>
      BY DEF Init, HookInit, StoreInit
<1>2. /\ starting.op = NONE /\ events = <<>> /\ current.req = NONE
      /\ lastIntent = [value |-> NONE, of |-> {}]
      BY DEF Init, HookInit, StoreInit
<1>3. Elements(begun) = {} BY <1>1 DEF Elements
<1>4. BegunOK BY <1>1, <1>2, <1>3, NoneIsNothing DEF BegunOK
<1>5. AloneOK BY <1>1 DEF AloneOK, Running
<1>6. IntentOK BY <1>2 DEF IntentOK
<1>7. OrderOK BY <1>1, <1>2 DEF OrderOK
<1>8. KnownOK BY <1>1, <1>2 DEF KnownOK
<1>9. NotStaleOK BY <1>1, <1>2 DEF NotStaleOK
<1>10. DownloadOK BY <1>1 DEF DownloadOK
<1>11. CompleteOK BY <1>1, <1>2 DEF CompleteOK
<1> QED BY <1>4, <1>5, <1>6, <1>7, <1>8, <1>9, <1>10, <1>11 DEF SerialInv, Queued

(* SerialInv is an invariant: what holds of the pipeline as long as         *)
(* operations do not overlap, with and without lost events.                 *)
THEOREM SerialInductive == Spec => []SerialInv
<1>1. Init /\ IInv => SerialInv BY SerialInit
<1>2. IInv /\ IInv' /\ SerialInv /\ [Next]_vars => SerialInv' BY SerialOK
<1> QED BY <1>1, <1>2, Inductive, PTL DEF Spec

(* A request never hears of an operation that was over before it began, and *)
(* if nothing is lost it hears of its own only: what EsimEventStore.kt      *)
(* collects for the current action is reset when that action is announced,  *)
(* and the announcement stands before the events of its operation.          *)
THEOREM HearsOfItsOwn == Spec => []OnlyOwnEvents
<1>1. SerialInv => OnlyOwnEvents
  <2> SUFFICES ASSUME SerialInv, ~ overlapped, NEW o \in Ops, NEW i \in 1 .. Len(got[o])
               PROVE  /\ \A p \in got[o][i].of : ~ Earlier(p, o)
                      /\ lost = 0 => got[o][i].of = {o}
        BY DEF OnlyOwnEvents, Elements
  <2> QED BY DEF SerialInv, Queued, NotStaleOK, CompleteOK
<1> QED BY <1>1, SerialInductive, PTL

(* A download has one outcome: after its final event activeDownloadEnded is *)
(* set, and nothing but the next download's announcement resets it.         *)
THEOREM OneOutcome == Spec => []DownloadEndsOnce
<1>1. IInv /\ SerialInv => DownloadEndsOnce
  <2> SUFFICES ASSUME IInv, SerialInv, ~ overlapped, NEW o \in Ops, Action[o] = Verify,
                      got[o] # <<>>, got[o][1].type = "action_started",
                      NEW i \in 1 .. Len(got[o]) - 1
               PROVE  ~ IsFinal(o, got[o][i])
        BY DEF DownloadEndsOnce
  <2>1. Finals(o) \subseteq {Len(got[o])} BY DEF SerialInv, Queued, DownloadOK
  <2>2. got[o] \in Seq(Event) BY DEF IInv, StoreTypeOK
  <2>3. i \in 1 .. Len(got[o]) /\ i # Len(got[o]) BY <2>2
  <2> QED BY <2>1, <2>3 DEF Finals
<1> QED BY <1>1, Inductive, SerialInductive, PTL
=============================================================================
