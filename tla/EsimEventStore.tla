--------------------------- MODULE EsimEventStore ---------------------------
(* EsimEventStore.kt in the Android service: what the hook's events become  *)
(* on their way to the Rust server.  onEvent is synchronized and is one     *)
(* action; it sends at most one event to the listeners.                     *)
EXTENDS EsimEvents

VARIABLES
    current,     \* currentAction and currentRequestId
    lastIntent,  \* lastIntentResult
    profiles,    \* pendingProfiles: whose profile stands at each index
    count,       \* pendingProfileCount
    imei,        \* currentImei
    download,    \* the activeDownload fields; ended is the terminal result
    got          \* what the listeners have been sent for each request id

store == <<current, lastIntent, profiles, count, imei, download, got>>

Indices == 0 .. MaxProfiles - 1

StoreInit ==
    /\ current = [action |-> NONE, req |-> NONE]
    /\ lastIntent = [value |-> NONE, of |-> {}]
    /\ profiles = [i \in Indices |-> {}]
    /\ count = [n |-> 0, of |-> {}]
    /\ imei = {}
    /\ download = [req |-> NONE, action |-> NONE, ended |-> FALSE]
    /\ got = [o \in Ops |-> <<>>]

Sent(e) == got' = IF e.req = NONE THEN got ELSE [got EXCEPT ![e.req] = Append(@, e)]

-----------------------------------------------------------------------------
(* The download that is followed until its terminal result.                 *)
ActionOf(e) == IF e.action # NONE THEN e.action ELSE current.action

MatchesActiveDownload(e) ==
    /\ ActionOf(e) \in Downloads
    /\ e.req \in {NONE, download.req}
    /\ download.action \in {NONE, ActionOf(e)}

IsTerminalDownloadEvent(e) ==
    /\ MatchesActiveDownload(e)
    /\ \/ e.type = "download_result" /\ e.value # "success"
       \/ /\ e.type = "profile_mutation_result"
          /\ ActionOf(e) = Verify
          /\ e.key = "enable" \/ (e.key = "unknown" /\ e.value = "error")

(* Mutated forms (named ..._) of a definition stand before it: each is a    *)
(* bug the properties have to notice.                                       *)
(* handleProfileMutationResult, handleDownloadProgress, handleDownloadResult. *)
ForwardOfDownload_NoMark(e) ==
    /\ e.type \in {"profile_mutation_result", "download_progress", "download_result"}
    /\ IF MatchesActiveDownload(e) /\ download.ended THEN UNCHANGED got ELSE Sent(e)
    /\ UNCHANGED <<current, lastIntent, profiles, count, imei, download>>

ForwardOfDownload(e) ==
    /\ e.type \in {"profile_mutation_result", "download_progress", "download_result"}
    /\ IF MatchesActiveDownload(e) /\ download.ended
       THEN UNCHANGED <<download, got>>
       ELSE /\ download' = [download EXCEPT !.ended = @ \/ IsTerminalDownloadEvent(e)]
            /\ Sent(e)
    /\ UNCHANGED <<current, lastIntent, profiles, count, imei>>

-----------------------------------------------------------------------------
ActionStarted_KeepsProfiles(e) ==
    /\ e.type = "action_started"
    /\ current' = [action |-> e.action, req |-> e.req]
    /\ Sent(e)
    /\ lastIntent' = IF e.action \in {"getProfiles"} \cup Getters
                     THEN [value |-> NONE, of |-> {}] ELSE lastIntent
    /\ imei' = IF e.action \in Getters THEN {} ELSE imei
    /\ download' = IF e.action \in Downloads
                   THEN [req |-> e.req, action |-> e.action, ended |-> FALSE]
                   ELSE download
    /\ UNCHANGED <<profiles, count>>

ActionStarted_KeepsId(e) ==
    /\ e.type = "action_started"
    /\ current' = [action |-> e.action, req |-> IF e.req = NONE THEN current.req ELSE e.req]
    /\ Sent(e)
    /\ lastIntent' = IF e.action \in {"getProfiles"} \cup Getters
                     THEN [value |-> NONE, of |-> {}] ELSE lastIntent
    /\ profiles' = IF e.action = "getProfiles" THEN [i \in Indices |-> {}] ELSE profiles
    /\ count' = IF e.action = "getProfiles" THEN [n |-> 0, of |-> {}] ELSE count
    /\ imei' = IF e.action \in Getters THEN {} ELSE imei
    /\ download' = IF e.action \in Downloads
                   THEN [req |-> e.req, action |-> e.action, ended |-> FALSE]
                   ELSE download

ActionStarted(e) ==
    /\ e.type = "action_started"
    /\ current' = [action |-> e.action, req |-> e.req]
    /\ Sent(e)
    /\ lastIntent' = IF e.action \in {"getProfiles"} \cup Getters
                     THEN [value |-> NONE, of |-> {}] ELSE lastIntent
    /\ profiles' = IF e.action = "getProfiles" THEN [i \in Indices |-> {}] ELSE profiles
    /\ count' = IF e.action = "getProfiles" THEN [n |-> 0, of |-> {}] ELSE count
    /\ imei' = IF e.action \in Getters THEN {} ELSE imei
    /\ download' = IF e.action \in Downloads
                   THEN [req |-> e.req, action |-> e.action, ended |-> FALSE]
                   ELSE download

-----------------------------------------------------------------------------
(* maybeSynthesizeProfilesResult, after an update of one of its inputs.     *)
ProfilesReady_NotOnIntent(e) ==
    /\ current.action = "getProfiles"
    /\ e.key \in {"Profile", "NmbrOfProfiles"}
    /\ lastIntent.value = "getProfiles"
    /\ count.of # {}
    /\ \A i \in 0 .. count.n - 1 : profiles[i] # {}

ProfilesReady(e) ==
    /\ current.action = "getProfiles"
    /\ e.key \in {"Profile", "NmbrOfProfiles", "lastintent.result"}
    /\ lastIntent.value = "getProfiles"
    /\ count.of # {}
    /\ \A i \in 0 .. count.n - 1 : profiles[i] # {}

(* The value arrives after its success: maybeSynthesizeActiveProfileResult, *)
(* maybeSynthesizeActiveIccidResult, maybeSynthesizeDeviceIdentifiersResult. *)
ValueReady(e) ==
    /\ current.action \in Getters
    /\ e.key = ValueKey[current.action]
    /\ lastIntent.value = current.action

NoActiveProfile(e) ==
    /\ current.action \in Getters \ {"getEID"}
    /\ e.key \in {"lastintent.result", ValueKey[current.action]}
    /\ lastIntent.value = "No Active profile"

Synthesized(value, of) ==
    [type |-> ResultType(current.action), key |-> NONE, index |-> 0, value |-> value,
     action |-> current.action, req |-> current.req, of |-> of \cup lastIntent.of]

ProfilesOf == count.of \cup UNION {profiles[i] : i \in 0 .. count.n - 1}

SyspropUpdate(e) ==
    /\ e.type = "sysprop_update"
    /\ profiles' = IF e.key = "Profile" THEN [profiles EXCEPT ![e.index] = e.of] ELSE profiles
    /\ count' = IF e.key = "NmbrOfProfiles" THEN [n |-> e.index, of |-> e.of] ELSE count
    /\ lastIntent' = IF e.key = "lastintent.result"
                     THEN [value |-> e.value, of |-> e.of] ELSE lastIntent
    /\ imei' = IF e.key = "IMEI" /\ current.action = "getEID" THEN e.of ELSE imei
    /\ UNCHANGED <<current, download>>
    /\ IF ProfilesReady(e)' THEN Sent(Synthesized("success", ProfilesOf)')
       ELSE IF ValueReady(e)' THEN Sent(Synthesized("success", e.of \cup imei)')
       ELSE IF NoActiveProfile(e)' THEN Sent(Synthesized("no_active_profile", {})')
       ELSE UNCHANGED got

OnEvent(e) == ActionStarted(e) \/ SyspropUpdate(e) \/ ForwardOfDownload(e)

-----------------------------------------------------------------------------
StoreTypeOK ==
    /\ current \in [action: Actions \cup {NONE}, req: Ops \cup {NONE}]
    /\ lastIntent \in [value: Values \cup {NONE}, of: SUBSET Ops]
    /\ profiles \in [Indices -> SUBSET Ops]
    /\ count \in [n: 0 .. MaxProfiles, of: SUBSET Ops]
    /\ imei \subseteq Ops
    /\ download \in [req: Ops \cup {NONE}, action: Downloads \cup {NONE}, ended: BOOLEAN]
    /\ got \in [Ops -> Seq(Event)]
=============================================================================
