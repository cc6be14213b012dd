----------------------------- MODULE EsimEvents -----------------------------
(* The operations of the vendor's LPA and the events that the hook inside   *)
(* it (EsimEventEmitter.kt) sends to the Android service (EsimEventStore.kt).*)
EXTENDS Naturals, Sequences, FiniteSets, SequencesExt

CONSTANTS Ops,           \* intents delivered to the LPA's service
          Named,         \* those with a penumbra_request_id
          Action,        \* the action of each intent
          ProfileCount,  \* how many profiles a getProfiles reports
          MaxProfiles,   \* bound on ProfileCount
          NONE           \* Kotlin's null

Verify == "downloadVerifyAndEnableProfile"
Downloads == {Verify, "downloadAndEnableProfile"}
Getters == {"getActiveProfile", "getActiveprofileICCID", "getEID"}
Mutations == {"enableProfile", "disableProfile", "disableActiveProfile", "deleteProfile",
              "setNickname"}
Actions == {"getProfiles"} \cup Getters \cup Mutations \cup Downloads

(* currentMutationOperation.                                                *)
OperationOf(a) ==
    CASE a \in {"enableProfile", Verify} -> "enable"
      [] a \in {"disableProfile", "disableActiveProfile"} -> "disable"
      [] a = "deleteProfile"             -> "delete"
      [] a = "setNickname"               -> "set_nickname"
      [] OTHER                           -> "unknown"

Operations == {"enable", "disable", "delete", "set_nickname", "unknown"}

(* The property and the synthesized result of each getter.                  *)
ValueKey == [getActiveProfile |-> "ActiveProfile",
             getActiveprofileICCID |-> "ICCID", getEID |-> "EID"]
ResultType(a) == CASE a = "getProfiles"           -> "profiles_result"
                   [] a = "getActiveProfile"      -> "active_profile_result"
                   [] a = "getActiveprofileICCID" -> "active_iccid_result"
                   [] a = "getEID"                -> "device_identifiers_result"
ResultTypes == {ResultType(a) : a \in {"getProfiles"} \cup Getters}

Id(o) == IF o \in Named THEN o ELSE NONE

(* "key" is the property of a sysprop_update and the operation of a         *)
(* profile_mutation_result.  "of" is not in the program: the operations     *)
(* whose callbacks made the event.                                          *)
Keys == {"Profile", "NmbrOfProfiles", "lastintent.result", "IMEI", "EID",
         "ActiveProfile", "ICCID"} \cup Operations
Values == {"success", "error", "protected", "disallowed_profile", "finished",
           "No Active profile", "failed", "no_active_profile"} \cup Actions
Types == {"action_started", "sysprop_update", "profile_mutation_result",
          "download_progress", "download_result"} \cup ResultTypes

Callback == [type: Types, key: Keys \cup {NONE}, index: 0 .. MaxProfiles,
             value: Values \cup {NONE}]
Event == [type: Types, key: Keys \cup {NONE}, index: 0 .. MaxProfiles,
          value: Values \cup {NONE}, action: Actions \cup {NONE},
          req: Ops \cup {NONE}, of: SUBSET Ops]

MakeEvent(cb, action, req, of) ==
    [type |-> cb.type, key |-> cb.key, index |-> cb.index, value |-> cb.value,
     action |-> action, req |-> req, of |-> of]

ASSUME EsimEventsAssumption ==
    /\ Named \subseteq Ops /\ MaxProfiles \in Nat
    /\ Action \in [Ops -> Actions]
    /\ ProfileCount \in [Ops -> 0 .. MaxProfiles]
    /\ NONE \notin Ops /\ NONE \notin Values /\ NONE \notin Seq(Callback)
=============================================================================
