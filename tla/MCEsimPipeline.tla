--------------------------- MODULE MCEsimPipeline ---------------------------
(* The programs on the device for TLC: small instances of EsimPipeline,     *)
(* CarrierLock, BF25Parser and ServerRuntime, which share no state.  TLC    *)
(* explores them side by side: each initial state belongs to one of them,   *)
(* and in its behaviours the others stand still.                            *)
(*                                                                          *)
(* EsimPipeline: any two of the intents may arrive, in either order, two of *)
(* a kind where one could be taken for the other, and one that carries no   *)
(* request id and does not wait for others.                                 *)
EXTENDS EsimPipeline, CarrierLock, BF25Parser, ServerRuntime, TLC

CONSTANTS list1, list2, look, eid, foreign, load1, load2, delete

MCOps == {list1, list2, look, eid, foreign, load1, load2, delete}
MCNamed == MCOps \ {foreign}
MCOverlapping == {<<list1, foreign>>}
MCAction == list1 :> "getProfiles" @@ list2 :> "getProfiles"
              @@ look :> "getActiveProfile" @@ eid :> "getEID" @@ foreign :> "getActiveProfile"
              @@ load1 :> Verify @@ load2 :> "downloadAndEnableProfile"
              @@ delete :> "deleteProfile"
MCProfileCount == [o \in MCOps |-> IF o = list1 THEN 1 ELSE 0]

VARIABLE part

-----------------------------------------------------------------------------
(* CarrierLock: two downloads, a deletion and another intent, of which none *)
(* overlap.                                                                 *)
CONSTANTS i1, i2, i3, i4

MCIntents == {i1, i2, i3, i4}
MCKind == i1 :> "download" @@ i2 :> "delete" @@ i3 :> "download" @@ i4 :> "other"

-----------------------------------------------------------------------------
(* In the .cfg: for BF25Parser, two known tags and an unknown of each       *)
(* length, elements of eight digits; for ServerRuntime, as many processes   *)
(* that a launch always finds one beside the one in use, the one stop ends, *)
(* the one it gave up on and the one the supervisor waits for.              *)
PartsInit == /\ part \in {"pipeline", "lock", "parser", "runtime"}
             /\ Init
             /\ LockInit /\ (part # "lock" => protected = {})
             /\ ParserInit /\ (part # "parser" => data = << >>)
             /\ RuntimeInit

PartsNext ==
    \/ part = "pipeline" /\ Next /\ UNCHANGED <<part, lockVars, parserVars, runtimeVars>>
    \/ part = "lock" /\ LockNext /\ UNCHANGED <<part, vars, parserVars, runtimeVars>>
    \/ part = "parser" /\ ParserNext /\ UNCHANGED <<part, vars, lockVars, runtimeVars>>
    \/ part = "runtime" /\ RuntimeNext /\ UNCHANGED <<part, vars, lockVars, parserVars>>

PartsSpec == /\ PartsInit /\ [][PartsNext]_<<part, vars, lockVars, parserVars, runtimeVars>>
             /\ WF_vars(part = "pipeline" /\ HookStep)
             /\ WF_vars(part = "pipeline" /\ Deliver)
             /\ WF_runtimeVars(part = "runtime" /\ MainStep)
             /\ WF_runtimeVars(part = "runtime" /\ SupervisorStep)
             /\ SF_runtimeVars(part = "runtime" /\ Restart)
=============================================================================
