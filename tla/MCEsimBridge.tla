---------------------------- MODULE MCEsimBridge ----------------------------
(* Small instances of EsimBridge for TLC.  The replies are the lines that   *)
(* the code tells apart: the result a getter waits for, a result of another *)
(* type, an error, progress, and the steps of a profile download.           *)
EXTENDS EsimBridge, TLC

CONSTANTS q1, d1, s1

KindOf(rs) == [r \in rs |-> CASE r = q1 -> "query"
                              [] r = d1 -> "download"
                              [] r = s1 -> "simple"]

Reply(r, type, op, result) == [req |-> r, type |-> type, op |-> op, result |-> result]

QueryReplies(r) ==
    { Reply(r, "profiles_result", "other", "ok"),
      Reply(r, "active_profile_result", "other", "ok"),
      Reply(r, "profile_mutation_result", "unknown", "error") }
DownloadReplies(r) ==
    { Reply(r, "progress", "other", "ok"),
      Reply(r, "download_result", "other", "ok"),
      Reply(r, "download_result", "other", "error"),
      Reply(r, "profile_mutation_result", "enable", "ok") }
SimpleReplies(r) ==
    { Reply(r, "answer", "other", "ok"), Reply(r, "answer_error", "other", "ok") }

OneOfEach == {q1, d1, s1}
KindOneOfEach == KindOf(OneOfEach)
RepliesOneOfEach == QueryReplies(q1) \cup DownloadReplies(d1) \cup SimpleReplies(s1)

GetterAndDownload == {q1, d1}
KindGetterAndDownload == KindOf(GetterAndDownload)
RepliesGetterAndDownload ==
    { Reply(q1, "profiles_result", "other", "ok"),
      Reply(d1, "download_result", "other", "ok"),
      Reply(d1, "download_result", "other", "error"),
      Reply(d1, "profile_mutation_result", "enable", "ok") }
=============================================================================
