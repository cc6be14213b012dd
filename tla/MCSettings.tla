----------------------------- MODULE MCSettings -----------------------------
(* A small instance of Settings for TLC: one request of every kind, on the  *)
(* device.                                                                  *)
EXTENDS Settings, TLC

CONSTANTS m1, m2, key1, custom, absolute, off, name1, logs

MCValues == {None, Empty, Blank, BuiltIn, Malformed, On, Relative,
             m1, m2, key1, custom, absolute, off, name1, logs}

MCDefaults ==
    "model" :> m1 @@ "api_key" :> None @@ "system_prompt" :> None @@ "display_name" :> None
    @@ "memory_enabled" :> On @@ "memory_path" :> Relative @@ "top_k" :> 1
    @@ "media_dir" :> Relative @@ "log_dir" :> None

MCFiles == { "media_dir" :> absolute @@ "memory_enabled" :> off @@ "log_dir" :> logs,
             "media_dir" :> absolute @@ "memory_path" :> absolute @@ "system_prompt" :> BuiltIn,
             "media_dir" :> absolute @@ "memory_path" :> absolute @@ "display_name" :> Empty
                @@ "top_k" :> 0 }
MCLocals == { Nothing, "display_name" :> name1 @@ "memory_enabled" :> On }

MCRequests == { "model" :> m2 @@ "top_k" :> 0,
                "api_key" :> key1 @@ "system_prompt" :> custom,
                "api_key" :> Empty @@ "system_prompt" :> BuiltIn @@ "display_name" :> Empty,
                "memory_enabled" :> On,
                "memory_enabled" :> off @@ "memory_path" :> Relative,
                "top_k" :> 2,
                "memory_path" :> Blank, "media_dir" :> Relative,
                "system_prompt" :> Blank, "system_prompt" :> Malformed }
=============================================================================
