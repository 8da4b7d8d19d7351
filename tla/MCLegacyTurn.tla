----------------------------- MODULE MCLegacyTurn -----------------------------
(* The instance of LegacyTurn that TLC checks: every value of every setting, not every combination,
   for the recorder and the music do not touch each other. *)
EXTENDS LegacyTurn

TheSettings == {[runtime |-> "legacy", pcm |-> "alsa", mode |-> "Pause"],
                [runtime |-> "legacy", pcm |-> "vpm_asr", mode |-> "Duck"],
                [runtime |-> "legacy", pcm |-> "vpm_asr", mode |-> "None"],
                [runtime |-> "native_qwen", pcm |-> "vpm_asr", mode |-> "Pause"]}
================================================================================
