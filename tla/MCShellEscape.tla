---------------------------- MODULE MCShellEscape ----------------------------
EXTENDS ShellEscape

(* One ordinary character and every character the quoting treats specially. *)
MCAlphabet == {"a", "'", "\"", "\\", "$", BT, ";", " "}

(* A skipped name and a custom one. *)
MCEnvKeys == {"PATH", "API_URL"}
=============================================================================
