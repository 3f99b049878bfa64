--------------------------- MODULE MCDirectorBot ---------------------------
(* Instances of the Telegram process for TLC. *)
EXTENDS DirectorBotProperties, TLC

\* Two tasks among messages that are handled without one.
AllKinds == <<"create", "ignored", "refused", "query", "create">>
TaskKinds == <<"create", "create">>

=============================================================================
