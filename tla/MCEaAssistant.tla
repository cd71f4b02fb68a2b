----------------------------- MODULE MCEaAssistant -----------------------------
(* A small instance of the assistant, for TLC: two models of Gemini. *)
EXTENDS EaAssistant

SomeConfigs == {[provider |-> "gemini", fallback |-> FALSE, gemini |-> "pro"]}
SomeFallbacks == <<"flash">>
SomeTurns == {<<[id |-> "1", tool |-> "evidenzia", ids |-> <<"a", "ghost">>]>>, <<[id |-> "2", tool |-> "cerca", ids |-> <<>>]>>}
=============================================================================
