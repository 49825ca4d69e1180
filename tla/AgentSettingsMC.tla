-------------------------- MODULE AgentSettingsMC --------------------------
(* Instances of AgentSettings for TLC. *)
EXTENDS AgentSettings, TLC

CONSTANTS k1, k2

Draft(p, m, k, c) == [provider |-> p, model |-> m, key |-> k, clear |-> c]

\* Of what the settings panel can send: a new key, a blank key, a removed key
\* and a missing model.
PanelDrafts == {
    Draft("disabled", FALSE, NoKey, FALSE),
    Draft("openai_compatible", TRUE, k1, FALSE),
    Draft("openai_compatible", TRUE, NoKey, FALSE),
    Draft("openai_compatible", TRUE, NoKey, TRUE),
    Draft("anthropic", TRUE, k2, FALSE),
    Draft("anthropic", FALSE, NoKey, FALSE)}

\* Only a client of the API can send a key and clear_api_key together.
ApiDrafts == PanelDrafts \cup {Draft("anthropic", TRUE, k1, TRUE)}

ThreadSymmetry == Permutations(Threads)
=============================================================================
