---------------------------- MODULE MCModelRouter ----------------------------
(***************************************************************************)
(* One client of the settings page: it turns OpenAI or Gemini on and off    *)
(* and changes the preferred model.                                        *)
(***************************************************************************)
EXTENDS ModelRouter

MCPreferred == {[preferred |-> "mock-general"]}
=============================================================================
