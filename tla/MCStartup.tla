----------------------------- MODULE MCStartup -----------------------------
(* The values the run of the start gives its constants.                     *)
EXTENDS Startup

CoreSources == <<"HEADHUNTER_API", "MANUAL_URL">>
=============================================================================
