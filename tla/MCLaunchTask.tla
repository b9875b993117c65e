--------------------------- MODULE MCLaunchTask ----------------------------
(* The pipelines of an online and of an offline launch, with the steps that  *)
(* behave alike named once.                                                  *)
EXTENDS LaunchTask

Online == <<"plain", "scan", "lookup", "command", "claim", "update", "files",
            "game", "command">>
Offline == <<"plain", "scan", "lookup", "check", "files", "command", "plain">>
Direct == <<"plain", "claim", "update", "files", "files", "command">>
PipelinesMC == {Online, Offline, Direct}
=============================================================================
