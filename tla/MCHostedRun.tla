---------------------------- MODULE MCHostedRun ----------------------------
(* A small instance of HostedRun for TLC: two scenarios, the second of which *)
(* the platform cannot run.                                                  *)
EXTENDS HostedRun, TLC

CONSTANTS a, b

MCCatalog == {a, b}
MCDuration == a :> 2 @@ b :> 1
MCSteps == a :> <<1, 1>> @@ b :> <<1>>
MCSelections == {<<a, b>>, <<a>>}
MCAllowlists == {{}, {b}}
MCGaps == {{}, {b}}
=============================================================================
