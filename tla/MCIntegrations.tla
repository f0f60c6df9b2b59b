--------------------------- MODULE MCIntegrations ---------------------------
(***************************************************************************)
(* Small instances of what drives, bridges and installs the harness: the   *)
(* autopilot, the bridge to the private OMO runtime, the OMP main harness, *)
(* the plugin, and the promotion of old state documents.  They share no    *)
(* state: a behaviour is one of a part, chosen at the start, while the     *)
(* others stay as they are.                                                *)
(***************************************************************************)
EXTENDS Autopilot, OmpHarness, Plugin, LegacyState, OmoBridge, TLC

CONSTANTS agent, human

VARIABLE part
allVars == <<autopilotVars, ompVars, pluginVars, legacyVars, bridgeVars, part>>

MCOps == (agent :> {"verify", "execute", "fix", "continue"})
           @@ (human :> {"approve", "close", "pause", "resume", "abort", "amend"})
MCCalls == (agent :> 2) @@ (human :> 4)

\* The parts that do not run all start the same.
Init ==
  /\ part \in {"autopilot", "harness", "plugin", "promotion", "bridge"}
  /\ AutopilotInit
  /\ OmpInit /\ (part = "harness" \/ (package = Absent /\ \A f \in Managed : files[f] = Absent))
  /\ PluginInit /\ (part = "plugin" \/ host = Missing)
  /\ LegacyInit /\ (part = "promotion" \/ (written = "LOCKED"))
  /\ BridgeInit

OthersStay(running) ==
  /\ running # "autopilot" => UNCHANGED autopilotVars
  /\ running # "harness" => UNCHANGED ompVars
  /\ running # "plugin" => UNCHANGED pluginVars
  /\ running # "promotion" => UNCHANGED legacyVars
  /\ running # "bridge" => UNCHANGED bridgeVars
  /\ UNCHANGED part

AutopilotStep == part = "autopilot" /\ AutopilotNext /\ OthersStay("autopilot")
HarnessStep == part = "harness" /\ OmpNext /\ OthersStay("harness")
PluginStep == part = "plugin" /\ PluginNext /\ OthersStay("plugin")
PromotionStep == part = "promotion" /\ LegacyNext /\ OthersStay("promotion")
BridgeStep == part = "bridge" /\ BridgeNext /\ OthersStay("bridge")

Next == AutopilotStep \/ HarnessStep \/ PluginStep \/ PromotionStep \/ BridgeStep

Spec == Init /\ [][Next]_allVars
=============================================================================
