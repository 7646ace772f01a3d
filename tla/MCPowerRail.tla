---------------------------- MODULE MCPowerRail ----------------------------
(* Instances of PowerRail for TLC. *)
EXTENDS PowerRailProperties, TLC

\* Mains power that stays on, a supply, the machine, an instrument to ask for.
ServerRail == 1 :> "off" @@ 2 :> "none" @@ 3 :> "none" @@ 4 :> "both"
=============================================================================
