--------------------------- MODULE MCWebPlatform ---------------------------
(* Pages that embed the library, with model values.  A behaviour is one of *)
(* three: any page's calls and the main loop; the controllers that a page  *)
(* plugs into one emulator; or the reference page's games.                 *)
EXTENDS WebPlatform, ControllerPorts, WebApp

CONSTANTS sfc, fc, zelda, mario, port1, port2

VARIABLE model

webVars == <<vars, portVars, pageVars, model>>

WebInit ==
  /\ model \in {"calls", "ports", "page"}
  /\ Init /\ PortsInit /\ PageInit
  /\ model # "page" => focused /\ chosen = CHOOSE g \in Rom : TRUE

WebNext ==
  \/ model = "calls" /\ Next /\ UNCHANGED <<portVars, pageVars, model>>
  \/ model = "ports" /\ PortsNext /\ UNCHANGED <<vars, pageVars, model>>
  \/ model = "page" /\ PageNext /\ UNCHANGED <<vars, portVars, model>>

WebSpec == WebInit /\ [][WebNext]_webVars

\* Fairness of WebPlatform, in the behaviours that are the library's.
WebFairness ==
  /\ WF_webVars(model = "calls" /\ Tick /\ UNCHANGED <<portVars, pageVars, model>>)
  /\ WF_webVars(model = "calls" /\ NextFrame /\ UNCHANGED <<portVars, pageVars, model>>)
  /\ WF_webVars(model = "calls" /\ Body /\ UNCHANGED <<portVars, pageVars, model>>)

WebFairSpec == WebSpec /\ WebFairness
=============================================================================
