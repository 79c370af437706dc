-------------------------------- MODULE Service --------------------------------
(***************************************************************************)
(* The two ends of a publication.  Publication follows the objects of one  *)
(* origin from the publisher to an activation; Server follows whole        *)
(* releases of several origins from there to the visitors of their hosts.  *)
(* What Publication shows, that a release is activated whole and in the    *)
(* end, is what Server takes a release and a refresh to be.  A behaviour   *)
(* looks at one of the ends: at Publication where the server is "off".     *)
(***************************************************************************)
EXTENDS Publication, Server

ServiceInit == Init /\ ServerInit

PublicationStep(A) == phase = "off" /\ A /\ UNCHANGED serverVars
ServerStep == phase # "off" /\ ServerNext /\ UNCHANGED vars

ServiceNext == PublicationStep(Next) \/ ServerStep

ServiceSpec ==
  /\ ServiceInit /\ [][ServiceNext]_<<vars, serverVars>>
  /\ WF_<<vars, serverVars>>(PublicationStep(LoopStep))
  /\ phase # "off" => ServerFairness
===============================================================================
