---------------------------- MODULE MCRemoteLink ----------------------------
(* Instances of RemoteLink for TLC: mixes of three requests around a plan. *)
EXTENDS RemoteLink, TLC

CONSTANTS x, plan, y

MCReq   == {x, plan, y}
MCMixes == {(x :> m[1]) @@ (plan :> "plan") @@ (y :> m[2]) :
              m \in {<<"user", "set">>, <<"user", "pause">>, <<"set", "pause">>}}
=============================================================================
