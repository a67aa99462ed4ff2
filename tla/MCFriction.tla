------------------------------- MODULE MCFriction -------------------------------
(* A small project for TLC, shaped like workload/project: a requirement     *)
(* shared by two phases, a chain of two, and two wheels that require each   *)
(* other.                                                                   *)
EXTENDS Friction, TLC

CONSTANTS app, lib, core, build, test, util

Needs == (app :> <<lib, util>>) @@ (lib :> <<core>>) @@ (core :> <<lib>>) @@
         (build :> <<util>>) @@ (test :> <<core>>) @@ (util :> <<>>)
Manifest == <<<<app>>, <<build>>, <<test>>>>
=============================================================================
