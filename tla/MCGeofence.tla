----------------------------- MODULE MCGeofence -----------------------------
(***************************************************************************)
(* A small map for TLC: a fence inside one cell, and one across two cells. *)
(***************************************************************************)
EXTENDS Geofence, TLC

CONSTANTS home, yard, road, c1, c2, f1, f2

Map == home :> c1 @@ yard :> c1 @@ road :> c2
Areas == f1 :> {home} @@ f2 :> {home, road}
Covers == f1 :> {c1} @@ f2 :> {c1, c2}
=============================================================================
