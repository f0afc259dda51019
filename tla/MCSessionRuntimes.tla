------------------------- MODULE MCSessionRuntimes -------------------------
(***************************************************************************)
(* Sessions do not share state in either client, so one is enough: on a    *)
(* host with crashes and failed writes, on Kubernetes created by two calls *)
(* of different replicas while it is closed.  In the gateway manager they  *)
(* share the file: saves of the others happen at any time.                 *)
(***************************************************************************)
EXTENDS SessionRuntimes

CONSTANTS s1, c1, c2, x1

MCSession == {s1}
MCCreator == {c1, c2}
MCCloser == {x1}
MCDrivers == {"local", "docker", "kubernetes", "gateway"}
MCKubernetes == {"kubernetes"}
=============================================================================
