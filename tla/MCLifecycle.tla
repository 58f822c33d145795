---------------------------- MODULE MCLifecycle ----------------------------
(***************************************************************************)
(* Instances of Lifecycle for TLC: only gid-service embedded, or the whole *)
(* family but the portal.                                                  *)
(***************************************************************************)
EXTENDS Lifecycle

SomeDeployments == {{"gid"}, Downstreams \ {"portal"}}
=============================================================================
