---------------------------- MODULE MCDeployment ----------------------------
(* Deployment checked by TLC. *)
EXTENDS Deployment

\* A change of the concierge and of the image of the worker, then one of the source of the
\* worker, which needs no image of its own, and of the proxy.
MCChanges == << {"backend", "worker image"}, {"worker", "nginx"} >>
=============================================================================
