----------------------------- MODULE MCDeployer -----------------------------
(***************************************************************************)
(* Instances of Deployer.  At most seven serials are in use at a time: two *)
(* of the stored secret, two of what the server serves with and of what    *)
(* the run holds, and the one the webhook configuration trusts.            *)
(***************************************************************************)
EXTENDS Deployer

MCSerials == 1..8
=============================================================================
