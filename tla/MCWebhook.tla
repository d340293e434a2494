----------------------------- MODULE MCWebhook -----------------------------
(* Instance of Webhook. *)
EXTENDS Webhook, TLC

Symmetry == Permutations(Users)
=============================================================================
