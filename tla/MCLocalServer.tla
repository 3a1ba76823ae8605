----------------------------- MODULE MCLocalServer -----------------------------
(* The serving thread and one embedding thread, two models, every kind of request. *)
EXTENDS LocalServer
================================================================================
