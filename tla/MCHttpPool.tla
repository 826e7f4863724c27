------------------------------ MODULE MCHttpPool ------------------------------
(* An instance of HttpPool for TLC: three streams ask for one address. *)
EXTENDS HttpPool
===============================================================================
