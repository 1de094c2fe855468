------------------------------ MODULE MCWebAuth ------------------------------
(* Instance of WebAuth: one address, two logins in flight, one password, two attempts. *)
EXTENDS WebAuth
=============================================================================
