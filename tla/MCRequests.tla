------------------------------ MODULE MCRequests ------------------------------
(* One instance, one request after the other, and what one other party does. *)
EXTENDS Requests
================================================================================
