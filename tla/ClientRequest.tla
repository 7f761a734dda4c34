---------------------------- MODULE ClientRequest -----------------------------
(***************************************************************************)
(* What one client is asking for, or has been told, at some point of a     *)
(* request: each module that processes requests (Filters, Formatting, ...) *)
(* adds its own kinds and the steps by which they grow.                    *)
(***************************************************************************)
VARIABLE request
===============================================================================
