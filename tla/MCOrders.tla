------------------------------ MODULE MCOrders ------------------------------
(* One order, under each of the terms it may have.                         *)
EXTENDS Orders
=============================================================================
