------------------------------ MODULE MCPaidRun -------------------------------
(* Three requests of at most two units: with the limit of seven a request can  *)
(* be repeated only when answers are cheaper than that.                        *)
EXTENDS PaidRun
=============================================================================
