--------------------------- MODULE MCCredentials ----------------------------
EXTENDS Credentials

(* Everything but the start of no request.                                  *)
AllRequests == OpNames \ {"none"}
=============================================================================
