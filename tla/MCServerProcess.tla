-------------------------- MODULE MCServerProcess ---------------------------
(* The runs on the server processes: two of the servers that main forks. *)
EXTENDS ServerProcessProperties

=============================================================================
