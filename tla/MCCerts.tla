------------------------------ MODULE MCCerts -------------------------------
(* Two hostnames, three failures, crashes or restarts, and enough writes to *)
(* replace both files and to take one away in between.                      *)
EXTENDS Certs

=============================================================================
