------------------------------ MODULE MCClients ------------------------------
(* Small instances of Clients for TLC: a launcher against a program that      *)
(* maintains a lease, and two programs that attach or maintain, for one agent.*)
EXTENDS Clients

CONSTANTS l1, c1, c2

Comes(c) == Where(c) = "start"
MCInit ==
  /\ Init
  /\ \/ Comes(l1) /\ Comes(c1) /\ hold[c1].kind = "maintain" /\ ~Comes(c2)
     \/ ~Comes(l1) /\ Comes(c1) /\ Comes(c2)

MCSpec == MCInit /\ [][Next]_vars /\ Fairness
=============================================================================
