------------------------------ MODULE MCServer ------------------------------
(* Instances of Server for TLC.                                            *)
EXTENDS Server, TLC

(* Clients and descriptors are interchangeable: no definition orders them  *)
(* or names one.                                                           *)
Symmetry == Permutations(Clients) \cup Permutations(Fds)

(* For liveness, which TLC cannot check under SYMMETRY, the smallest part  *)
(* of that instance in which a shell command meets a program: client 1     *)
(* sends programs only and has descriptor 4, the other clients send shell  *)
(* commands only.  Only what the clients do is restricted.                 *)
ProgramsMeetShells ==
  /\ sock[1] \in {NoFd, 4}
  /\ \A t \in Tasks : task[t].client # NoClient =>
       (task[t].type = "program" <=> task[t].client = 1)

LiveSpec ==
  ServerInit /\ [][ServerNext /\ ProgramsMeetShells']_allvars /\ ServerFairness
=============================================================================
