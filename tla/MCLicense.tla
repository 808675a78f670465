------------------------------ MODULE MCLicense ------------------------------
(* Small instances of License: client 2 runs on machine 2, the others on     *)
(* machine 1.                                                                 *)
EXTENDS License

MCHost == [c \in Clients |-> IF c = 2 THEN 2 ELSE 1]

\* Client 3 needs a feature that no license has.
MCEnough == (Clients \ {3}) \X Licenses

MCTtl == [l \in Licenses |-> 3]
=============================================================================
