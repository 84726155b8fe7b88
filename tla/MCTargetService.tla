---------------------------- MODULE MCTargetService ----------------------------
(* Calls beside each other under one signal; requests to the service during a *)
(* rotation; the service's own logins; and a call whose token is presented.   *)
EXTENDS TargetService

CONSTANTS c1, c2, k1, k2

Still == [calls |-> Calls, kinds |-> {}, signals |-> {FALSE}, breaks |-> FALSE, presents |-> FALSE, paths |-> {}, tokens |-> {}, rotates |-> FALSE,
          time |-> 0]
By(k) == [by |-> k, fits |-> TRUE, until |-> 4]

MCPools ==
  {[Still EXCEPT !.kinds = {"exchange", "command"}, !.signals = BOOLEAN, !.breaks = TRUE],
   [Still EXCEPT !.paths = {"/api/resources"}, !.tokens = {By(k1), By(k2)}, !.rotates = TRUE, !.time = 4],
   [Still EXCEPT !.paths = Paths, !.tokens = {NoToken, [By(k1) EXCEPT !.fits = FALSE]}, !.time = 2],
   [Still EXCEPT !.calls = {c1}, !.kinds = {"demo", "command"}, !.breaks = TRUE, !.presents = TRUE, !.rotates = TRUE, !.time = 1]}
================================================================================
