------------------------------- MODULE MCSignIn -------------------------------
(* Four sets of things that may happen: two tabs of a browser that moves, the *)
(* same while a session and the forms expire, logins at the console with the  *)
(* calls it makes, and tokens under revocation.                               *)
EXTENDS SignIn

CONSTANTS o1, o2, here, there, tab1, tab2, con1, read1, rev1, rev2

Quiet == [walkers |-> Tabs, attempts |-> 0, sessions |-> 0, logins |-> {}, ops |-> {}, tokens |-> <<>>, moves |-> FALSE,
          doomed |-> {}, demotes |-> FALSE, time |-> 0]

Issued(kind, owner, until) == [kind |-> kind, owner |-> owner, until |-> until, admin |-> owner # None]

MCPools ==
  {[Quiet EXCEPT !.attempts = 2, !.sessions = 1, !.logins = {o1}, !.moves = TRUE, !.doomed = {o1}],
   [Quiet EXCEPT !.attempts = 2, !.sessions = 2, !.logins = {o1, o2}],
   [Quiet EXCEPT !.attempts = 2, !.sessions = 2, !.logins = {o1}, !.time = 1],
   [Quiet EXCEPT !.walkers = Consoles, !.sessions = 2, !.logins = {o1}, !.ops = {"userinfo"}, !.doomed = {o1}, !.demotes = TRUE],
   [Quiet EXCEPT !.ops = {"guard", "userinfo", "introspect", "revoke"}, !.time = 1,
                 !.tokens = <<Issued("operator", o1, 1), Issued("target", None, 2)>>],
   [Quiet EXCEPT !.ops = {"introspect", "userinfo", "guard", "verify", "issue"}, !.doomed = {Client, Target},
                 !.tokens = <<Issued("target", None, 1)>>]}
===============================================================================
