------------------------------ MODULE MCRegistry ------------------------------
(* Three sets of requests, each with the rows it starts from: targets that  *)
(* share audiences, connections with what hangs on them, and the rows of    *)
(* the demonstration before and between runs of the seed.                   *)
EXTENDS Registry, TLC

CONSTANTS t1, t2, t3, kapp, kagent, gapp, gagent, r1, r2, agent, app, console, audA, audB, prov, c1, c2

MCAgentOf == [r \in Runtimes |-> agent]
CallSymmetry == Permutations(Calls)

Req(op, table, id, set) == [op |-> op, table |-> table, id |-> id, set |-> set]
Upd(table, id, set) == Req("update", table, id, set)

Target(s, x, n) == [status |-> s, audience |-> x, born |-> n]
Conn(mode, ps) == [status |-> "active", of |-> app, runtime |-> None, target |-> t1, mode |-> mode, providers |-> ps, expires |-> None]
NoTargets == [t \in Targets |-> NoRow]
NoConns == [k \in Conns |-> NoRow]
NoGrants == [g \in Grants |-> NoRow]
NoRuntimes == [r \in Runtimes |-> NoRow]

Fresh == <<NoTargets, NoConns, NoGrants, NoRuntimes>>
\* What an older release allowed: shared audiences, weak connections, no expiry.
Old == <<[NoTargets EXCEPT ![t1] = Target("active", audA, 0), ![t2] = Target("active", audA, 1), ![t3] = Target("inactive", audA, 2)],
         [NoConns EXCEPT ![kapp] = Conn("optional", {})],
         [NoGrants EXCEPT ![gapp] = [status |-> "active", conn |-> kapp, expires |-> None]],
         [NoRuntimes EXCEPT ![r1] = [status |-> "active", mode |-> "stateless", refresh |-> FALSE]]>>

MCLegacy == {Fresh, Old}

OnTargets ==
  {Req("create", "target", t, [audience |-> x]) : t \in {t2, t3}, x \in {audA, audB}}
    \cup {Upd("target", t, [audience |-> x]) : t \in {t1, t2}, x \in {audA, audB}}
    \cup {Upd("target", t, [status |-> s]) : t \in {t2, t3}, s \in {"active", "inactive"}}
    \cup {Upd("target", t3, [status |-> "active", audience |-> audB])}
OnConnections ==
  {Req("create", "target", t1, [audience |-> audA]),
   Req("create", "runtime", r2, [mode |-> "stateful", refresh |-> TRUE]),
   Req("create", "runtime", r2, [mode |-> "stateless", refresh |-> TRUE]),
   Upd("runtime", r2, [mode |-> "stateless"]), Upd("runtime", r1, [refresh |-> TRUE]),
   Upd("runtime", r1, [mode |-> "stateless", refresh |-> TRUE]), Upd("runtime", r1, [status |-> "suspended"]),
   Req("create", "grant", gagent, [conn |-> kagent, expires |-> 1]), Upd("grant", gapp, [expires |-> 1]),
   Upd("connection", kapp, [providers |-> {prov}]), Upd("connection", kapp, [mode |-> "required"])}
    \cup {Req("create", "connection", kagent, [of |-> o, runtime |-> r, target |-> t1, mode |-> m, providers |-> ps]) :
            o \in {agent, r1}, r \in {r1, None}, m \in {"optional", "forbidden"}, ps \in {{}, {prov}}}
AroundSeeds ==
  {Req("delete", "principal", app, <<>>), Req("delete", "principal", agent, <<>>), Req("uris", "principal", app, <<>>),
   Upd("runtime", r1, [mode |-> "stateful"]), Upd("runtime", r1, [status |-> "suspended"]),
   Upd("target", t1, [status |-> "inactive", audience |-> audB]), Upd("connection", kapp, [status |-> "inactive", expires |-> 1]),
   Upd("grant", gapp, [status |-> "revoked"]), Upd("grant", gagent, [expires |-> 1]),
   Req("create", "connection", kagent, [of |-> app, runtime |-> None, target |-> t1, mode |-> "required", providers |-> {prov}])}

MCPools == {[requests |-> OnTargets, tightenings |-> 1, seeds |-> 0],
            [requests |-> OnConnections, tightenings |-> 1, seeds |-> 0],
            [requests |-> {}, tightenings |-> 2, seeds |-> 1],
            [requests |-> AroundSeeds, tightenings |-> 0, seeds |-> 2]}
===============================================================================
