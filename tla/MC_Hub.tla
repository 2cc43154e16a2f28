------------------------------- MODULE MC_Hub -------------------------------
(* Instances of Hub for TLC: two endpoints and, where a run asks for it, a   *)
(* web console, each presenting the token of its account.                    *)
EXTENDS Hub, TLC

CONSTANTS u1, u2

MCUserOf == [i \in Ids |-> IF i \in Admins THEN u2 ELSE u1]

\* Connections, session ids and endpoints are interchangeable.
Sym == Permutations(Conns) \cup Permutations(Sids) \cup Permutations(Agents)

\* The lanes are written and never read by the hub: two states that differ
\* only in them have the same futures.
HubView == <<bound, task, clients, actors, owner, hasPw, live, meta, inputs,
             rows, log, counted, forwarded, late, crashes>>
=============================================================================
