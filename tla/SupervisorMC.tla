--------------------------- MODULE SupervisorMC ---------------------------
(***************************************************************************)
(* Small instances of Supervisor.  Names "i" and "j"; a1 and a2 are two    *)
(* processes that use the name "i" one after the other, b uses "j", s1 and *)
(* s2 are runs of a service.  a1x is a second life of a1.                  *)
(***************************************************************************)
EXTENDS Supervisor

CONSTANTS h1, h2

MCUids == {"a1", "a1x", "a2", "b", "s1", "s2"}
MCIds  == {"i", "j", "r1", "r2"}
MCIdOf == [u \in MCUids |-> CASE u \in {"a1", "a1x", "a2"} -> "i" [] u = "b" -> "j"
                              [] u = "s1" -> "r1" [] u = "s2" -> "r2"]
MCIdentity == [u \in MCUids |-> IF u = "a1x" THEN "a1" ELSE u]
MCRuns == <<"s1", "s2">>
MCAliased   == [u \in MCUids |-> IF u \in {"s1", "s2"} THEN {} ELSE {"key"}]
MCProjected == [u \in MCUids |-> IF u = "b" THEN {"file"} ELSE {}]

Quiet == [uids |-> {}, handlers |-> {h1}, service |-> FALSE, clients |-> {}, output |-> 0, input |-> 0, restarts |-> 0]

\* Two processes that use one name, and one that shares their credential; a
\* restart; a service; output to a lossless and to a droppable client; input.
MCLoads == {[Quiet EXCEPT !.uids = {"a1", "a2", "b"}],
            [Quiet EXCEPT !.uids = {"a1", "b"}, !.handlers = {h1, h2}, !.restarts = 1],
            [Quiet EXCEPT !.uids = {"a1", "a1x"}, !.handlers = {h1, h2}, !.restarts = 1],
            [Quiet EXCEPT !.uids = {"a1"}, !.service = TRUE, !.restarts = 1],
            [Quiet EXCEPT !.uids = {"a1"}, !.clients = {"whole", "quick"}, !.output = 3],
            [Quiet EXCEPT !.uids = {"a1"}, !.clients = {"whole"}, !.output = 1, !.input = 1]}
===========================================================================
