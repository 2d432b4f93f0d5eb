------------------------------ MODULE MCHubLink ------------------------------
(* HubLink for TLC: what may happen in one behaviour, one entry per mix, as  *)
(* <<nodes started, calls, breaks, nodes stopped, stops of the hub>>.        *)
EXTENDS HubLink, FiniteSets, TLC

CallSymmetry == Permutations(Calls)
Symmetry == Permutations(Nodes) \cup CallSymmetry

Mixes == {<<2, 0, 1, 0, 0>>,    \* lists of peers, with a reconnect
          <<1, 1, 1, 0, 0>>,    \* a call and a connection that breaks
          <<1, 1, 0, 0, 1>>,    \* a call, the hub stops
          <<1, 1, 0, 1, 0>>,    \* a call, the node is stopped and comes back
          <<1, 2, 0, 0, 0>>,    \* two calls on one connection
          <<2, 1, 0, 0, 0>>}    \* a call from one server to another

LiveMixes == {<<2, 0, 0, 0, 0>>, <<1, 1, 1, 0, 0>>, <<1, 1, 0, 0, 1>>, <<1, 1, 0, 1, 0>>}

Started(n) == link[n] # "off" \/ life[n] > 1
Greeted(n) == life[n] > 1 \/ dialled[n] > 1 \/ link[n] \notin {"off", "away", "hello"}

Within(m) ==
    /\ Cardinality({n \in Nodes : Started(n)}) <= m[1]
    /\ Cardinality({k \in Calls : call[k] # "new"}) <= m[2]
    /\ breaks <= m[3]
    /\ m[1] > 1 /\ breaks > 0 => \A n \in Nodes : Greeted(n)
    /\ Cardinality({n \in Nodes : stopping[n] \/ life[n] > 1}) <= m[4]
    /\ hub # "up" => m[5] = 1
OneMix == \E m \in Mixes : Within(m)

\* For liveness: where one node is enough it is always the same one.
First == CHOOSE n \in Nodes : TRUE
OneLiveMix ==
    \E m \in LiveMixes :
        Within(m) /\ (m[1] = 1 => \A n \in Nodes \ {First} : ~Started(n))
\* Two calls of one server to another, the second one after it has reloaded;
\* both are asked when the cluster is quiet.
Quiet == \A c \in Conns : handler[c] \in {"none", "serve", "done"} /\ down[c] = <<>>
ReloadedCaller ==
    /\ hub = "up"
    /\ \A k \in Calls : from[k] \in {None, First} /\ to[k] # Hub /\ answer[k] # "refused"
    /\ \A k \in Calls : call[k] \in {"looked", "listed"} => Quiet
    /\ Cardinality({k \in Calls : call[k] # "new"}) <= life[First]
    /\ \A n \in Nodes : IF n = First
                       THEN stopping[n] => \E k \in Calls : call[k] \in {"waiting", "over"}
                       ELSE /\ ~stopping[n]
                            /\ Started(n) => Greeted(First)
                            /\ (\E k \in Calls : call[k] # "new") => link[n] = "session"
=============================================================================
