---------------------------- MODULE MCEnrolment ----------------------------
(* Enrolment for TLC: a server, another one that somebody gave the bot's    *)
(* name, and the bot.  One entry per mix: the instances that dial, and how  *)
(* many connections at once, tokens, requests, restarts, failed writes,     *)
(* tokens that expire, requests that get too old and rewrites of the bot's  *)
(* config at once a behaviour may have.                                     *)
EXTENDS Enrolment, TLC

CONSTANTS server, namesake, bot, alpha, steve, lan, loopback

MCInsts == {server, namesake, bot}
MCNames == {alpha, steve}
MCNameOf == server :> alpha @@ namesake :> steve @@ bot :> steve
MCAddrOf == server :> lan @@ namesake :> lan @@ bot :> loopback

Mixes == {<<{server}, 1, 2, 1, 1, 1, 1, 0, 0>>,             \* a server's tokens, hub dies
          <<{server, namesake}, 1, 1, 2, 0, 0, 0, 1, 0>>,   \* who may wait, and how long
          <<{namesake, bot}, 1, 2, 1, 0, 0, 0, 0, 0>>,      \* one name, two instances
          <<{bot}, 2, 3, 0, 0, 0, 0, 0, 0>>,                \* the bot's tokens
          <<{bot}, 1, 2, 0, 0, 1, 0, 0, 1>>}                \* and its config

Within(m) ==
    /\ {i \in Insts : link[i] # "off"} \subseteq m[1]
    /\ Cardinality({c \in Conns : conn[c] # NoConn}) <= m[2]
    /\ Len(tokens) <= m[3] /\ Len(asked) <= m[4]
    /\ restarts <= m[5] /\ failures <= m[6]
    /\ Cardinality(expired) <= m[7] /\ Cardinality(stale) <= m[8]
    /\ Cardinality(rewriting) <= m[9]
OneMix == \E m \in Mixes : Within(m)
=============================================================================
