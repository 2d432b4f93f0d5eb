------------------------------ MODULE Enrolment ------------------------------
(***************************************************************************)
(* Who may join the cluster: the hub's node table with its waiting list    *)
(* (cluster/websockets_server.py), the operator's commands on it           *)
(* (commands/node.py) and the token an instance keeps in its own file      *)
(* (__init__.py, _load_identity and its neighbours).                       *)
(*                                                                         *)
(* On the hub run one thread for the operator's commands and one for each  *)
(* connection.  Every method of the table is atomic under _nodes_lock and  *)
(* writes the file before it releases it; a command or a handshake that    *)
(* calls several of them is several steps.  Tokens and requests are        *)
(* numbered in the order they are made.  Time is what it does: a token     *)
(* expires, a request gets too old, the window of an address passes.       *)
(***************************************************************************)
EXTENDS Naturals, Sequences, FiniteSets

CONSTANTS
    Insts,          \* instances that dial the hub
    Bot,            \* the Mineflayer bot, on the hub's own machine
    Names,
    NameOf,         \* the configured name of each instance
    AddrOf,         \* the address each instance dials from
    Conns,          \* bound: connections served at once
    MaxTokens, MaxRequests, MaxRestarts, MaxFailures,   \* bounds
    MaxPending,     \* MAX_ENROL_PENDING
    RateLimit       \* ENROL_RATE_LIMIT

ASSUME BotIsAnInstance == Bot \in Insts
ASSUME NamesGiven == NameOf \in [Insts -> Names] /\ DOMAIN AddrOf = Insts
ASSUME EnrolBounds == /\ {MaxTokens, MaxRequests} \subseteq Nat \ {0}
                      /\ {MaxRestarts, MaxFailures} \subseteq Nat
                      /\ {MaxPending, RateLimit} \subseteq Nat \ {0}

VARIABLES
    nodes,      \* _nodes: per name the current token, or 0
    pending,    \* _enrol_pending: per name its request
    disk,       \* the table as the file has it
    rate,       \* _enrol_rate: new requests of an address in its window
    tokens,     \* the tokens made so far: name and app they are bound to, and by whom
    asked,      \* the requests recorded so far: their names
    expired,    \* tokens whose time is over
    stale,      \* requests older than ENROL_PENDING_TTL
    op,         \* the thread of the operator's commands
    conn,       \* per connection its thread: _handler and _handshake
    ident,      \* per instance the token in its file, or 0
    rewriting,  \* {} or {the token a rewrite of the bot's config has read}
    claiming,   \* a token `node claim` has verified and not yet written, or 0
    link,       \* per instance: "off", "idle", "dialing", "up" or "fatal"
    carried,    \* the token its link was started with
    restarts, failures,
    unsaved,    \* history: the last save failed
    dead,       \* history: tokens revoked or replaced
    closed,     \* history: requests approved or dropped
    mixed       \* history: since the bot's token was made, another writer of its config
                \* overlapped with it, or one failed or was cut short

tableVars == <<nodes, pending, disk, unsaved, failures>>
tokenVars == <<tokens, dead, closed, mixed>>
instVars == <<ident, rewriting, claiming, link, carried>>
timeVars == <<rate, expired, stale>>
vars == <<tableVars, tokenVars, instVars, timeVars, asked, op, conn, restarts>>

Tokens == 1..MaxTokens
Requests == 1..MaxRequests
NoRequest == [at |-> 0, app |-> ""]
AppOf(i) == IF i = Bot THEN "mineflayer_bot" ELSE "games_ai"
Apps == {"games_ai", "mineflayer_bot"}
Idle == [pc |-> "idle", name |-> NameOf[Bot], app |-> "", tok |-> 0]
NoConn == [pc |-> "none", inst |-> Bot, tok |-> 0, open |-> FALSE, hello |-> "good"]
BotName == NameOf[Bot]

Init ==
    /\ nodes = [n \in Names |-> 0] /\ pending = [n \in Names |-> NoRequest]
    /\ disk = [nodes |-> nodes, pending |-> pending]
    /\ rate = [a \in {AddrOf[i] : i \in Insts} |-> 0]
    /\ tokens = <<>> /\ asked = <<>> /\ expired = {} /\ stale = {}
    /\ op = Idle /\ conn = [c \in Conns |-> NoConn]
    /\ ident = [i \in Insts |-> 0] /\ claiming = ident /\ carried = ident
    /\ link = [i \in Insts |-> "off"] /\ rewriting = {}
    /\ restarts = 0 /\ failures = 0
    /\ unsaved = FALSE /\ dead = {} /\ closed = {} /\ mixed = FALSE

-----------------------------------------------------------------------------
(* The table.  A save that fails is logged and nothing else.               *)

Save(table, waiting) ==
    \/ /\ disk' = [nodes |-> table, pending |-> waiting] /\ unsaved' = FALSE
       /\ UNCHANGED failures
    \/ /\ failures < MaxFailures /\ failures' = failures + 1 /\ unsaved' = TRUE
       /\ UNCHANGED disk

Pruned == [n \in Names |-> IF pending[n].at \in stale THEN NoRequest ELSE pending[n]]

PruneOnly == /\ pending' = Pruned
             /\ UNCHANGED <<nodes, disk, unsaved, failures>>

\* Mutant: issue trusts the command's own look at is_enrolled.
MayIssueUntested(n, requirePending, replace) == requirePending => pending[n] # NoRequest

MayIssue(n, requirePending, replace) ==
    /\ requirePending => pending[n] # NoRequest
    /\ ~replace => nodes[n] = 0

Storing(c) == conn[c].pc = "store"
Provisioning == (\E c \in Conns : Storing(c)) \/ (op.pc = "sync" /\ op.name = BotName)

\* issue, once its guards hold: a new token, the old one and the request go.
Mint(n, app, via) ==
    /\ Len(tokens) < MaxTokens
    /\ tokens' = Append(tokens, [name |-> n, app |-> app, via |-> via])
    /\ nodes' = [nodes EXCEPT ![n] = Len(tokens) + 1]
    /\ pending' = [pending EXCEPT ![n] = NoRequest]
    /\ Save(nodes', pending')
    /\ dead' = dead \cup ({nodes[n]} \ {0})
    /\ closed' = closed \cup ({pending[n].at} \ {0})
    /\ mixed' = IF n = BotName THEN Provisioning \/ rewriting # {} ELSE mixed

-----------------------------------------------------------------------------
(* The operator's commands: never forwarded, one after the other.          *)

OpKeeps == UNCHANGED <<instVars, timeVars, asked, conn, restarts>>

Pending == /\ op = Idle /\ PruneOnly
           /\ UNCHANGED <<op, tokenVars>> /\ OpKeeps

\* `node token`: is_enrolled, is_pending, the request's app, issue.
TokenCommand(n) ==
    /\ op = Idle /\ nodes[n] = 0
    /\ op' = [Idle EXCEPT !.pc = "waiting?", !.name = n]
    /\ UNCHANGED <<tableVars, tokenVars>> /\ OpKeeps

TokenIsPending ==
    /\ op.pc = "waiting?" /\ PruneOnly
    /\ op' = IF pending'[op.name] = NoRequest THEN Idle ELSE [op EXCEPT !.pc = "request"]
    /\ UNCHANGED tokenVars /\ OpKeeps

TokenReadRequest ==
    /\ op.pc = "request" /\ PruneOnly
    /\ op' = [op EXCEPT !.pc = "issue", !.app = pending'[op.name].app]
    /\ UNCHANGED tokenVars /\ OpKeeps

TokenIssue ==
    /\ op.pc = "issue"
    /\ IF MayIssue(op.name, TRUE, FALSE)
       THEN /\ Mint(op.name, op.app, "token")
            /\ op' = [op EXCEPT !.pc = "sync", !.tok = Len(tokens')]
       ELSE op' = Idle /\ UNCHANGED <<tableVars, tokenVars>>
    /\ OpKeeps

\* `node rotate`: is_enrolled, the entry's app, issue(replace=True).
RotateCommand(n) ==
    /\ op = Idle /\ nodes[n] # 0
    /\ op' = [Idle EXCEPT !.pc = "entry", !.name = n]
    /\ UNCHANGED <<tableVars, tokenVars>> /\ OpKeeps

RotateReadEntry ==
    /\ op.pc = "entry"
    /\ op' = IF nodes[op.name] = 0 THEN Idle
             ELSE [op EXCEPT !.pc = "reissue", !.app = tokens[nodes[op.name]].app]
    /\ UNCHANGED <<tableVars, tokenVars>> /\ OpKeeps

RotateIssue ==
    /\ op.pc = "reissue" /\ MayIssue(op.name, FALSE, TRUE)
    /\ Mint(op.name, op.app, "rotate")
    /\ op' = [op EXCEPT !.pc = "sync", !.tok = Len(tokens')]
    /\ OpKeeps

\* _store_bot_token and _write_mineflayer_config take no lock; an error of the
\* first is logged and nothing else, and leaves the old file or a torn one, in
\* which no token is found.
WriteBotConfig(t) ==
    \/ ident' = [ident EXCEPT ![Bot] = t] /\ UNCHANGED <<failures, mixed>>
    \/ /\ failures < MaxFailures /\ failures' = failures + 1 /\ mixed' = TRUE
       /\ \E left \in {ident[Bot], 0} : ident' = [ident EXCEPT ![Bot] = left]

\* _sync_local_bot_token, and the reply that prints the token.
SyncLocalBotToken ==
    /\ op.pc = "sync" /\ op' = Idle
    /\ IF op.name = BotName THEN WriteBotConfig(op.tok) ELSE UNCHANGED <<ident, failures, mixed>>
    /\ UNCHANGED <<nodes, pending, disk, unsaved, tokens, dead, closed, rewriting, claiming,
                   link, carried, timeVars, asked, conn, restarts>>

\* Mutant: Only memory is revoked.
RevokeUnsaved(n) ==
    /\ op = Idle /\ (nodes[n] # 0 \/ pending[n] # NoRequest)
    /\ nodes' = [nodes EXCEPT ![n] = 0]
    /\ pending' = [pending EXCEPT ![n] = NoRequest]
    /\ dead' = dead \cup ({nodes[n]} \ {0})
    /\ closed' = closed \cup ({pending[n].at} \ {0})
    /\ UNCHANGED <<disk, unsaved, failures, op, tokens, mixed>> /\ OpKeeps

\* A request alone is dropped from memory only: revoke returns before it saves.
Revoke(n) ==
    /\ op = Idle /\ (nodes[n] # 0 \/ pending[n] # NoRequest)
    /\ nodes' = [nodes EXCEPT ![n] = 0]
    /\ pending' = [pending EXCEPT ![n] = NoRequest]
    /\ IF nodes[n] = 0 THEN UNCHANGED <<disk, unsaved, failures>> ELSE Save(nodes', pending')
    /\ dead' = dead \cup ({nodes[n]} \ {0})
    /\ closed' = closed \cup ({pending[n].at} \ {0})
    /\ UNCHANGED <<op, tokens, mixed>> /\ OpKeeps

-----------------------------------------------------------------------------
(* An instance dials.  Its hello is judged by what holds as it is sent.    *)

Hello(t) == IF t \in dead THEN "dead" ELSE IF t \in expired THEN "expired" ELSE "good"

Dial(i, c) ==
    /\ link[i] = "idle" /\ conn[c].pc = "none"
    /\ link' = [link EXCEPT ![i] = "dialing"]
    /\ conn' = [conn EXCEPT ![c] = [pc |-> "hello", inst |-> i, tok |-> carried[i],
                                    open |-> TRUE, hello |-> Hello(carried[i])]]
    /\ UNCHANGED <<tableVars, tokenVars, timeVars, ident, rewriting, claiming, carried, asked, op, restarts>>

Name(c) == NameOf[conn[c].inst]
HandlerKeeps == UNCHANGED <<timeVars, ident, rewriting, claiming, carried, op, restarts>>

\* The hub closes with a code that the node's loop does not retry.
Refuse(c) ==
    /\ conn' = [conn EXCEPT ![c] = NoConn]
    /\ link' = IF conn[c].open THEN [link EXCEPT ![conn[c].inst] = "fatal"] ELSE link

\* _bot_auto_issue_allowed, its loopback half: a bot beside a node is not modelled.
AutoIssue(c) ==
    /\ conn[c].pc = "hello" /\ conn[c].inst = Bot /\ conn[c].tok = 0
    /\ MayIssue(Name(c), FALSE, TRUE) /\ Mint(Name(c), AppOf(Bot), "auto")
    /\ conn' = [conn EXCEPT ![c].pc = "store", ![c].tok = Len(tokens')]
    /\ UNCHANGED <<link, asked>> /\ HandlerKeeps

\* on_bot_token: _store_bot_token writes the bot's config; the handshake goes on
\* whether that worked or not.
StoreBotToken(c) ==
    /\ Storing(c) /\ WriteBotConfig(conn[c].tok)
    /\ conn' = [conn EXCEPT ![c].pc = "register"]
    /\ UNCHANGED <<nodes, pending, disk, unsaved, tokens, dead, closed, timeVars, rewriting,
                   claiming, link, carried, asked, op, restarts>>

\* Mutant: the file is written from the plugin's config alone.
RewriteReadsNothing ==
    /\ rewriting = {} /\ rewriting' = {0} /\ mixed' = (mixed \/ Provisioning)
    /\ UNCHANGED <<tableVars, tokens, dead, closed, timeVars, ident, claiming, link, carried,
                   asked, op, conn, restarts>>

\* _write_mineflayer_config, for a launch, a reload or a new role: it reads the
\* token (a file that is being written has none) and writes the whole file back.
RewriteReads ==
    /\ rewriting = {}
    /\ \E t \in {ident[Bot]} \cup IF Provisioning THEN {0} ELSE {} : rewriting' = {t}
    /\ mixed' = (mixed \/ Provisioning)
    /\ UNCHANGED <<tableVars, tokens, dead, closed, timeVars, ident, claiming, link, carried,
                   asked, op, conn, restarts>>

RewriteWrites ==
    /\ \E t \in rewriting : WriteBotConfig(t)
    /\ rewriting' = {}
    /\ UNCHANGED <<nodes, pending, disk, unsaved, tokens, dead, closed, timeVars, claiming,
                   link, carried, asked, op, conn, restarts>>

\* enrol: a new name is refused when the list is full or its address asks too
\* often; a name that waits already is refreshed and saved only after a prune.
Enrol(c) ==
    LET n == Name(c)  i == conn[c].inst  a == AddrOf[i] IN
    /\ conn[c].pc = "hello" /\ i # Bot /\ conn[c].tok = 0
    /\ \/ /\ Pruned[n] = NoRequest
          /\ \/ Cardinality({m \in Names : Pruned[m] # NoRequest}) >= MaxPending
             \/ rate[a] >= RateLimit
          /\ PruneOnly /\ UNCHANGED <<rate, asked>>
       \/ /\ Pruned[n] = NoRequest
          /\ Cardinality({m \in Names : Pruned[m] # NoRequest}) < MaxPending
          /\ rate[a] < RateLimit /\ Len(asked) < MaxRequests
          /\ rate' = [rate EXCEPT ![a] = @ + 1]
          /\ asked' = Append(asked, n)
          /\ pending' = [Pruned EXCEPT ![n] = [at |-> Len(asked'), app |-> AppOf(i)]]
          /\ Save(nodes, pending') /\ UNCHANGED nodes
       \/ /\ Pruned[n] # NoRequest
          /\ pending' = [Pruned EXCEPT ![n].app = AppOf(i)]
          /\ IF Pruned # pending THEN Save(nodes, pending')
             ELSE UNCHANGED <<disk, unsaved, failures>>
          /\ UNCHANGED <<nodes, rate, asked>>
    /\ Refuse(c)
    /\ UNCHANGED <<tokenVars, expired, stale, ident, rewriting, claiming, carried, op, restarts>>

\* Mutant: The name is enrolled, so any token will do.
VerifyName(c) ==
    /\ conn[c].pc = "hello" /\ conn[c].tok # 0
    /\ IF nodes[Name(c)] # 0
       THEN conn' = [conn EXCEPT ![c].pc = "expiry"] /\ UNCHANGED link
       ELSE Refuse(c)
    /\ UNCHANGED <<tableVars, tokenVars, asked>> /\ HandlerKeeps

\* verify compares with the entry, with its app if it has one, then asks
\* expires_in, which reads it again.
Verify(c) ==
    /\ conn[c].pc = "hello" /\ conn[c].tok # 0
    /\ IF nodes[Name(c)] = conn[c].tok /\ tokens[conn[c].tok].app \in {"", AppOf(conn[c].inst)}
       THEN conn' = [conn EXCEPT ![c].pc = "expiry"] /\ UNCHANGED link
       ELSE Refuse(c)
    /\ UNCHANGED <<tableVars, tokenVars, asked>> /\ HandlerKeeps

ExpiresIn(c) ==
    /\ conn[c].pc = "expiry"
    /\ IF nodes[Name(c)] \in expired THEN Refuse(c)
       ELSE conn' = [conn EXCEPT ![c].pc = "seen"] /\ UNCHANGED link
    /\ UNCHANGED <<tableVars, tokenVars, asked>> /\ HandlerKeeps

\* record_seen saves when something material changed, or after a while.
RecordSeen(c) ==
    /\ conn[c].pc = "seen"
    /\ conn' = [conn EXCEPT ![c].pc = "register"]
    /\ \/ UNCHANGED <<disk, unsaved, failures>>
       \/ nodes[Name(c)] # 0 /\ Save(nodes, pending)
    /\ UNCHANGED <<nodes, pending, link, tokenVars, asked>> /\ HandlerKeeps

\* The newest connection of a name takes its place; another instance with that
\* name is closed for good.  The ack carries a token the hub has just made.
Register(c) ==
    LET me == conn[c].inst IN
    /\ conn[c].pc = "register"
    /\ conn' = [conn EXCEPT ![c] = NoConn]
    /\ link' = [i \in Insts |->
                 IF i = me THEN IF conn[c].open THEN "up" ELSE link[i]
                 ELSE IF link[i] = "up" /\ NameOf[i] = Name(c) THEN "fatal" ELSE link[i]]
    /\ carried' = IF conn[c].open THEN [carried EXCEPT ![me] = conn[c].tok] ELSE carried
    /\ UNCHANGED <<tableVars, tokenVars, timeVars, ident, rewriting, claiming, asked, op, restarts>>

-----------------------------------------------------------------------------
(* The instance's own side.                                                *)

InstKeeps == UNCHANGED <<tableVars, tokenVars, timeVars, asked, op, restarts>>
HangUp(i) == conn' = [c \in Conns |-> IF conn[c].inst = i THEN [conn[c] EXCEPT !.open = FALSE]
                                      ELSE conn[c]]

\* The link breaks, or the answer to a hello does not come in time.
Drop(i) ==
    /\ link[i] \in {"up", "dialing"}
    /\ link' = [link EXCEPT ![i] = "idle"] /\ HangUp(i)
    /\ UNCHANGED <<ident, rewriting, claiming, carried>> /\ InstKeeps

\* A start of the link takes the token _identity_token_for_link finds.
Start(i) ==
    /\ link[i] \in {"off", "fatal"}
    /\ link' = [link EXCEPT ![i] = "idle"]
    /\ carried' = [carried EXCEPT ![i] = ident[i]]
    /\ UNCHANGED <<ident, rewriting, claiming, conn>> /\ InstKeeps

\* `node claim`: a probe asks whose token this is (name_for_token) ...
ClaimProbe(i, t) ==
    /\ i # Bot /\ claiming[i] = 0 /\ t \in DOMAIN tokens /\ nodes[NameOf[i]] = t
    /\ op.pc = "sync" => op.tok # t                 \* not printed yet
    /\ claiming' = [claiming EXCEPT ![i] = t]
    /\ UNCHANGED <<ident, rewriting, link, carried, conn>> /\ InstKeeps

\* ... then the identity is written and the link restarted; a death in the
\* write leaves a file that reads as no identity.
ClaimSave(i) ==
    /\ claiming[i] # 0
    /\ claiming' = [claiming EXCEPT ![i] = 0] /\ HangUp(i)
    /\ \/ /\ ident' = [ident EXCEPT ![i] = claiming[i]]
          /\ link' = [link EXCEPT ![i] = "idle"]
          /\ carried' = [carried EXCEPT ![i] = claiming[i]]
       \/ /\ ident' = [ident EXCEPT ![i] = 0]
          /\ link' = [link EXCEPT ![i] = "off"]
          /\ carried' = [carried EXCEPT ![i] = 0]
    /\ UNCHANGED rewriting /\ InstKeeps

Forget(i) ==
    /\ i # Bot /\ ident[i] # 0 /\ claiming[i] = 0
    /\ ident' = [ident EXCEPT ![i] = 0]
    /\ link' = [link EXCEPT ![i] = "off"] /\ HangUp(i)
    /\ carried' = [carried EXCEPT ![i] = 0]
    /\ UNCHANGED <<rewriting, claiming>> /\ InstKeeps

-----------------------------------------------------------------------------
(* Time and restarts.                                                      *)

Expire(t) == /\ t \in DOMAIN tokens \ expired /\ expired' = expired \cup {t}
             /\ UNCHANGED <<tableVars, tokenVars, instVars, rate, stale, asked, op, conn, restarts>>

GetStale(r) == /\ r \in DOMAIN asked \ stale /\ stale' = stale \cup {r}
               /\ UNCHANGED <<tableVars, tokenVars, instVars, rate, expired, asked, op, conn, restarts>>

WindowPasses(a) == /\ rate[a] # 0 /\ rate' = [rate EXCEPT ![a] = 0]
                   /\ UNCHANGED <<tableVars, tokenVars, instVars, expired, stale, asked, op, conn, restarts>>

\* The hub dies with its threads and connections and reads its table again;
\* what a failed save did not write is gone, and what it did not erase is back.
\* A death in a write of the bot's config leaves a torn file.
Restart ==
    LET onDisk == {disk.nodes[n] : n \in Names}
        writing == Provisioning \/ rewriting # {} IN
    /\ restarts < MaxRestarts /\ restarts' = restarts + 1
    /\ nodes' = disk.nodes /\ pending' = disk.pending
    /\ rate' = [a \in DOMAIN rate |-> 0]
    /\ op' = Idle /\ conn' = [c \in Conns |-> NoConn]
    /\ link' = [i \in Insts |-> IF link[i] \in {"up", "dialing"} THEN "idle" ELSE link[i]]
    /\ IF unsaved
       THEN /\ dead' = (dead \cup DOMAIN tokens) \ onDisk
            /\ closed' = closed \cup {r \in DOMAIN asked : disk.pending[asked[r]].at # r}
       ELSE UNCHANGED <<dead, closed>>
    /\ \/ UNCHANGED ident
       \/ writing /\ ident' = [ident EXCEPT ![Bot] = 0]
    /\ rewriting' = {}
    /\ mixed' = (mixed \/ writing \/ unsaved)
    /\ unsaved' = FALSE
    /\ UNCHANGED <<disk, failures, tokens, asked, expired, stale, claiming, carried>>

Operator ==
    \/ Pending
    \/ \E n \in Names : TokenCommand(n) \/ RotateCommand(n) \/ Revoke(n)
    \/ TokenIsPending \/ TokenReadRequest \/ TokenIssue
    \/ RotateReadEntry \/ RotateIssue \/ SyncLocalBotToken

Handler(c) ==
    \/ AutoIssue(c) \/ StoreBotToken(c) \/ Enrol(c)
    \/ Verify(c) \/ ExpiresIn(c) \/ RecordSeen(c) \/ Register(c)

Instance(i) ==
    \/ Drop(i) \/ Start(i) \/ ClaimSave(i) \/ Forget(i)
    \/ \E c \in Conns : Dial(i, c)
    \/ \E t \in Tokens : ClaimProbe(i, t)

Passing ==
    \/ \E t \in Tokens : Expire(t)
    \/ \E r \in Requests : GetStale(r)
    \/ \E a \in DOMAIN rate : WindowPasses(a)

Next ==
    \/ Operator
    \/ \E c \in Conns : Handler(c)
    \/ \E i \in Insts : Instance(i)
    \/ RewriteReads \/ RewriteWrites
    \/ Passing
    \/ Restart

Spec == Init /\ [][Next]_vars

-----------------------------------------------------------------------------
(* Properties.                                                             *)

Table == [nodes : [Names -> 0..MaxTokens],
          pending : [Names -> [at : 0..MaxRequests, app : Apps \cup {""}]]]

\* The table in memory and in the file, the threads' states and the instances'
\* links (websockets_server.py _nodes, _enrol_pending; the identity files).
TypeOK ==
    /\ disk \in Table /\ [nodes |-> nodes, pending |-> pending] \in Table
    /\ tokens \in Seq([name : Names, app : Apps \cup {""}, via : {"token", "rotate", "auto"}])
    /\ Len(tokens) <= MaxTokens /\ asked \in Seq(Names) /\ Len(asked) <= MaxRequests
    /\ rate \in [{AddrOf[i] : i \in Insts} -> 0..RateLimit]
    /\ expired \cup dead \subseteq DOMAIN tokens /\ stale \cup closed \subseteq DOMAIN asked
    /\ op \in [pc : {"idle", "waiting?", "request", "issue", "entry", "reissue", "sync"},
               name : Names, app : Apps \cup {""}, tok : 0..MaxTokens]
    /\ conn \in [Conns -> [pc : {"none", "hello", "store", "expiry", "seen", "register"},
                           inst : Insts, tok : 0..MaxTokens, open : BOOLEAN,
                           hello : {"good", "dead", "expired"}]]
    /\ {ident, claiming, carried} \subseteq [Insts -> 0..MaxTokens] /\ rewriting \subseteq 0..MaxTokens
    /\ link \in [Insts -> {"off", "idle", "dialing", "up", "fatal"}]
    /\ restarts \in 0..MaxRestarts /\ failures \in 0..MaxFailures
    /\ {unsaved, mixed} \subseteq BOOLEAN

\* What an operator was told stays true over a restart of the hub: a token that
\* was neither revoked nor replaced is in the table under its name, one that was
\* is nowhere, and the file agrees unless its last save failed; a request that
\* was recorded waits until it is approved, dropped or too old.
TableKept ==
    LET live == DOMAIN tokens \ dead
        waiting == DOMAIN asked \ (closed \cup stale)
        Holds(table) ==
            /\ \A t \in live : table.nodes[tokens[t].name] = t
            /\ \A n \in Names : table.nodes[n] \notin dead
            /\ \A r \in waiting : table.pending[asked[r]].at = r
    IN /\ Holds([nodes |-> nodes, pending |-> pending])
       /\ ~unsaved => Holds(disk)

\* An instance that dials with a token revoked or replaced before its hello never
\* registers, and one whose token had expired does so only when the entry was
\* replaced while its handshake ran (_handshake, verify).
AdmissionIsCurrent ==
    \A c \in Conns : conn[c].pc = "register" =>
        /\ conn[c].hello # "dead"
        /\ conn[c].hello = "expired" => conn[c].tok \in dead

\* `node token` never takes the place of a name that is enrolled, whoever asks to
\* enrol under it meanwhile: only a rotation or the bot's own provisioning does.
NoSilentTakeover ==
    [][\A n \in Names : nodes[n] # 0 /\ nodes'[n] > nodes[n]
            => tokens'[nodes'[n]].via # "token"]_vars

\* A provisioning of the bot leaves the token the table has for it in its config,
\* which no later rewrite of that file loses and which ends whatever disagreement
\* there was before: the bot cannot claim a token (_sync_local_bot_token).  Excused
\* until the next one: a provisioning with which another one or a rewrite of the
\* file overlapped, and a write that failed or that a restart cut short.
BotConfigFollows ==
    ~Provisioning /\ ~mixed /\ nodes[BotName] # 0 => ident[Bot] = nodes[BotName]

\* The same with nothing excused.
BotNeverStranded == ~Provisioning /\ nodes[BotName] # 0 => ident[Bot] = nodes[BotName]

\* A request that `node revoke` dropped does not come back.
DroppedStaysDropped ==
    [][\A n \in Names : pending[n].at = 0 /\ pending'[n].at # 0 => pending'[n].at \notin closed]_vars
=============================================================================
