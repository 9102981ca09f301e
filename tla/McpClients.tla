------------------------------ MODULE McpClients ------------------------------
(***************************************************************************)
(* McpClientManager and McpToolRegistrar: which tools of which MCP servers *)
(* the model can call.  Server actions of the user (add, authenticate,     *)
(* disable, remove) and of the FindMcp tool, and the refresh that each     *)
(* turn starts with, run at the same time and meet in the maps below.      *)
(*                                                                         *)
(* A connection is identified with the action that made it, one that       *)
(* `initialize' made with its server.  A tool is known by the version of   *)
(* its definition, 0 when its server does not list it.  An action covers   *)
(* the code between two awaits of a server's answer.  Taken for granted:   *)
(* no hashed name is also a plain one.                                     *)
(***************************************************************************)
EXTENDS Naturals

CONSTANTS
  Servers, Tools,
  Prefix,      \* the sanitized name of each server, which two may share
  Earlier,     \* Earlier[s]: the servers configured before s
  Actions,     \* server actions, each performed once
  Syncs,       \* refreshes that may run at once: a failed turn leaves its own
  MaxVersion, MaxChanges,
  None

Conns == Servers \cup Actions
Versions == 0..MaxVersion

\* mcpFunctionName: plain names may coincide for two servers, hashed ones not.
Plain(s, t)  == [of |-> Prefix[s], tool |-> t]
Hashed(s, t) == [of |-> s, tool |-> t]
FunctionNames == [of : Servers \cup {Prefix[s] : s \in Servers}, tool : Tools]
Definitions == [name : FunctionNames, conn : Conns, tool : Tools, v : Versions]

\* Any two servers have an order in the configuration.
ASSUME McpAssumption ==
  /\ MaxVersion \in Nat \ {0} /\ MaxChanges \in Nat
  /\ Servers \cap Actions = {}
  /\ None \notin Conns \cup FunctionNames \cup Definitions
  /\ DOMAIN Prefix = Servers /\ \A s \in Servers : Prefix[s] \notin Servers
  /\ Earlier \in [Servers -> SUBSET Servers]
  /\ \A s, q \in Servers : s = q \/ s \in Earlier[q] \/ q \in Earlier[s]

VARIABLES
  offered,     \* the list of each server (external)
  changes,     \* how often one of them has changed, at most MaxChanges
  conn,        \* connections
  open,        \* connections whose transport is open
  held,        \* connection.tools of each connection
  known,       \* serverConfigs
  statuses,    \* serverStatuses[s].status, "absent" when there is none
  names,       \* serverStatuses[s].toolNames
  taken,       \* registeredToolNames
  dirty,       \* dirtyToolServers
  registry,    \* the tool registry: what each function name calls
  act,         \* the server actions
  sync,        \* the refreshes
  crossed      \* history: two of these met at servers of one prefix

server == <<offered, changes>>
books  == <<conn, open, held, known, statuses, names, taken>>
mcpVars == <<server, books, dirty, registry, act, sync, crossed>>

NoTool == [v |-> 0, name |-> None]
IsListed(list) == {t \in Tools : list[t] # 0}

IdleAct  == [kind |-> "none", server |-> None, phase |-> "new", before |-> {}]
IdleSync == [all |-> {}, left |-> {}, at |-> None, phase |-> "idle",
             removed |-> {}, tools |-> {}]

ServerOf(c) == IF c \in Servers THEN c ELSE act[c].server

----------------------------------------------------------------------------
(* Names.                                                                  *)

\* uniqueMcpRegisteredName, without the warning.
Free(s, t, seen) ==
  CASE Plain(s, t) \notin seen  -> Plain(s, t)
    [] Hashed(s, t) \notin seen -> Hashed(s, t)
    [] OTHER                    -> None

\* withRegisteredNames: the names given to tools T of server s.
Given(s, T, seen) == {t \in T : Free(s, t, seen) # None}
NamesOf(s, T, seen) == {Free(s, t, seen) : t \in Given(s, T, seen)}

\* What it keeps of them in the connection that s has now.
Kept(h, c, s, T, list, seen) ==
  IF c = None THEN h
  ELSE [h EXCEPT ![c] = [t \in Tools |->
          IF t \in Given(s, T, seen)
            THEN [v |-> list[t], name |-> Free(s, t, seen)] ELSE h[c][t]]]

\* The definitions it returns: their calls go to the client that listed them.
Defs(s, c, T, list, seen) ==
  {[name |-> Free(s, t, seen), conn |-> c, tool |-> t, v |-> list[t]]
     : t \in Given(s, T, seen)}

\* register: it throws at the first name that the registry has.
Fresh(reg, defs) == {d \in defs : reg[d.name] = None}
Added(reg, defs) ==
  [n \in FunctionNames |->
     IF \E d \in defs : d.name = n THEN CHOOSE d \in defs : d.name = n
                                   ELSE reg[n]]
Registers(reg, defs) ==
  IF Fresh(reg, defs) = defs /\ \A d, e \in defs : d.name = e.name => d = e
    THEN registry' = Added(reg, defs)
    ELSE \E S \in SUBSET Fresh(reg, defs) :
           /\ \A d, e \in S : d.name = e.name => d = e
           /\ registry' = Added(reg, S)

\* unregister.
Without(reg, gone) == [n \in FunctionNames |-> IF n \in gone THEN None ELSE reg[n]]

----------------------------------------------------------------------------
(* initialize, with the tools that each reachable server offers.           *)
NameAtStart(up, s, t) ==
  IF \E q \in Earlier[s] \cap up : Prefix[q] = Prefix[s] /\ offered[q][t] # 0
    THEN Hashed(s, t) ELSE Plain(s, t)

McpInit ==
  /\ offered \in [Servers -> [Tools -> {0, 1}]]
  /\ changes = 0
  /\ known \in SUBSET Servers
  /\ statuses \in [Servers -> {"absent", "disabled", "error", "connected"}]
  /\ \A s \in Servers : s \in known <=> statuses[s] # "absent"
  /\ LET up == {s \in Servers : statuses[s] = "connected"}
         Listed(s) == IF s \in up THEN IsListed(offered[s]) ELSE {}
     IN /\ conn = [s \in Servers |-> IF s \in up THEN s ELSE None]
        /\ open = up
        /\ held = [c \in Conns |-> [t \in Tools |->
             IF c \in up /\ t \in Listed(c)
               THEN [v |-> offered[c][t], name |-> NameAtStart(up, c, t)]
               ELSE NoTool]]
        /\ names = [s \in Servers |-> {NameAtStart(up, s, t) : t \in Listed(s)}]
        /\ taken = UNION {names[s] : s \in Servers}
        /\ registry = Added([n \in FunctionNames |-> None],
             UNION {{[name |-> NameAtStart(up, s, t), conn |-> s, tool |-> t,
                      v |-> offered[s][t]] : t \in Listed(s)} : s \in Servers})
  /\ dirty = {}
  /\ act = [a \in Actions |-> IdleAct]
  /\ sync = [r \in Syncs |-> IdleSync]
  /\ crossed = FALSE

\* What an activity may disturb: the servers it is at, and their name-sakes.
Related(S) == {s \in Servers : \E q \in S : Prefix[q] = Prefix[s]}
Busy == UNION ({{act[a].server} : a \in {a \in Actions : act[a].phase \in {"closing", "connecting"}}}
               \cup {sync[r].all : r \in Syncs})
Enters(S) == crossed' = (crossed \/ Related(S) \cap Busy # {})

----------------------------------------------------------------------------
(* The servers: tools/list_changed of a server with an open connection.    *)
Change(s, t) ==
  /\ changes < MaxChanges
  /\ changes' = changes + 1
  /\ \E v \in Versions \ {offered[s][t]} : offered' = [offered EXCEPT ![s][t] = v]
  /\ dirty' = IF \E c \in open : ServerOf(c) = s THEN dirty \cup {s} ELSE dirty
  /\ UNCHANGED <<books, registry, act, sync, crossed>>

----------------------------------------------------------------------------
(* Server actions.                                                         *)
Does(a, kind, s, phase, before) ==
  act' = [act EXCEPT ![a] = [kind |-> kind, server |-> s, phase |-> phase,
                             before |-> before]]

Ended(a, s) == Does(a, "none", s, "done", {})

\* addServer, up to its connect.
Add(a, s) ==
  /\ act[a].phase = "new" /\ conn[s] = None
  /\ known' = known \cup {s}
  /\ Does(a, "add", s, "connecting", {})
  /\ Enters({s})
  /\ UNCHANGED <<server, conn, open, held, statuses, names, taken, dirty, registry, sync>>

\* addServer of an entry that is disabled.
AddDisabled(a, s) ==
  /\ act[a].phase = "new" /\ conn[s] = None
  /\ known' = known \cup {s}
  /\ statuses' = [statuses EXCEPT ![s] = "disabled"]
  /\ names' = [names EXCEPT ![s] = {}]
  /\ Ended(a, None)
  /\ Enters({s})
  /\ UNCHANGED <<server, conn, open, held, taken, dirty, registry, sync>>

\* closeServerConnection, up to the close of its transport.
CloseFreeing(s, freed) ==
  /\ taken' = taken \ freed
  /\ conn' = [conn EXCEPT ![s] = None]
  /\ dirty' = IF conn[s] # None THEN dirty \ {s} ELSE dirty

\* A slip: the names of a closed connection stay taken.
CloseKeepingNames(s) == CloseFreeing(s, {})

CloseConnection(s) == CloseFreeing(s, names[s])

\* authenticateServer; its caller has read the names from the statuses.
Authenticate(a, s) ==
  /\ act[a].phase = "new" /\ s \in known
  /\ IF conn[s] = None
       THEN Does(a, "auth", s, "connecting", names[s]) /\ UNCHANGED <<taken, conn, dirty>>
       ELSE Does(a, "auth", s, "closing", names[s]) /\ CloseConnection(s)
  /\ Enters({s})
  /\ UNCHANGED <<server, open, held, known, statuses, names, registry, sync>>

\* What disableServer and removeServer do once the connection is closed.
Mutated(s, kind, gone) ==
  /\ known' = IF kind = "remove" THEN known \ {s} ELSE known
  /\ statuses' = [statuses EXCEPT ![s] = IF kind = "remove" THEN "absent" ELSE "disabled"]
  /\ names' = [names EXCEPT ![s] = {}]
  /\ registry' = Without(registry, gone)

\* disableServer and removeServer, after the write of the config file.
Mutate(a, s, kind) ==
  /\ act[a].phase = "new" /\ (s \in known \/ statuses[s] # "absent")
  /\ CloseConnection(s)
  /\ IF conn[s] = None
       THEN Ended(a, None) /\ Mutated(s, kind, names[s])
       ELSE /\ Does(a, kind, s, "closing", names[s])
            /\ UNCHANGED <<known, statuses, names, registry>>
  /\ Enters({s})
  /\ UNCHANGED <<server, open, held, sync>>

\* The transport is closed: what it was asked for is rejected.
ClosedFor(a) == {c \in open : ServerOf(c) = act[a].server /\ c # conn[act[a].server]}

Closed(a) ==
  /\ act[a].phase = "closing"
  /\ open' = open \ ClosedFor(a)
  /\ IF act[a].kind = "auth"
       THEN /\ act' = [act EXCEPT ![a].phase = "connecting"]
            /\ UNCHANGED <<known, statuses, names, registry>>
       ELSE /\ Ended(a, None)
            /\ Mutated(act[a].server, act[a].kind, act[a].before)
  /\ UNCHANGED <<server, conn, held, taken, dirty, sync, crossed>>

\* applyConnectResult, withRegisteredNames, then the registrar.
ConnectedThen(a, gone) ==
  LET s == act[a].server
      T == IsListed(offered[s])
  IN /\ act[a].phase = "connecting"
     /\ Ended(a, s)
     /\ statuses' = [statuses EXCEPT ![s] = "connected"]
     /\ conn' = [conn EXCEPT ![s] = a]
     /\ open' = open \cup {a}
     /\ held' = Kept(held, a, s, T, offered[s], taken)
     /\ names' = [names EXCEPT ![s] = NamesOf(s, T, taken)]
     /\ taken' = taken \cup NamesOf(s, T, taken)
     /\ Registers(Without(registry, gone), Defs(s, a, T, offered[s], taken))
     /\ UNCHANGED <<server, known, dirty, sync, crossed>>

Connected(a) == ConnectedThen(a, act[a].before)

\* The server cannot be reached, or wants a sign-in.
ConnectFails(a) ==
  LET s == act[a].server IN
  /\ act[a].phase = "connecting"
  /\ Ended(a, None)
  /\ statuses' = [statuses EXCEPT ![s] = "error"]
  /\ names' = [names EXCEPT ![s] = {}]
  /\ registry' = Without(registry, act[a].before)
  /\ UNCHANGED <<server, conn, open, held, known, taken, dirty, sync, crossed>>

----------------------------------------------------------------------------
(* refreshTools and syncMcpToolUpdates, at the start of a turn.            *)
StartSync(r) ==
  /\ sync[r].phase = "idle" /\ dirty # {}
  /\ sync' = [sync EXCEPT ![r] = [IdleSync EXCEPT !.all = dirty, !.left = dirty,
                                                  !.phase = "running"]]
  /\ dirty' = {}
  /\ Enters(dirty)
  /\ UNCHANGED <<server, books, registry, act>>

\* The next server's connection, if it has one.
NextServer(r) ==
  /\ sync[r].at = None
  /\ \E s \in sync[r].left :
       sync' = [sync EXCEPT ![r].left = @ \ {s}, ![r].at = conn[s]]
  /\ UNCHANGED <<server, books, dirty, registry, act, crossed>>

\* Its list is compared with the tools of the connection it was asked on, the
\* new definitions go to the connection that the server has now.
Lists(r) ==
  LET c == sync[r].at
      s == ServerOf(c)
      list == offered[s]
      lost == {t \in Tools : held[c][t].v # 0 /\ held[c][t].v # list[t]}
      changed == {t \in Tools : list[t] # 0 /\ held[c][t].v # list[t]}
      gone == {held[c][t].name : t \in lost}
      seen == taken \ gone
      dropped == [held EXCEPT ![c] = [t \in Tools |->
                    IF t \in lost THEN NoTool ELSE held[c][t]]]
      new == NamesOf(s, changed, seen)
  IN /\ c \in open
     /\ held' = Kept(dropped, conn[s], s, changed, list, seen)
     /\ taken' = seen \cup new
     /\ names' = [names EXCEPT ![s] = (@ \ gone) \cup
                    IF statuses[s] = "connected" THEN new ELSE {}]
     /\ sync' = [sync EXCEPT ![r].at = None, ![r].removed = @ \cup gone,
                   ![r].tools = @ \cup Defs(s, c, changed, list, seen)]
     /\ UNCHANGED <<server, conn, open, known, statuses, dirty, registry, act, crossed>>

ListFailsThen(r, again) ==
  /\ sync[r].at # None
  /\ dirty' = dirty \cup again
  /\ sync' = [sync EXCEPT ![r].at = None]
  /\ UNCHANGED <<server, books, registry, act, crossed>>

\* A slip: the failure is reported and the server taken for up to date.
ListFailsForGood(r) == ListFailsThen(r, {})

ListFails(r) == ListFailsThen(r, {ServerOf(sync[r].at)})

\* Prompts and resources are in as well: applyRefresh.
AppliesTo(r, reg) ==
  /\ sync[r].phase = "running" /\ sync[r].left = {} /\ sync[r].at = None
  /\ Registers(reg, sync[r].tools)
  /\ sync' = [sync EXCEPT ![r] = IdleSync]
  /\ UNCHANGED <<server, books, dirty, act, crossed>>

\* A slip: the changed tools are registered over the ones they replace.
AppliesUnremoved(r) == AppliesTo(r, registry)

Applies(r) == AppliesTo(r, Without(registry, sync[r].removed))

----------------------------------------------------------------------------
McpNext ==
  \/ \E s \in Servers, t \in Tools : Change(s, t)
  \/ \E a \in Actions, s \in Servers :
       \/ Add(a, s) \/ AddDisabled(a, s) \/ Authenticate(a, s)
       \/ Mutate(a, s, "disable") \/ Mutate(a, s, "remove")
  \/ \E a \in Actions : Closed(a) \/ Connected(a) \/ ConnectFails(a)
  \/ \E r \in Syncs :
       StartSync(r) \/ NextServer(r) \/ Lists(r) \/ ListFails(r) \/ Applies(r)

McpSpec == McpInit /\ [][McpNext]_mcpVars
----------------------------------------------------------------------------
(* Properties.                                                             *)

(* Every variable keeps its type. *)
McpTypeOK ==
  /\ offered \in [Servers -> [Tools -> Versions]] /\ changes \in 0..MaxChanges
  /\ conn \in [Servers -> Conns \cup {None}]
  /\ open \subseteq Conns
  /\ held \in [Conns -> [Tools -> [v : Versions, name : FunctionNames \cup {None}]]]
  /\ known \subseteq Servers /\ dirty \subseteq Servers
  /\ statuses \in [Servers -> {"absent", "disabled", "error", "connected"}]
  /\ names \in [Servers -> SUBSET FunctionNames]
  /\ taken \subseteq FunctionNames

\* What the model can call of a server, and what it should.
Callable(s) == {n \in FunctionNames : registry[n] # None /\ ServerOf(registry[n].conn) = s}
Calls(s) == {[tool |-> registry[n].tool, conn |-> registry[n].conn, v |-> registry[n].v]
               : n \in Callable(s)}
Should(s) == IF conn[s] = None THEN {}
             ELSE {[tool |-> t, conn |-> conn[s], v |-> offered[s][t]]
                     : t \in IsListed(offered[s])}

Quiet(s) == Related({s}) \cap Busy = {}

(* The registry follows the servers: once nothing is under way at a server *)
(* or a namesake, the model can call the tools that it lists, each once,   *)
(* in their current version and over its current connection, and those of  *)
(* no other; a list that has changed since is still marked.  Activities at  *)
(* unrelated servers may be anywhere; two that met at one are excluded.    *)
RegistryFollows ==
  \A s \in Servers : ~crossed /\ Quiet(s) =>
    /\ \A m, n \in Callable(s) : registry[m].tool = registry[n].tool => m = n
    /\ \A d \in Calls(s) : d.conn = conn[s]
    /\ s \notin dirty => Calls(s) = Should(s)
    /\ (conn[s] # None) <=> (statuses[s] = "connected")

(* No function name is lost or given twice: what is taken is what the      *)
(* registry has, and each server's status tells its own.                   *)
NamesInUse ==
  ~crossed /\ Busy = {} =>
    /\ taken = {n \in FunctionNames : registry[n] # None}
    /\ \A s \in Servers : names[s] = Callable(s)

(* "re-authenticates connected MCP servers without duplicate tool names"   *)
(* (tests/MCP.test.ts): when all is done, each tool has one name.          *)
NoDuplicateTools ==
  \A s \in Servers :
    Busy = {} => \A m, n \in Callable(s) :
                   registry[m].tool = registry[n].tool => m = n

(* A server that the user has disabled or removed has no tools; like the   *)
(* one before, this is lost when a refresh meets the action.               *)
DisabledHasNoTools ==
  \A s \in Servers :
    Busy = {} /\ statuses[s] \in {"absent", "disabled"} => Callable(s) = {}
=============================================================================
