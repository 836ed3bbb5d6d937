---------------------------- MODULE Registration ----------------------------
(***************************************************************************)
(* How providers get into the registry: RpcServer::Run                     *)
(* (src/src/rpc/server.cc) with ZookeeperClient::Start and Create          *)
(* (src/src/registry/zookeeper_client.cc), for server processes that are   *)
(* started, killed and started again, lose their connection to ZooKeeper   *)
(* and have their sessions expire.                                         *)
(*                                                                         *)
(* A znode is its path: <<service>>, <<service, method>> or                *)
(* <<service, method, address>>; its value in znodes is its owner, a       *)
(* process for an ephemeral node.  ZooKeeper itself is external.           *)
(***************************************************************************)
EXTENDS Config, FiniteSets

CONSTANTS Procs,       \* server processes, a restarted server being a new one
          ArgvOf,      \* the command lines each may be started with
          Provided,    \* the services they publish: sequence of [name, methods]
          Numbers,     \* the words that are decimal numbers
          MayLoseLink, \* whether live connections to ZooKeeper break
          Persistent   \* owner of the nodes that stay

ASSUME PersistentAssumption == Persistent \notin Procs
ASSUME ProvidedAssumption ==
  Len(Provided) \in Nat /\ \A i \in 1 .. Len(Provided) : IsFiniteSet(Provided[i].methods)

VARIABLES pc,           \* where in main / Run the process is
          argv,         \* its command line
          config,       \* config_map
          serviceMap,   \* service_map: function from name to methods
          todo,         \* paths Run has still to create
          isConnected,  \* ZookeeperClient::is_connected
          session,      \* ZooKeeper's view: "none", "open", "expired"
          linked,       \* the client's connection to the ensemble is up
          told,         \* session events ZooKeeper has still to deliver
          znodes,       \* the registry
          skipped       \* paths Create returned from without creating (history)

mainVars == <<argv, config, serviceMap>>
runVars  == <<todo, isConnected, skipped, linked, told>>
zkVars   == <<session, znodes>>
vars     == <<pc, mainVars, runVars, zkVars>>

Dead == {"off", "exited"}

Init ==
  /\ pc          = [p \in Procs |-> "off"]
  /\ argv        = [p \in Procs |-> << >>]
  /\ config      = [p \in Procs |-> NoEntry]
  /\ serviceMap  = [p \in Procs |-> << >>]
  /\ todo        = [p \in Procs |-> << >>]
  /\ isConnected = [p \in Procs |-> FALSE]
  /\ skipped     = [p \in Procs |-> {}]
  /\ session     = [p \in Procs |-> "none"]
  /\ linked      = [p \in Procs |-> FALSE]
  /\ told        = [p \in Procs |-> {}]
  /\ znodes      = [n \in {} |-> Persistent]

-----------------------------------------------------------------------------
(***************************************************************************)
(* main: Application::Init and NotifyService.  A second service of the     *)
(* same name is not put into service_map.                                  *)
(***************************************************************************)
NotifyService(map, service) ==
  [s \in DOMAIN map \cup {service.name} |-> IF s \in DOMAIN map THEN map[s] ELSE service.methods]

ServiceMap ==
  LET map[i \in 0 .. Len(Provided)] ==
        IF i = 0 THEN NoEntry ELSE NotifyService(map[i - 1], Provided[i])
  IN  map[Len(Provided)]

Launch(p) ==
  /\ pc[p] = "off"
  /\ \E a \in ArgvOf[p] :
       /\ argv' = [argv EXCEPT ![p] = a]
       /\ IF InitExits(a)
          THEN pc' = [pc EXCEPT ![p] = "exited"] /\ UNCHANGED <<config, serviceMap>>
          ELSE /\ pc' = [pc EXCEPT ![p] = "bind"]
               /\ config' = [config EXCEPT ![p] = ApplicationInit(a)]
               /\ serviceMap' = [serviceMap EXCEPT ![p] = ServiceMap]
  /\ UNCHANGED <<runVars, zkVars>>

(***************************************************************************)
(* The address a process serves at; atoi reads the leading number, or 0.   *)
(***************************************************************************)
Atoi(text) == IF text # << >> /\ Head(text) \in Numbers THEN Head(text) ELSE "0"

Address(p) == <<Load(config[p], <<"rpcserverip">>), Atoi(Load(config[p], <<"rpcserverport">>))>>

(***************************************************************************)
(* exit() and abort() run no destructor of Run: what the process knew is   *)
(* gone, the connection breaks and the session is left to expire.          *)
(***************************************************************************)
Exit(p) ==
  /\ pc' = [pc EXCEPT ![p] = "exited"]
  /\ linked' = [linked EXCEPT ![p] = FALSE]
  /\ isConnected' = [isConnected EXCEPT ![p] = FALSE]
  /\ todo' = [todo EXCEPT ![p] = << >>]
  /\ skipped' = [skipped EXCEPT ![p] = {}]
  /\ told' = [told EXCEPT ![p] = {}]

(***************************************************************************)
(* TcpServer binds with SO_REUSEADDR: binding, and later listening, fails  *)
(* if somebody listens at the address.                                     *)
(***************************************************************************)
InUse(p) == \E q \in Procs \ {p} :
              pc[q] = "serving" /\ Address(q) = Address(p) /\ Address(p)[2] # "0"

Bind(p) ==
  /\ pc[p] = "bind"
  /\ IF InUse(p) THEN Exit(p)
     ELSE pc' = [pc EXCEPT ![p] = "start"] /\ UNCHANGED runVars
  /\ UNCHANGED <<mainVars, zkVars>>

(***************************************************************************)
(* ZookeeperClient::Start: zookeeper_init, then cv.wait with a predicate.  *)
(* The test of is_connected and going to sleep are one step, under         *)
(* cv_mutex.                                                               *)
(***************************************************************************)
Start(p) ==
  /\ pc[p] = "start"
  /\ pc' = [pc EXCEPT ![p] = "check"]
  /\ session' = [session EXCEPT ![p] = "open"]
  /\ UNCHANGED <<mainVars, runVars, znodes>>

(***************************************************************************)
(* The nodes Run creates, in every order in which it may walk the two      *)
(* unordered maps.                                                         *)
(***************************************************************************)
\* Wrong: the parent is created and the address is not put under it; and: the
\* port is left out of the address.
MethodNodesNoRoute(s, m, address) == <<<<s, m>>>>
MethodNodesNoPort(s, m, address) == <<<<s, m>>, <<s, m, <<address[1], "0">>>>>>

MethodNodes(s, m, address) == <<<<s, m>>, <<s, m, address>>>>

ServiceNodes(s, ms, address) ==
  <<<<s>>>> \o FlattenSeq([i \in 1 .. Len(ms) |-> MethodNodes(s, ms[i], address)])

PlanOf(ss, order, address) ==
  FlattenSeq([i \in 1 .. Len(ss) |-> ServiceNodes(ss[i], order[ss[i]], address)])

Orders(map) == {o \in [DOMAIN map -> UNION {SetToSeqs(map[s]) : s \in DOMAIN map}] :
                  \A s \in DOMAIN map : o[s] \in SetToSeqs(map[s])}

Plans(map, address) ==
  {PlanOf(ss, order, address) : ss \in SetToSeqs(DOMAIN map), order \in Orders(map)}

Wait(p) ==
  /\ pc[p] = "check"
  /\ IF isConnected[p]
     THEN \E plan \in Plans(serviceMap[p], Address(p)) :
            /\ todo' = [todo EXCEPT ![p] = plan]
            /\ pc' = [pc EXCEPT ![p] = IF plan = << >> THEN "listen" ELSE "exists"]
     ELSE pc' = [pc EXCEPT ![p] = "sleep"] /\ UNCHANGED todo
  /\ UNCHANGED <<mainVars, isConnected, skipped, linked, told, zkVars>>

(***************************************************************************)
(* Create: zoo_exists, and zoo_create only if that said ZNONODE.  Any      *)
(* other answer, a lost connection included, is taken for an existing      *)
(* node; a zoo_create that fails ends the process.                         *)
(***************************************************************************)
\* Wrong: the loop runs once more than there are nodes.
DoneLate(p) == pc' = [pc EXCEPT ![p] = IF Len(todo[p]) = 0 THEN "listen" ELSE "exists"]

Done(p) == pc' = [pc EXCEPT ![p] = IF Len(todo[p]) = 1 THEN "listen" ELSE "exists"]

Connected(p) == linked[p] /\ session[p] = "open"

Exists(p) ==
  /\ pc[p] = "exists"
  /\ LET path == Head(todo[p])
     IN  IF Connected(p) /\ path \notin DOMAIN znodes
         THEN pc' = [pc EXCEPT ![p] = "create"] /\ UNCHANGED <<todo, skipped>>
         ELSE /\ Done(p)
              /\ todo' = [todo EXCEPT ![p] = Tail(@)]
              /\ skipped' = [skipped EXCEPT ![p] = @ \cup {path}]
  /\ UNCHANGED <<mainVars, isConnected, linked, told, zkVars>>

(***************************************************************************)
(* Routes are ephemeral, their parents are not.                            *)
(***************************************************************************)
\* Wrong: Create without ZOO_EPHEMERAL; and: everything is ephemeral.
OwnerPersistent(p, path) == Persistent
OwnerEphemeral(p, path) == p

Owner(p, path) == IF Len(path) = 3 THEN p ELSE Persistent

Creatable(p) ==
  LET path == Head(todo[p])
  IN  /\ Connected(p) /\ path \notin DOMAIN znodes
      /\ Len(path) > 1 => Front(path) \in DOMAIN znodes

AddNode(p) ==
  LET path == Head(todo[p])
  IN  znodes' = [n \in DOMAIN znodes \cup {path} |-> IF n = path THEN Owner(p, path) ELSE znodes[n]]

Create(p) ==
  /\ pc[p] = "create"
  /\ IF Creatable(p)
     THEN /\ Done(p) /\ AddNode(p) /\ todo' = [todo EXCEPT ![p] = Tail(@)]
          /\ UNCHANGED <<isConnected, skipped, linked, told>>
     ELSE Exit(p) /\ UNCHANGED znodes
  /\ UNCHANGED <<mainVars, session>>

(***************************************************************************)
(* The node is created but the answer is lost with the connection: Create  *)
(* sees a failure.                                                         *)
(***************************************************************************)
CreateUnheard(p) ==
  /\ pc[p] = "create" /\ Creatable(p)
  /\ AddNode(p) /\ Exit(p)
  /\ UNCHANGED <<mainVars, session>>

(***************************************************************************)
(* server->start(); event_loop.loop()                                      *)
(***************************************************************************)
Listen(p) ==
  /\ pc[p] = "listen"
  /\ IF InUse(p) THEN Exit(p)
     ELSE pc' = [pc EXCEPT ![p] = "serving"] /\ UNCHANGED runVars
  /\ UNCHANGED <<mainVars, zkVars>>

(***************************************************************************)
(* The process is killed.                                                  *)
(***************************************************************************)
Killed(p) == pc[p] \notin Dead /\ Exit(p) /\ UNCHANGED <<mainVars, zkVars>>

-----------------------------------------------------------------------------
(***************************************************************************)
(* ZooKeeper: the client library connects and reconnects; a reconnection   *)
(* learns whether the session is still there.                              *)
(***************************************************************************)
Link(p) ==
  /\ pc[p] \notin Dead /\ session[p] # "none" /\ ~linked[p]
  /\ linked' = [linked EXCEPT ![p] = TRUE]
  /\ told' = [told EXCEPT ![p] = @ \cup {IF session[p] = "open" THEN "connected" ELSE "expired"}]
  /\ UNCHANGED <<pc, mainVars, todo, isConnected, skipped, zkVars>>

LoseLink(p) ==
  /\ MayLoseLink /\ pc[p] \notin Dead /\ linked[p]
  /\ session[p] = "open"
  /\ linked' = [linked EXCEPT ![p] = FALSE]
  /\ UNCHANGED <<pc, mainVars, todo, isConnected, skipped, told, zkVars>>

(***************************************************************************)
(* global_watcher on a session event: under cv_mutex, set the flag and     *)
(* wake whoever waits; an expired session ends the process (LOG(FATAL)).   *)
(***************************************************************************)
\* Wrong: the flag is set and nobody notified; and: an expired session is only
\* logged.
SessionEventNoNotify(p) ==
  /\ \/ /\ "connected" \in told[p]
        /\ told' = [told EXCEPT ![p] = @ \ {"connected"}]
        /\ isConnected' = [isConnected EXCEPT ![p] = TRUE]
        /\ UNCHANGED <<pc, todo, skipped, linked>>
     \/ told[p] = {"expired"} /\ Exit(p)
  /\ UNCHANGED <<mainVars, zkVars>>

SessionEventLogs(p) ==
  /\ "connected" \in told[p]
  /\ told' = [told EXCEPT ![p] = @ \ {"connected"}]
  /\ isConnected' = [isConnected EXCEPT ![p] = TRUE]
  /\ pc' = [pc EXCEPT ![p] = IF @ = "sleep" THEN "check" ELSE @]
  /\ UNCHANGED <<mainVars, todo, skipped, linked, zkVars>>

SessionEvent(p) ==
  /\ \/ /\ "connected" \in told[p]
        /\ told' = [told EXCEPT ![p] = @ \ {"connected"}]
        /\ isConnected' = [isConnected EXCEPT ![p] = TRUE]
        /\ pc' = [pc EXCEPT ![p] = IF @ = "sleep" THEN "check" ELSE @]
        /\ UNCHANGED <<todo, skipped, linked>>
     \/ told[p] = {"expired"} /\ Exit(p)
  /\ UNCHANGED <<mainVars, zkVars>>

(***************************************************************************)
(* The ensemble has not heard from the client for the session timeout: the *)
(* session ends and its ephemeral nodes go.                                *)
(***************************************************************************)
Expire(p) ==
  /\ session[p] = "open" /\ ~linked[p]
  /\ session' = [session EXCEPT ![p] = "expired"]
  /\ znodes' = [n \in {n \in DOMAIN znodes : znodes[n] # p} |-> znodes[n]]
  /\ UNCHANGED <<pc, mainVars, runVars>>

-----------------------------------------------------------------------------
Run(p) == Bind(p) \/ Start(p) \/ Wait(p) \/ Exists(p) \/ Create(p) \/ Listen(p)

Next == \E p \in Procs : \/ Launch(p) \/ Run(p) \/ CreateUnheard(p) \/ Killed(p) \/ Link(p) \/ LoseLink(p)
                         \/ SessionEvent(p) \/ Expire(p)

Spec == Init /\ [][Next]_vars

(***************************************************************************)
(* Processes and the client library's threads are scheduled; the ensemble  *)
(* is reachable again and again, and expires the session of a dead client. *)
(* Nobody needs to start a process, and no connection needs to be lost.    *)
(***************************************************************************)
FairSpec ==
  /\ Spec
  /\ \A p \in Procs : WF_vars(Run(p)) /\ WF_vars(Link(p)) /\ WF_vars(SessionEvent(p))
  /\ \A p \in Procs : WF_vars(Expire(p) /\ pc[p] \in Dead)

-----------------------------------------------------------------------------
Routes(p) == UNION {{<<s, m, Address(p)>> : m \in serviceMap[p][s]} : s \in DOMAIN serviceMap[p]}

(***************************************************************************)
(* Every variable has its type; the loop over the nodes to create is left  *)
(* when and only when none is left.                                        *)
(***************************************************************************)
RegTypeOK ==
  /\ \A p \in Procs :
       /\ pc[p] \in Dead \cup {"bind", "start", "check", "sleep", "exists", "create", "listen", "serving"}
       /\ pc[p] \in {"exists", "create"} => todo[p] # << >>
       /\ pc[p] \in {"listen", "serving"} => todo[p] = << >>
       /\ isConnected[p] \in BOOLEAN /\ linked[p] \in BOOLEAN
       /\ session[p] \in {"none", "open", "expired"}
       /\ told[p] \subseteq {"connected", "expired"}
       /\ \A n \in skipped[p] : Len(n) \in 1 .. 3
  /\ \A n \in DOMAIN znodes : Len(n) \in 1 .. 3 /\ znodes[n] \in Procs \cup {Persistent}

(***************************************************************************)
(* ParentsFirst: whatever order processes create, skip, die and expire in, *)
(* the parents of every node are there and are nobody's: no expiry of one  *)
(* server takes away the path of another.                                  *)
(***************************************************************************)
ParentsFirst ==
  \A n \in DOMAIN znodes :
    Len(n) > 1 => Front(n) \in DOMAIN znodes /\ znodes[Front(n)] = Persistent

(***************************************************************************)
(* RouteOwned: an ephemeral route belongs to a live session, and leads to  *)
(* the address its process was configured with.                            *)
(***************************************************************************)
RouteOwned ==
  \A p \in Procs : \A n \in DOMAIN znodes :
    Len(n) = 3 /\ znodes[n] = p => session[p] = "open" /\ n \in Routes(p)

(***************************************************************************)
(* ServingIsRegistered: a process that serves with a live session is in    *)
(* the registry under every method it provides, except where Create found  *)
(* a node of somebody else or got no answer.                               *)
(***************************************************************************)
ServingIsRegistered ==
  \A p \in Procs : pc[p] = "serving" /\ session[p] = "open" =>
    \A n \in Routes(p) : \/ n \in DOMAIN znodes
                         \/ \E k \in skipped[p] : Len(k) = 3 /\ Front(k) = Front(n)

(***************************************************************************)
(* A line assigns a key when the key and "=" are the first words on it.    *)
(***************************************************************************)
Assigns(line, key) ==
  \E e \in 1 .. Len(line) :
    /\ line[e] = Equals
    /\ \E i \in 1 .. e - 1 : line[i] = key /\ \A k \in 1 .. e - 1 : k # i => line[k] = Space

(***************************************************************************)
(* What it assigns is the text from its first "=" to the end of the line,  *)
(* without the spaces around it.                                           *)
(***************************************************************************)
Stripped(value, text) ==
  \E a \in 1 .. Len(text) + 1 : \E b \in a - 1 .. Len(text) :
    /\ value = SubSeq(text, a, b)
    /\ \A k \in 1 .. Len(text) : k < a \/ k > b => text[k] = Space
    /\ (\E k \in a .. b : text[k] # Space) => text[a] # Space /\ text[b] # Space

Assigned(value, line) ==
  \E e \in 1 .. Len(line) : \E n \in e + 1 .. Len(line) + 1 :
    /\ line[e] = Equals /\ \A k \in 1 .. e - 1 : line[k] # Equals
    /\ n <= Len(line) => line[n] = Newline
    /\ \A k \in e + 1 .. n - 1 : line[k] # Newline
    /\ Stripped(value, SubSeq(line, e + 1, n - 1))

Given(args, key) ==
  IF key = "rpcserverip" THEN Option(args, "a")
  ELSE IF key = "rpcserverport" THEN Option(args, "p") ELSE << >>

(***************************************************************************)
(* ConfigMeansFile: once main has loaded its configuration, what the rest  *)
(* of the program reads for a key is the command line's value if it gives  *)
(* one, or else that of the first line of the file that assigns the key,   *)
(* however spaces, comments, blank lines, lines without "=" and a missing  *)
(* newline at the end are strewn about.                                    *)
(***************************************************************************)
Means(value, lines, key) ==
  LET at == {i \in 1 .. Len(lines) : Assigns(lines[i], key)}
  IN  IF at = {} THEN value = << >>
      ELSE \E i \in at : (\A j \in at : i <= j) /\ Assigned(value, lines[i])

ConfigMeansFile ==
  \A p \in Procs : pc[p] \notin Dead =>
    \A key \in {"rpcserverip", "rpcserverport", "zookeeperip", "zookeeperport"} :
      LET value == Load(config[p], <<key>>)
      IN  IF Given(argv[p], key) # << >> THEN value = Given(argv[p], key)
          ELSE Means(value, Files[Option(argv[p], "i")], key)

(***************************************************************************)
(* StartEnds: a server that is started comes to serve or ends; the wake-up *)
(* of the watcher thread is never lost between the test of is_connected    *)
(* and the wait.  It holds because the ensemble can be reached in the end: *)
(* Start has no timeout.                                                   *)
(***************************************************************************)
StartEnds == \A p \in Procs : (pc[p] = "bind") ~> (pc[p] \in {"serving", "exited"})

(***************************************************************************)
(* ExpiredEnds: a process whose session has expired, and whose routes are  *)
(* gone with it, does not serve on: it learns of it and ends.              *)
(***************************************************************************)
ExpiredEnds == \A p \in Procs : (session[p] = "expired") ~> (pc[p] = "exited")

(***************************************************************************)
(* DeadRoutesExpire: the address of a process that ended, by whatever way, *)
(* disappears from the registry unless somebody runs there again.          *)
(***************************************************************************)
DeadRoutesExpire ==
  \A p \in Procs :
    (pc[p] = "exited") ~>
      \/ \A n \in DOMAIN znodes : Len(n) = 3 => n[3] # Address(p)
      \/ \E q \in Procs : pc[q] \notin Dead /\ Address(q) = Address(p)

(***************************************************************************)
(* NodeRegistered: a node that serves with a live session can be found     *)
(* under every method it provides, as the comments of RpcServer::Run have  *)
(* it.  It does not hold.                                                  *)
(***************************************************************************)
NodeRegistered ==
  \A p \in Procs : pc[p] = "serving" /\ session[p] = "open" => Routes(p) \subseteq DOMAIN znodes
=============================================================================
