----------------------------- MODULE Discovery ------------------------------
(***************************************************************************)
(* Service discovery on the client side: the ZooKeeper branch of           *)
(* RpcChannel::CallMethod with QueryServiceHost (src/src/rpc/channel.cc),  *)
(* the session wrapper and its watcher (src/src/registry/                  *)
(* zookeeper_client.cc) and RouteManager, which every channel shares.      *)
(*                                                                         *)
(* A caller opens a session of its own (zkCli is a local variable), looks  *)
(* up its method under g_data_mutx, and closes the session when the block  *)
(* ends.  The session's watcher thread runs until zookeeper_close has      *)
(* joined it.  ZooKeeper itself is outside the repository.                 *)
(***************************************************************************)
EXTENDS RouteManager, Naturals

CONSTANTS Callers,      \* threads calling CallMethod on a channel without a socket
          WatcherOf,    \* the watcher thread of each caller's session
          MaxQueries,   \* bound: lookups per caller
          MaxChanges,   \* bound: changes of the registry
          Faults        \* "zk": a ZooKeeper call may fail

(***************************************************************************)
(* Every session has a watcher thread of its own; an address is not empty. *)
(***************************************************************************)
ASSUME ThreadsAssumption ==
  /\ Callers \subseteq Threads
  /\ WatcherOf \in [Callers -> Threads \ Callers]
  /\ \A c, d \in Callers : WatcherOf[c] = WatcherOf[d] => c = d
ASSUME NodesAssumption == "" \notin Nodes

VARIABLES children,   \* the registry: live providers of each path
          changes,    \* number of changes so far
          published,  \* every list a path ever had in the registry (history)
          session,    \* per caller: its ZooKeeper session
          watches,    \* per caller: paths its session watches (one-shot)
          events,     \* per caller: child events its watcher has not handled
          dataMutex,  \* the holder of g_data_mutx
          pc,         \* per caller: where in the lookup it is
          routeNodes, \* per caller: its own copy of the providers' list
          host,       \* per caller: the provider chosen, "" when there is none
          asked,      \* per caller: it asked ZooKeeper during this lookup
          queries     \* per caller: lookups made

discoveryVars == <<children, changes, published, session, watches, events, dataMutex, pc,
                   routeNodes, host, asked, queries>>
vars == <<routeVars, discoveryVars>>

Init ==
  /\ RouteInit
  /\ children  = NoRoutes
  /\ changes   = 0
  /\ published = [p \in Paths |-> {{}}]
  /\ session   = [c \in Callers |-> "none"]
  /\ watches   = [c \in Callers |-> {}]
  /\ events    = [c \in Callers |-> {}]
  /\ dataMutex = NoThread
  /\ pc        = [c \in Callers |-> "idle"]
  /\ routeNodes = [c \in Callers |-> {}]
  /\ host      = [c \in Callers |-> ""]
  /\ asked     = [c \in Callers |-> FALSE]
  /\ queries   = [c \in Callers |-> 0]

-----------------------------------------------------------------------------
(***************************************************************************)
(* A provider registers or its ephemeral node goes away: every session     *)
(* that watches the path is sent one event.                                *)
(***************************************************************************)
RegistryChange(p) ==
  /\ changes < MaxChanges
  /\ \E n \in Nodes :
       children' = [children EXCEPT ![p] = IF n \in @ THEN @ \ {n} ELSE @ \cup {n}]
  /\ changes'   = changes + 1
  /\ published' = [published EXCEPT ![p] = @ \cup {children'[p]}]
  /\ events'    = [c \in Callers |-> IF p \in watches[c] THEN events[c] \cup {p} ELSE events[c]]
  /\ watches'   = [c \in Callers |-> watches[c] \ {p}]
  /\ UNCHANGED <<routeVars, session, dataMutex, pc, routeNodes, host, asked, queries>>

(***************************************************************************)
(* GetChildren(path, watch = true) by thread t on the session of caller c: *)
(* the list and the watch come from one ZooKeeper operation; for a path    *)
(* that no provider has created yet, on an error, and on a session that is *)
(* being closed, the list is empty and nothing is watched.                 *)
(***************************************************************************)
\* Wrong: lists the providers of the whole service.
GetChildrenOfService(t, c) ==
  /\ session[c] # "none"
  /\ Fetched(t, UNION {children[p] : p \in Paths})
  /\ watches' = [watches EXCEPT ![c] = @ \cup {path[t]}]

GetChildren(t, c) ==
  \/ /\ session[c] = "open"
     /\ Fetched(t, children[path[t]])
     /\ watches' = [watches EXCEPT ![c] = @ \cup {path[t]}]
  \/ /\ session[c] = "closing" \/ "zk" \in Faults \/ published[path[t]] = {{}}
     /\ Fetched(t, {})
     /\ UNCHANGED watches

-----------------------------------------------------------------------------
(***************************************************************************)
(* ZookeeperClient zkCli; zkCli.Start(), which returns once the session    *)
(* is connected.                                                           *)
(***************************************************************************)
Start(c) ==
  /\ pc[c] = "idle" /\ queries[c] < MaxQueries
  /\ session' = [session EXCEPT ![c] = "open"]
  /\ pc'      = [pc EXCEPT ![c] = "lock"]
  /\ asked'   = [asked EXCEPT ![c] = FALSE]
  /\ queries' = [queries EXCEPT ![c] = @ + 1]
  /\ UNCHANGED <<routeVars, children, changes, published, watches, events, dataMutex,
                 routeNodes, host>>

(***************************************************************************)
(* QueryServiceHost for path p: take g_data_mutx, read the cache, and      *)
(* update it when it has nothing.                                          *)
(***************************************************************************)
\* Wrong: whatever the cache says is believed.
LookUpCacheOnly(c, p) ==
  /\ pc[c] = "lock" /\ dataMutex = NoThread
  /\ dataMutex' = c
  /\ routeNodes' = [routeNodes EXCEPT ![c] = GetRouteNodes(p)]
  /\ pc' = [pc EXCEPT ![c] = "select"]
  /\ UNCHANGED <<routeVars, children, changes, published, session, watches, events, host,
                 asked, queries>>

LookUp(c, p) ==
  /\ pc[c] = "lock" /\ dataMutex = NoThread
  /\ dataMutex' = c
  /\ routeNodes' = [routeNodes EXCEPT ![c] = GetRouteNodes(p)]
  /\ IF routeNodes'[c] = {}
     THEN /\ UpdateRouteTable(c, p)
          /\ pc'    = [pc EXCEPT ![c] = "update"]
          /\ asked' = [asked EXCEPT ![c] = TRUE]
     ELSE /\ pc' = [pc EXCEPT ![c] = "select"]
          /\ UNCHANGED <<routeVars, asked>>
  /\ UNCHANGED <<children, changes, published, session, watches, events, host, queries>>

(***************************************************************************)
(* The caller's own UpdateRouteTable, after which the cache is read again. *)
(***************************************************************************)
CallerUpdate(c) ==
  /\ pc[c] = "update"
  /\ \/ GetChildren(c, c) /\ UNCHANGED pc
     \/ Publish(c) /\ UNCHANGED watches
                   /\ pc' = [pc EXCEPT ![c] = IF StoreTable(c) THEN "reread" ELSE @]
  /\ UNCHANGED <<children, changes, published, session, events, dataMutex, routeNodes, host,
                 asked, queries>>

Reread(c) ==
  /\ pc[c] = "reread"
  /\ routeNodes' = [routeNodes EXCEPT ![c] = GetRouteNodes(path[c])]
  /\ pc' = [pc EXCEPT ![c] = "select"]
  /\ UNCHANGED <<routeVars, children, changes, published, session, watches, events, dataMutex,
                 host, asked, queries>>

(***************************************************************************)
(* A fresh balancer picks one of the list the caller holds, whatever       *)
(* became of the cache meanwhile; g_data_mutx is released.                 *)
(***************************************************************************)
\* Wrong: the random index may be the size of the list.
ChoicesPastEnd(nodes) == IF nodes = {} THEN {""} ELSE nodes \cup {"past the end"}

Choices(nodes) == IF nodes = {} THEN {""} ELSE nodes

Select(c) ==
  /\ pc[c] = "select"
  /\ \E n \in Choices(routeNodes[c]) : host' = [host EXCEPT ![c] = n]
  /\ dataMutex' = NoThread
  /\ pc' = [pc EXCEPT ![c] = "connect"]
  /\ UNCHANGED <<routeVars, children, changes, published, session, watches, events, routeNodes,
                 asked, queries>>

(***************************************************************************)
(* newConnect ends the block: ~ZookeeperClient starts zookeeper_close.     *)
(* That the library joins its watcher thread before it returns (Joined) is *)
(* assumed, as the code does; events and watches of the session are gone.  *)
(***************************************************************************)
BeginClose(c) ==
  /\ pc[c] = "connect"
  /\ session' = [session EXCEPT ![c] = "closing"]
  /\ pc' = [pc EXCEPT ![c] = "close"]
  /\ UNCHANGED <<routeVars, children, changes, published, watches, events, dataMutex,
                 routeNodes, host, asked, queries>>

Joined(c) == stage[WatcherOf[c]] = "idle"

EndClose(c) ==
  /\ pc[c] = "close" /\ Joined(c)
  /\ session' = [session EXCEPT ![c] = "none"]
  /\ watches' = [watches EXCEPT ![c] = {}]
  /\ events'  = [events EXCEPT ![c] = {}]
  /\ pc'      = [pc EXCEPT ![c] = "idle"]
  /\ UNCHANGED <<routeVars, children, changes, published, dataMutex, routeNodes, host, asked,
                 queries>>

(***************************************************************************)
(* global_watcher on ZOO_CHILD_EVENT, in the session's watcher thread.     *)
(***************************************************************************)
WatchFired(c) ==
  /\ session[c] # "none" /\ stage[WatcherOf[c]] = "idle"
  /\ \E p \in events[c] :
       /\ UpdateRouteTable(WatcherOf[c], p)
       /\ events' = [events EXCEPT ![c] = @ \ {p}]
  /\ UNCHANGED <<children, changes, published, session, watches, dataMutex, pc, routeNodes, host,
                 asked, queries>>

WatcherUpdate(c) ==
  /\ \/ GetChildren(WatcherOf[c], c)
     \/ Publish(WatcherOf[c]) /\ UNCHANGED watches
  /\ UNCHANGED <<children, changes, published, session, events, dataMutex, pc, routeNodes, host,
                 asked, queries>>

CallerStep(c) == \/ \E p \in Paths : LookUp(c, p)
                 \/ CallerUpdate(c) \/ Reread(c) \/ Select(c) \/ BeginClose(c) \/ EndClose(c)

WatcherStep(c) == WatchFired(c) \/ WatcherUpdate(c)

Next == \/ \E p \in Paths : RegistryChange(p)
        \/ \E c \in Callers : Start(c) \/ CallerStep(c) \/ WatcherStep(c)

Spec == Init /\ [][Next]_vars

(***************************************************************************)
(* Threads that can go on do.  Lookups start when applications call, and   *)
(* the registry need not change.                                           *)
(***************************************************************************)
FairSpec == /\ Spec
            /\ \A c \in Callers : WF_vars(CallerStep(c)) /\ WF_vars(WatcherStep(c))

-----------------------------------------------------------------------------
DiscoveryTypeOK ==
  /\ RouteTypeOK
  /\ children \in [Paths -> SUBSET Nodes]
  /\ session \in [Callers -> {"none", "open", "closing"}]
  /\ watches \in [Callers -> SUBSET Paths]
  /\ events \in [Callers -> SUBSET Paths]
  /\ dataMutex \in Callers \cup {NoThread}
  /\ pc \in [Callers -> {"idle", "lock", "update", "reread", "select", "connect", "close"}]
  /\ routeNodes \in [Callers -> SUBSET Nodes]
  /\ host \in [Callers -> Nodes \cup {""}]

(***************************************************************************)
(* Whatever the order in which callers and watchers publish, the cache     *)
(* holds for each path a list the registry really had, or nothing.         *)
(***************************************************************************)
CacheFromRegistry == \A p \in Paths : table[p] \in published[p]

(***************************************************************************)
(* A lookup that ends without a provider has asked ZooKeeper itself: an    *)
(* empty list left in the cache by an error is never believed.             *)
(***************************************************************************)
EmptyIsNotTrusted ==
  \A c \in Callers : pc[c] = "connect" /\ host[c] = "" => asked[c]

(***************************************************************************)
(* Every lookup ends and gives its session back: neither the two mutexes   *)
(* nor the join of the watcher thread can block it for ever.               *)
(***************************************************************************)
LookupEnds == \A c \in Callers : (pc[c] # "idle") ~> (pc[c] = "idle")

(***************************************************************************)
(* Once providers stop coming and going, the cached list of a path becomes *)
(* the registry's list.                                                    *)
(***************************************************************************)
RoutesRefreshed ==
  \A p \in Paths : <>[](table[p] = {} \/ table[p] = children[p])
=============================================================================
