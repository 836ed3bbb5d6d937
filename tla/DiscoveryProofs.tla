-------------------------- MODULE DiscoveryProofs ---------------------------
(***************************************************************************)
(* RouteManager and Discovery for any number of threads, callers, paths    *)
(* and providers, any bounds and any failures of ZooKeeper.  Callers and   *)
(* watcher threads use RouteManager only as its own specification allows,  *)
(* so what is shown of it alone carries over; the rest of the invariant    *)
(* says where a list comes from and who asked.                             *)
(***************************************************************************)
EXTENDS Discovery, TLAPS

-----------------------------------------------------------------------------
(***************************************************************************)
(* RouteManager alone.  Its inductive invariant is the type, mutual        *)
(* exclusion of the writers and the absence of stale copies: a stale copy  *)
(* is impossible because the only step that changes the table needs the    *)
(* mutex its holder has.                                                   *)
(***************************************************************************)
RouteInv == RouteTypeOK /\ WritersExclude /\ NoStaleCopy

(***************************************************************************)
(* The initial state of RouteManager's singleton satisfies the invariant.  *)
(***************************************************************************)
LEMMA RouteInitInv == RouteInit => RouteInv
  BY NoThreadAssumption, PathsAssumption
     DEF RouteInit, RouteInv, RouteTypeOK, WritersExclude, NoStaleCopy, NoRoutes

(***************************************************************************)
(* Every step of UpdateRouteTable keeps the invariant.                     *)
(***************************************************************************)
LEMMA RouteStepInv == RouteInv /\ [RouteNext]_routeVars => RouteInv'
  <1> SUFFICES ASSUME RouteInv, [RouteNext]_routeVars PROVE RouteInv'
    OBVIOUS
  <1> USE DEF RouteInv, RouteTypeOK, WritersExclude, NoStaleCopy
  <1>1. ASSUME NEW t \in Threads, NEW p \in Paths, UpdateRouteTable(t, p) PROVE RouteInv'
    BY <1>1 DEF UpdateRouteTable
  <1>2. ASSUME NEW t \in Threads, NEW nodes \in SUBSET Nodes, Fetched(t, nodes) PROVE RouteInv'
    BY <1>2 DEF Fetched
  <1>3. ASSUME NEW t \in Threads, LockWrite(t) PROVE RouteInv'
    BY <1>3, NoThreadAssumption DEF LockWrite
  <1>4. ASSUME NEW t \in Threads, LoadTable(t) PROVE RouteInv'
    BY <1>4 DEF LoadTable
  <1>5. ASSUME NEW t \in Threads, StoreTable(t) PROVE RouteInv'
    <2>1. RouteTypeOK'
      BY <1>5 DEF StoreTable
    <2>2. \A s \in Threads : s # t => stage[s] \notin {"load", "store"}
      BY <1>5 DEF StoreTable
    <2>3. \A s \in Threads : stage'[s] \notin {"load", "store"}
      BY <1>5, <2>2 DEF StoreTable
    <2> QED
      BY <2>1, <2>3
  <1>6. CASE UNCHANGED routeVars
    BY <1>6 DEF routeVars
  <1> QED
    BY <1>1, <1>2, <1>3, <1>4, <1>5, <1>6 DEF RouteNext, Publish

(***************************************************************************)
(* Type correctness, mutual exclusion of writers and absence of stale      *)
(* copies, in every reachable state.                                       *)
(***************************************************************************)
THEOREM RouteInvariant == RouteSpec => []RouteInv
  BY RouteInitInv, RouteStepInv, PTL DEF RouteSpec

(***************************************************************************)
(* No writer of UpdateRouteTable ever publishes a copy of an outdated map. *)
(***************************************************************************)
THEOREM NoUpdateLost == RouteSpec => []NoStaleCopy
  BY RouteInvariant, PTL DEF RouteInv

(***************************************************************************)
(* The RCU update implements the atomic route cache: each step replaces    *)
(* the list of one path, or changes nothing.                               *)
(***************************************************************************)
THEOREM RouteRefinement == RouteSpec => ImplementsCache
  <1>1. RouteInit => Cache!Init
    BY DEF RouteInit, NoRoutes, Cache!Init
  <1>2. RouteInv /\ [RouteNext]_routeVars => [Cache!Next]_table
    <2> SUFFICES ASSUME RouteInv, [RouteNext]_routeVars PROVE [Cache!Next]_table
      OBVIOUS
    <2>1. ASSUME NEW t \in Threads, StoreTable(t) PROVE Cache!Next
      <3>1. path[t] \in Paths /\ newNodes[t] \in SUBSET Nodes
        BY DEF RouteInv, RouteTypeOK
      <3>2. Cache!Replace(path[t], newNodes[t])
        BY <2>1 DEF StoreTable, RouteInv, NoStaleCopy, Cache!Replace
      <3> QED
        BY <3>1, <3>2 DEF Cache!Next
    <2>2. CASE UNCHANGED table
      BY <2>2
    <2>3. ASSUME NEW t \in Threads,
                 \/ \E p \in Paths : UpdateRouteTable(t, p)
                 \/ \E nodes \in SUBSET Nodes : Fetched(t, nodes)
                 \/ LockWrite(t)
                 \/ LoadTable(t)
          PROVE  UNCHANGED table
      BY <2>3 DEF UpdateRouteTable, Fetched, LockWrite, LoadTable
    <2> QED
      BY <2>1, <2>2, <2>3 DEF RouteNext, Publish, routeVars
  <1> QED
    BY <1>1, <1>2, RouteInvariant, PTL DEF RouteSpec, ImplementsCache, Cache!Spec

-----------------------------------------------------------------------------
(***************************************************************************)
(* An empty list in a caller's hands comes from a lookup that asked        *)
(* ZooKeeper: EmptyIsNotTrusted at every place before the choice.          *)
(***************************************************************************)
AskedWhenEmpty ==
  \A c \in Callers :
    /\ pc[c] \in {"update", "reread"} => asked[c] = TRUE
    /\ pc[c] = "select" /\ routeNodes[c] = {} => asked[c] = TRUE
    /\ pc[c] = "connect" /\ host[c] = "" => asked[c] = TRUE

(***************************************************************************)
(* Every list on its way into the cache is one its path had: the           *)
(* registry's, the empty one of an error, and those already fetched.       *)
(***************************************************************************)
ListsPublished ==
  /\ \A p \in Paths : {{}, children[p], table[p]} \subseteq published[p]
  /\ \A t \in Threads : stage[t] \in {"lock", "load", "store"} =>
       newNodes[t] \in published[path[t]]

(***************************************************************************)
(* The types of Discovery's own variables.                                 *)
(***************************************************************************)
OwnTypes ==
  /\ children \in [Paths -> SUBSET Nodes]
  /\ DOMAIN published = Paths
  /\ session \in [Callers -> {"none", "open", "closing"}]
  /\ watches \in [Callers -> SUBSET Paths]
  /\ events \in [Callers -> SUBSET Paths]
  /\ dataMutex \in Callers \cup {NoThread}
  /\ pc \in [Callers -> {"idle", "lock", "update", "reread", "select", "connect", "close"}]
  /\ routeNodes \in [Callers -> SUBSET Nodes]
  /\ host \in [Callers -> Nodes \cup {""}]
  /\ asked \in [Callers -> BOOLEAN]

DiscoveryInv ==
  /\ RouteInv /\ OwnTypes
  /\ AskedWhenEmpty /\ ListsPublished

-----------------------------------------------------------------------------
(***************************************************************************)
(* GetChildren on any session is, for the route table, the return of a     *)
(* fetch with a list of providers.                                         *)
(***************************************************************************)
LEMMA GetChildrenFetches ==
  ASSUME RouteTypeOK, OwnTypes, NEW t \in Threads, NEW c \in Callers, GetChildren(t, c)
  PROVE  \E nodes \in SUBSET Nodes : Fetched(t, nodes)
  <1>1. {} \in SUBSET Nodes /\ children[path[t]] \in SUBSET Nodes
    BY DEF OwnTypes, RouteTypeOK
  <1> QED
    BY <1>1 DEF GetChildren

(***************************************************************************)
(* A step of a lookup, of a watcher or of the registry is a step of        *)
(* RouteManager or leaves it alone.                                        *)
(***************************************************************************)
LEMMA RouteStep ==
  ASSUME RouteTypeOK, OwnTypes, [Next]_vars
  PROVE  [RouteNext]_routeVars
  <1> USE ThreadsAssumption
  <1>1. ASSUME NEW c \in Callers, NEW p \in Paths, LookUp(c, p) PROVE [RouteNext]_routeVars
    BY <1>1 DEF LookUp, RouteNext
  <1>2. ASSUME NEW c \in Callers, CallerUpdate(c) PROVE RouteNext
    BY <1>2, GetChildrenFetches DEF CallerUpdate, RouteNext
  <1>3. ASSUME NEW c \in Callers, WatchFired(c) PROVE RouteNext
    BY <1>3 DEF WatchFired, RouteNext, OwnTypes
  <1>4. ASSUME NEW c \in Callers, WatcherUpdate(c) PROVE RouteNext
    BY <1>4, GetChildrenFetches DEF WatcherUpdate, RouteNext
  <1>5. ASSUME NEW c \in Callers,
               Start(c) \/ Reread(c) \/ Select(c) \/ BeginClose(c) \/ EndClose(c)
        PROVE  UNCHANGED routeVars
    BY <1>5 DEF Start, Reread, Select, BeginClose, EndClose
  <1>6. ASSUME NEW p \in Paths, RegistryChange(p) PROVE UNCHANGED routeVars
    BY <1>6 DEF RegistryChange
  <1>7. CASE UNCHANGED vars
    BY <1>7 DEF vars
  <1> QED
    BY <1>1, <1>2, <1>3, <1>4, <1>5, <1>6, <1>7 DEF Next, CallerStep, WatcherStep

-----------------------------------------------------------------------------
(***************************************************************************)
(* The initial state of the discovery satisfies the invariant.             *)
(***************************************************************************)
LEMMA DiscoveryInitInv == Init => DiscoveryInv
  <1> SUFFICES ASSUME Init PROVE DiscoveryInv
    OBVIOUS
  <1>1. RouteInv
    BY RouteInitInv DEF Init
  <1>2. OwnTypes
    BY DEF Init, OwnTypes, NoRoutes
  <1>3. AskedWhenEmpty
    BY DEF Init, AskedWhenEmpty
  <1>4. ListsPublished
    BY ThreadsAssumption DEF Init, RouteInit, ListsPublished, NoRoutes
  <1> QED
    BY <1>1, <1>2, <1>3, <1>4 DEF DiscoveryInv

(***************************************************************************)
(* The types are kept by every step.                                       *)
(***************************************************************************)
LEMMA TypesStep ==
  ASSUME DiscoveryInv, [Next]_vars
  PROVE  OwnTypes'
  <1>0. OwnTypes /\ table \in [Paths -> SUBSET Nodes] /\ path \in [Threads -> Paths]
    BY DEF DiscoveryInv, RouteInv, RouteTypeOK
  <1> USE DEF OwnTypes
  <1>W. ASSUME NEW t \in Threads, NEW c \in Callers, GetChildren(t, c)
        PROVE  watches' \in [Callers -> SUBSET Paths]
    <2>1. path[t] \in Paths /\ watches \in [Callers -> SUBSET Paths]
      BY <1>0
    <2> HIDE DEF OwnTypes
    <2> QED
      BY <1>W, <2>1 DEF GetChildren
  <1>1. ASSUME NEW c \in Callers, NEW p \in Paths, LookUp(c, p) PROVE OwnTypes'
    <2>1. table[p] \in SUBSET Nodes
      BY <1>0
    <2>2. routeNodes' \in [Callers -> SUBSET Nodes]
      BY <1>0, <1>1, <2>1 DEF LookUp, GetRouteNodes
    <2>3. pc' \in [Callers -> {"idle", "lock", "update", "reread", "select", "connect", "close"}]
      <3>1. \E v \in {"update", "select"} : pc' = [pc EXCEPT ![c] = v]
        BY <1>1 DEF LookUp
      <3> QED
        BY <1>0, <3>1
    <2>4. asked' \in [Callers -> BOOLEAN]
      <3>1. asked' = asked \/ asked' = [asked EXCEPT ![c] = TRUE]
        BY <1>1 DEF LookUp
      <3> QED
        BY <1>0, <3>1
    <2> QED
      BY <1>0, <1>1, <2>2, <2>3, <2>4 DEF LookUp
  <1>2. ASSUME NEW c \in Callers, CallerUpdate(c) PROVE OwnTypes'
    <2>1. watches' \in [Callers -> SUBSET Paths]
      BY <1>0, <1>2, <1>W, ThreadsAssumption DEF CallerUpdate
    <2>2. pc' \in [Callers -> {"idle", "lock", "update", "reread", "select", "connect", "close"}]
      <3>1. pc' = pc \/ \E v \in {"update", "reread"} : pc' = [pc EXCEPT ![c] = v]
        BY <1>2 DEF CallerUpdate
      <3> QED
        BY <1>0, <3>1
    <2> QED
      BY <1>0, <1>2, <2>1, <2>2 DEF CallerUpdate
  <1>3. ASSUME NEW c \in Callers, WatchFired(c) PROVE OwnTypes'
    <2>1. events' \in [Callers -> SUBSET Paths]
      <3>1. events \in [Callers -> SUBSET Paths]
        BY <1>0
      <3> HIDE DEF OwnTypes
      <3> QED
        BY <1>3, <3>1 DEF WatchFired
    <2> QED
      BY <1>0, <1>3, <2>1 DEF WatchFired
  <1>4. ASSUME NEW c \in Callers, WatcherUpdate(c) PROVE OwnTypes'
    <2>1. watches' \in [Callers -> SUBSET Paths]
      BY <1>0, <1>4, <1>W, ThreadsAssumption DEF WatcherUpdate
    <2> QED
      BY <1>0, <1>4, <2>1 DEF WatcherUpdate
  <1>5. ASSUME NEW c \in Callers, Start(c) PROVE OwnTypes'
    BY <1>0, <1>5 DEF Start
  <1>6. ASSUME NEW c \in Callers, Reread(c) PROVE OwnTypes'
    <2>1. table[path[c]] \in SUBSET Nodes
      BY <1>0, ThreadsAssumption
    <2> QED
      BY <1>0, <1>6, <2>1 DEF Reread, GetRouteNodes
  <1>7. ASSUME NEW c \in Callers, Select(c) PROVE OwnTypes'
    <2>1. Choices(routeNodes[c]) \subseteq Nodes \cup {""}
      BY <1>0 DEF Choices
    <2> QED
      BY <1>0, <1>7, <2>1 DEF Select
  <1>8. ASSUME NEW c \in Callers, BeginClose(c) \/ EndClose(c) PROVE OwnTypes'
    BY <1>0, <1>8 DEF BeginClose, EndClose
  <1>9. ASSUME NEW p \in Paths, RegistryChange(p) PROVE OwnTypes'
    <2>1. PICK n \in Nodes :
            children' = [children EXCEPT ![p] = IF n \in @ THEN @ \ {n} ELSE @ \cup {n}]
      BY <1>9 DEF RegistryChange
    <2>2. children' \in [Paths -> SUBSET Nodes]
      BY <1>0, <2>1
    <2>3. events' \in [Callers -> SUBSET Paths] /\ watches' \in [Callers -> SUBSET Paths]
      BY <1>0, <1>9 DEF RegistryChange
    <2> QED
      BY <1>0, <1>9, <2>2, <2>3 DEF RegistryChange
  <1>10. CASE UNCHANGED vars
    BY <1>0, <1>10 DEF vars, discoveryVars
  <1> HIDE DEF OwnTypes
  <1> QED
    BY <1>1, <1>2, <1>3, <1>4, <1>5, <1>6, <1>7, <1>8, <1>9, <1>10
       DEF Next, CallerStep, WatcherStep

(***************************************************************************)
(* No step of a lookup lets an empty list pass that ZooKeeper was not      *)
(* asked for; the others do not touch a caller's own variables.            *)
(***************************************************************************)
LEMMA AskedWhenEmptyStep ==
  ASSUME DiscoveryInv, [Next]_vars
  PROVE  AskedWhenEmpty'
  <1> USE DEF DiscoveryInv, OwnTypes, AskedWhenEmpty
  <1>1. ASSUME NEW c \in Callers, NEW p \in Paths, LookUp(c, p) PROVE AskedWhenEmpty'
    BY <1>1 DEF LookUp
  <1>2. ASSUME NEW c \in Callers, CallerUpdate(c) PROVE AskedWhenEmpty'
    <2>1. asked[c] = TRUE
      BY <1>2 DEF CallerUpdate
    <2>2. \A d \in Callers : d # c => pc'[d] = pc[d]
      BY <1>2 DEF CallerUpdate
    <2> QED
      BY <1>2, <2>1, <2>2 DEF CallerUpdate
  <1>3. ASSUME NEW c \in Callers, Start(c) PROVE AskedWhenEmpty'
    BY <1>3 DEF Start
  <1>4. ASSUME NEW c \in Callers, Reread(c) PROVE AskedWhenEmpty'
    BY <1>4 DEF Reread
  <1>5. ASSUME NEW c \in Callers, Select(c) PROVE AskedWhenEmpty'
    <2>1. host'[c] \in Choices(routeNodes[c])
      BY <1>5 DEF Select
    <2>2. host'[c] = "" => routeNodes[c] = {}
      BY <2>1, NodesAssumption DEF Choices
    <2> QED
      BY <1>5, <2>2 DEF Select
  <1>6. ASSUME NEW c \in Callers, BeginClose(c) \/ EndClose(c) PROVE AskedWhenEmpty'
    <2>1. \E v \in {"idle", "close"} : pc' = [pc EXCEPT ![c] = v]
      BY <1>6 DEF BeginClose, EndClose
    <2>2. UNCHANGED <<routeNodes, host, asked>>
      BY <1>6 DEF BeginClose, EndClose
    <2> QED
      BY <2>1, <2>2
  <1>7. CASE UNCHANGED <<pc, routeNodes, host, asked>>
    BY <1>7
  <1>8. ASSUME NEW c \in Callers, WatcherStep(c) PROVE UNCHANGED <<pc, routeNodes, host, asked>>
    BY <1>8 DEF WatcherStep, WatchFired, WatcherUpdate
  <1>9. ASSUME NEW p \in Paths, RegistryChange(p)
        PROVE  UNCHANGED <<pc, routeNodes, host, asked>>
    BY <1>9 DEF RegistryChange
  <1> QED
    BY <1>1, <1>2, <1>3, <1>4, <1>5, <1>6, <1>7, <1>8, <1>9
       DEF Next, CallerStep, vars, discoveryVars

(***************************************************************************)
(* A fetch returns the registry's list or none; it is stored for the path  *)
(* it was fetched for, in a copy of the current table.                     *)
(***************************************************************************)
LEMMA FetchPublished ==
  ASSUME DiscoveryInv, NEW t \in Threads, NEW c \in Callers, GetChildren(t, c),
         UNCHANGED <<children, published>>
  PROVE  ListsPublished'
  <1> USE DEF DiscoveryInv, OwnTypes, RouteInv, RouteTypeOK, ListsPublished
  <1>1. PICK nodes \in {{}, children[path[t]]} : Fetched(t, nodes)
    BY DEF GetChildren
  <1>2. nodes \in published[path[t]]
    OBVIOUS
  <1> QED
    BY <1>1, <1>2 DEF Fetched

(***************************************************************************)
(* Publishing stores a list its path had; the other entries are those of   *)
(* the current table, because the copy is not stale.                       *)
(***************************************************************************)
LEMMA StorePublished ==
  ASSUME DiscoveryInv, NEW t \in Threads, Publish(t), UNCHANGED <<children, published>>
  PROVE  ListsPublished'
  <1>0. /\ table \in [Paths -> SUBSET Nodes] /\ path \in [Threads -> Paths]
        /\ stage \in [Threads -> {"idle", "fetch", "lock", "load", "store"}]
        /\ ListsPublished
    BY DEF DiscoveryInv, RouteInv, RouteTypeOK
  <1>1. \A s \in Threads : stage'[s] \in {"lock", "load", "store"} =>
                             stage[s] \in {"lock", "load", "store"}
    BY <1>0 DEF Publish, LockWrite, LoadTable, StoreTable
  <1>2. UNCHANGED <<path, newNodes>>
    BY DEF Publish, LockWrite, LoadTable, StoreTable
  <1>3. \A p \in Paths : table'[p] \in published[p]
    <2>1. CASE table' = table
      BY <1>0, <2>1 DEF ListsPublished
    <2>2. CASE StoreTable(t)
      <3>1. table' = [table EXCEPT ![path[t]] = newNodes[t]]
        BY <2>2 DEF StoreTable, DiscoveryInv, RouteInv, NoStaleCopy
      <3>2. newNodes[t] \in published[path[t]]
        BY <1>0, <2>2 DEF StoreTable, ListsPublished
      <3> QED
        BY <1>0, <3>1, <3>2 DEF ListsPublished
    <2> QED
      BY <2>1, <2>2 DEF Publish, LockWrite, LoadTable
  <1> QED
    BY <1>0, <1>1, <1>2, <1>3 DEF ListsPublished

(***************************************************************************)
(* Every step keeps the lists on their way into the cache published.       *)
(***************************************************************************)
LEMMA ListsPublishedStep ==
  ASSUME DiscoveryInv, [Next]_vars
  PROVE  ListsPublished'
  <1> USE ThreadsAssumption
  <1>1. ASSUME NEW t \in Threads, NEW p \in Paths, UpdateRouteTable(t, p),
               UNCHANGED <<children, published>>
        PROVE  ListsPublished'
    BY <1>1 DEF UpdateRouteTable, DiscoveryInv, OwnTypes, RouteInv, RouteTypeOK, ListsPublished
  <1>2. CASE UNCHANGED <<routeVars, children, published>>
    BY <1>2 DEF routeVars, DiscoveryInv, ListsPublished
  <1>3. ASSUME NEW c \in Callers, NEW p \in Paths, LookUp(c, p) PROVE ListsPublished'
    BY <1>1, <1>2, <1>3 DEF LookUp
  <1>4. ASSUME NEW c \in Callers, CallerUpdate(c) \/ WatcherUpdate(c) PROVE ListsPublished'
    BY <1>4, FetchPublished, StorePublished DEF CallerUpdate, WatcherUpdate
  <1>5. ASSUME NEW c \in Callers, WatchFired(c) PROVE ListsPublished'
    BY <1>1, <1>5 DEF WatchFired, DiscoveryInv, OwnTypes
  <1>6. ASSUME NEW c \in Callers,
               Start(c) \/ Reread(c) \/ Select(c) \/ BeginClose(c) \/ EndClose(c)
        PROVE  UNCHANGED <<routeVars, children, published>>
    BY <1>6 DEF Start, Reread, Select, BeginClose, EndClose
  <1>7. ASSUME NEW p \in Paths, RegistryChange(p) PROVE ListsPublished'
    <2>0. /\ children \in [Paths -> SUBSET Nodes] /\ DOMAIN published = Paths
          /\ path \in [Threads -> Paths] /\ ListsPublished
      BY DEF DiscoveryInv, OwnTypes, RouteInv, RouteTypeOK
    <2>1. PICK new : children' = [children EXCEPT ![p] = new]
      BY <1>7 DEF RegistryChange
    <2>2. \A q \in Paths : published[q] \subseteq published'[q]
      BY <1>7, <2>0 DEF RegistryChange
    <2>3. \A q \in Paths : children'[q] \in published'[q]
      BY <1>7, <2>0, <2>1 DEF RegistryChange, ListsPublished
    <2>4. UNCHANGED <<table, stage, path, newNodes>>
      BY <1>7 DEF RegistryChange, routeVars
    <2> QED
      BY <2>0, <2>2, <2>3, <2>4 DEF ListsPublished
  <1> QED
    BY <1>2, <1>3, <1>4, <1>5, <1>6, <1>7 DEF Next, CallerStep, WatcherStep, vars, discoveryVars

-----------------------------------------------------------------------------
(***************************************************************************)
(* The invariant of the discovery holds in every reachable state.          *)
(***************************************************************************)
THEOREM DiscoveryInvariant == Spec => []DiscoveryInv
  <1>1. DiscoveryInv /\ [Next]_vars => DiscoveryInv'
    <2> SUFFICES ASSUME DiscoveryInv, [Next]_vars PROVE DiscoveryInv'
      OBVIOUS
    <2>1. RouteInv'
      BY RouteStep, RouteStepInv DEF DiscoveryInv, RouteInv
    <2> QED
      BY <2>1, TypesStep, AskedWhenEmptyStep, ListsPublishedStep
         DEF DiscoveryInv
  <1> QED
    BY <1>1, DiscoveryInitInv, PTL DEF Spec

(***************************************************************************)
(* Callers and watchers use RouteManager as it specifies: the composition  *)
(* implements it, with every guarantee of RouteManagerProofs.              *)
(***************************************************************************)
THEOREM DiscoveryUsesRouteManager == Spec => RouteSpec
  <1>1. Init => RouteInit
    BY DEF Init
  <1>2. DiscoveryInv /\ [Next]_vars => [RouteNext]_routeVars
    BY RouteStep DEF DiscoveryInv, RouteInv
  <1> QED
    BY <1>1, <1>2, DiscoveryInvariant, PTL DEF Spec, RouteSpec

(***************************************************************************)
(* The RCU update under lookups and watchers of any number of channels     *)
(* implements the atomic route cache.                                      *)
(***************************************************************************)
THEOREM DiscoveryRefinement == Spec => ImplementsCache
  BY DiscoveryUsesRouteManager, RouteRefinement

(***************************************************************************)
(* Whatever callers and watchers publish, in whatever order, the cache     *)
(* holds for each path a list the registry really had, or nothing.         *)
(***************************************************************************)
THEOREM CacheHoldsRegistryLists == Spec => []CacheFromRegistry
  <1>1. DiscoveryInv => CacheFromRegistry
    BY DEF DiscoveryInv, ListsPublished, CacheFromRegistry
  <1> QED
    BY <1>1, DiscoveryInvariant, PTL

(***************************************************************************)
(* A lookup that ends without a provider has asked ZooKeeper itself.       *)
(***************************************************************************)
THEOREM EmptyListsAreAsked == Spec => []EmptyIsNotTrusted
  <1>1. DiscoveryInv => EmptyIsNotTrusted
    BY DEF DiscoveryInv, AskedWhenEmpty, EmptyIsNotTrusted
  <1> QED
    BY <1>1, DiscoveryInvariant, PTL

(***************************************************************************)
(* Every variable of lookups, watchers and registry keeps its type.        *)
(***************************************************************************)
THEOREM DiscoveryTypes == Spec => []DiscoveryTypeOK
  <1>1. DiscoveryInv => DiscoveryTypeOK
    BY DEF DiscoveryInv, RouteInv, OwnTypes, DiscoveryTypeOK
  <1> QED
    BY <1>1, DiscoveryInvariant, PTL
=============================================================================
