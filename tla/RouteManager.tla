---------------------------- MODULE RouteManager ----------------------------
(***************************************************************************)
(* RouteManager (src/src/registry/route_manager.cc): the route table is an *)
(* immutable map behind an atomic pointer.  Readers load the pointer once; *)
(* UpdateRouteTable asks ZooKeeper first, then copies the map, changes one *)
(* entry of the copy and publishes it, the last three under _writeMutex.   *)
(*                                                                         *)
(* The list of providers of a path is a set: nothing depends on its order  *)
(* but the balancer, which may pick any.                                   *)
(***************************************************************************)
EXTENDS FiniteSets

CONSTANTS Threads,   \* threads that may call UpdateRouteTable
          Paths,     \* method paths
          Nodes,     \* "ip:port" of providers
          NoThread   \* the mutex is free

ASSUME NoThreadAssumption == NoThread \notin Threads
ASSUME PathsAssumption == Paths # {}

VARIABLES table,       \* the map _curRouteTable points to
          writeMutex,  \* the thread holding _writeMutex
          stage,       \* per thread: where in UpdateRouteTable it is
          path,        \* per thread: UpdateRouteTable's argument
          newNodes,    \* per thread: what GetChildren returned
          oldTable     \* per thread: the map it loaded

routeVars == <<table, writeMutex, stage, path, newNodes, oldTable>>

NoRoutes == [p \in Paths |-> {}]

RouteInit ==
  /\ table      = NoRoutes
  /\ writeMutex = NoThread
  /\ stage      = [t \in Threads |-> "idle"]
  /\ path       = [t \in Threads |-> CHOOSE p \in Paths : TRUE]
  /\ newNodes   = [t \in Threads |-> {}]
  /\ oldTable   = [t \in Threads |-> NoRoutes]

(***************************************************************************)
(* A path nobody ever updated reads as an empty list.                      *)
(***************************************************************************)
GetRouteNodes(p) == table[p]

-----------------------------------------------------------------------------
UpdateRouteTable(t, p) ==
  /\ stage[t] = "idle"
  /\ stage' = [stage EXCEPT ![t] = "fetch"]
  /\ path'  = [path EXCEPT ![t] = p]
  /\ UNCHANGED <<table, writeMutex, newNodes, oldTable>>

(***************************************************************************)
(* client->GetChildren returned, before the mutex is taken: an error is an *)
(* empty list.                                                             *)
(***************************************************************************)
Fetched(t, nodes) ==
  /\ stage[t] = "fetch"
  /\ stage'    = [stage EXCEPT ![t] = "lock"]
  /\ newNodes' = [newNodes EXCEPT ![t] = nodes]
  /\ UNCHANGED <<table, writeMutex, path, oldTable>>

\* Wrong: the copy is made without _writeMutex.
LockWriteFree(t) ==
  /\ stage[t] = "lock"
  /\ stage' = [stage EXCEPT ![t] = "load"]
  /\ UNCHANGED <<table, writeMutex, path, newNodes, oldTable>>

LockWrite(t) ==
  /\ stage[t] = "lock" /\ writeMutex = NoThread
  /\ writeMutex' = t
  /\ stage' = [stage EXCEPT ![t] = "load"]
  /\ UNCHANGED <<table, path, newNodes, oldTable>>

LoadTable(t) ==
  /\ stage[t] = "load"
  /\ oldTable' = [oldTable EXCEPT ![t] = table]
  /\ stage' = [stage EXCEPT ![t] = "store"]
  /\ UNCHANGED <<table, writeMutex, path, newNodes>>

\* Wrong: a new map with the one entry only; and: the mutex is not released.
StoreTableNoCopy(t) ==
  /\ stage[t] = "store"
  /\ table' = [NoRoutes EXCEPT ![path[t]] = newNodes[t]]
  /\ writeMutex' = NoThread
  /\ stage' = [stage EXCEPT ![t] = "idle"]
  /\ UNCHANGED <<path, newNodes, oldTable>>
StoreTableNoUnlock(t) ==
  /\ stage[t] = "store"
  /\ table' = [oldTable[t] EXCEPT ![path[t]] = newNodes[t]]
  /\ stage' = [stage EXCEPT ![t] = "idle"]
  /\ UNCHANGED <<writeMutex, path, newNodes, oldTable>>

StoreTable(t) ==
  /\ stage[t] = "store"
  /\ table' = [oldTable[t] EXCEPT ![path[t]] = newNodes[t]]
  /\ writeMutex' = NoThread
  /\ stage' = [stage EXCEPT ![t] = "idle"]
  /\ UNCHANGED <<path, newNodes, oldTable>>

(***************************************************************************)
(* The part of UpdateRouteTable that runs without the registry.            *)
(***************************************************************************)
Publish(t) == LockWrite(t) \/ LoadTable(t) \/ StoreTable(t)

RouteNext ==
  \E t \in Threads :
    \/ \E p \in Paths : UpdateRouteTable(t, p)
    \/ \E nodes \in SUBSET Nodes : Fetched(t, nodes)
    \/ Publish(t)

RouteSpec == RouteInit /\ [][RouteNext]_routeVars

-----------------------------------------------------------------------------
RouteTypeOK ==
  /\ table \in [Paths -> SUBSET Nodes]
  /\ writeMutex \in Threads \cup {NoThread}
  /\ stage \in [Threads -> {"idle", "fetch", "lock", "load", "store"}]
  /\ path \in [Threads -> Paths]
  /\ newNodes \in [Threads -> SUBSET Nodes]
  /\ oldTable \in [Threads -> [Paths -> SUBSET Nodes]]

(***************************************************************************)
(* The copy a writer is about to change is the current table: no other     *)
(* writer published between its load and its store, so no update is lost.  *)
(***************************************************************************)
NoStaleCopy ==
  \A t \in Threads : stage[t] = "store" => oldTable[t] = table

(***************************************************************************)
(* Only the holder of _writeMutex is between its load and its store.       *)
(***************************************************************************)
WritersExclude ==
  \A t \in Threads : stage[t] \in {"load", "store"} => writeMutex = t

Cache == INSTANCE RouteCache

(***************************************************************************)
(* The copy-on-write update implements the atomic replacement of one       *)
(* path's list.                                                            *)
(***************************************************************************)
ImplementsCache == Cache!Spec
=============================================================================
