---------------------------- MODULE MultikeyTree ----------------------------
(***************************************************************************)
(* multikey_tree< value > (src/sources/multikey_tree/multikey_tree.h): a   *)
(* tree with one child per symbol, walked by threads that look a key up to *)
(* read or to edit its value.  An edit creates the nodes that are missing. *)
(* A walk holds the mutex of one node at a time, to test and set a child,  *)
(* and reads the child again after it released the mutex.                  *)
(*                                                                         *)
(* A value is the number of times it was edited, as in the smoke test of   *)
(* the tree (multikey_tree_node_test.cpp:95-131).                          *)
(***************************************************************************)
EXTENDS Naturals, Sequences, FiniteSets

CONSTANTS Threads,
          Nodes,      \* the addresses of nodes
          Root,       \* the node that is the tree object itself
          NULL,
          Symbols,    \* the characters from '/' to 'z'
          Keys,       \* what threads look up: any strings
          MaxCalls    \* bound: calls of each thread

(* The prefixes of valid symbols of the keys.                              *)
Paths == {p \in UNION {{SubSeq(k, 1, n) : n \in 0 .. Len(k)} : k \in Keys} :
            \A i \in DOMAIN p : p[i] \in Symbols}

ASSUME TreeAssumption == /\ Keys # {}
                         /\ Root \in Nodes /\ NULL \notin Nodes \cup Threads
                         /\ \A k \in Keys : k \in Seq(STRING)
                         /\ MaxCalls \in Nat

VARIABLES children_nodes_,        \* of each node: the child for each symbol
          children_nodes_mutex_,  \* of each node: the thread that holds it
          node_data_,             \* of each node: its value
          heap,                   \* the nodes that exist
          pc, call, key,          \* of each thread: its place, its call
          at,                     \* the node it is in
          depth,                  \* the symbols of the key it has used
          result,                 \* how its last call ended
          knew,                   \* history: the key had a node at the call
          calls
tree   == <<children_nodes_, children_nodes_mutex_, node_data_, heap>>
walk   == <<pc, call, key, at, depth>>
vars   == <<tree, walk, result, knew, calls>>

NoChildren == [s \in Symbols |-> NULL]

Init == /\ children_nodes_ = [n \in Nodes |-> NoChildren]
        /\ children_nodes_mutex_ = [n \in Nodes |-> NULL]
        /\ node_data_ = [n \in Nodes |-> 0]
        /\ heap = {Root}
        /\ pc = [t \in Threads |-> "idle"]
        /\ call = [t \in Threads |-> "edit"]
        /\ key = [t \in Threads |-> <<>>]
        /\ at = [t \in Threads |-> Root]
        /\ depth = [t \in Threads |-> 0]
        /\ result = [t \in Threads |-> "none"]
        /\ knew = [t \in Threads |-> FALSE]
        /\ calls = [t \in Threads |-> 0]

(* The node of each path, NULL where there is none.                        *)
NodeOf == LET node[p \in Paths] ==
                IF p = <<>> THEN Root
                ELSE LET parent == node[SubSeq(p, 1, Len(p) - 1)]
                     IN  IF parent = NULL THEN NULL
                         ELSE children_nodes_[parent][p[Len(p)]]
          IN  node

Goto(t, p) == pc' = [pc EXCEPT ![t] = p]
Release(t) == children_nodes_mutex_' = [children_nodes_mutex_ EXCEPT ![at[t]] = NULL]
End(t, r)  == Goto(t, "idle") /\ result' = [result EXCEPT ![t] = r]

Symbol(t) == key[t][depth[t] + 1]
AtEnd(t)  == depth[t] = Len(key[t])

-----------------------------------------------------------------------------
(* get_for_edit( key ) and get_for_read( key ) begin at the root.          *)
Call(t, c, k) ==
    /\ pc[t] = "idle" /\ calls[t] < MaxCalls
    /\ Goto(t, "walking")
    /\ call' = [call EXCEPT ![t] = c]
    /\ key' = [key EXCEPT ![t] = k]
    /\ at' = [at EXCEPT ![t] = Root]
    /\ depth' = [depth EXCEPT ![t] = 0]
    /\ result' = [result EXCEPT ![t] = "none"]
    /\ knew' = [knew EXCEPT ![t] = k \in Paths /\ NodeOf[k] # NULL]
    /\ calls' = [calls EXCEPT ![t] = @ + 1]
    /\ UNCHANGED <<tree>>

(* The hasher throws for a symbol outside of its range; what the walk has  *)
(* created above it stays.                                                 *)
Reject(t) ==
    /\ pc[t] = "walking" /\ ~AtEnd(t) /\ Symbol(t) \notin Symbols
    /\ End(t, "invalid")
    /\ UNCHANGED <<tree, call, key, at, depth, knew, calls>>

TestUnlocked(t) ==                            \* mutant: no scoped_lock
    /\ pc[t] = "walking" /\ ~AtEnd(t) /\ Symbol(t) \in Symbols
    /\ Goto(t, "locked")
    /\ UNCHANGED <<tree, call, key, at, depth, result, knew, calls>>

Lock(t) ==
    /\ pc[t] = "walking" /\ ~AtEnd(t) /\ Symbol(t) \in Symbols
    /\ children_nodes_mutex_[at[t]] = NULL
    /\ children_nodes_mutex_' = [children_nodes_mutex_ EXCEPT ![at[t]] = t]
    /\ Goto(t, "locked")
    /\ UNCHANGED <<children_nodes_, node_data_, heap, call, key, at, depth,
                   result, knew, calls>>

(* The child exists: the mutex is released and the walk goes on.           *)
Found(t) ==
    /\ pc[t] = "locked" /\ children_nodes_[at[t]][Symbol(t)] # NULL
    /\ Release(t)
    /\ Goto(t, "descending")
    /\ UNCHANGED <<children_nodes_, node_data_, heap, call, key, at, depth,
                   result, knew, calls>>

(* It does not: a read throws, an edit creates it.                         *)
Missing(t) ==
    /\ pc[t] = "locked" /\ children_nodes_[at[t]][Symbol(t)] = NULL
    /\ \/ /\ call[t] = "read"
          /\ Release(t)
          /\ End(t, "missing")
       \/ /\ call[t] = "edit"
          /\ Goto(t, "creating")
          /\ UNCHANGED <<children_nodes_mutex_, result>>
    /\ UNCHANGED <<children_nodes_, node_data_, heap, call, key, at, depth,
                   knew, calls>>

CreateInRoot(t) ==                            \* mutant: the child of the root
    /\ pc[t] = "creating"
    /\ \E n \in Nodes \ heap :
         /\ heap' = heap \cup {n}
         /\ children_nodes_' = [children_nodes_ EXCEPT ![n] = NoChildren,
                                                       ![Root][Symbol(t)] = n]
         /\ node_data_' = [node_data_ EXCEPT ![n] = 0]
    /\ Release(t)
    /\ Goto(t, "walking")
    /\ UNCHANGED <<call, key, at, depth, result, knew, calls>>

Create(t) ==
    /\ pc[t] = "creating"
    /\ \E n \in Nodes \ heap :
         /\ heap' = heap \cup {n}
         /\ children_nodes_' = [children_nodes_ EXCEPT ![n] = NoChildren,
                                                       ![at[t]][Symbol(t)] = n]
         /\ node_data_' = [node_data_ EXCEPT ![n] = 0]
    /\ Release(t)
    /\ Goto(t, "descending")
    /\ UNCHANGED <<call, key, at, depth, result, knew, calls>>

(* The child is read a second time, without the mutex.                     *)
Descend(t) ==
    /\ pc[t] = "descending"
    /\ at' = [at EXCEPT ![t] = children_nodes_[at[t]][Symbol(t)]]
    /\ depth' = [depth EXCEPT ![t] = @ + 1]
    /\ Goto(t, "walking")
    /\ UNCHANGED <<tree, call, key, result, knew, calls>>

(* The address of the value is returned; an editor changes it, under the   *)
(* mutex of the value.                                                     *)
Use(t) ==
    /\ pc[t] = "walking" /\ AtEnd(t)
    /\ \/ /\ call[t] = "read"
          /\ UNCHANGED node_data_
       \/ /\ call[t] = "edit"
          /\ node_data_' = [node_data_ EXCEPT ![at[t]] = @ + 1]
    /\ End(t, "found")
    /\ UNCHANGED <<children_nodes_, children_nodes_mutex_, heap, call, key, at,
                   depth, knew, calls>>

(* clear() takes no lock: nobody else may be in the tree.  It deletes the  *)
(* children of the root and all below them.                                *)
ClearKeepsChildren(t) ==                      \* mutant: pointers not reset
    /\ \A x \in Threads : pc[x] = "idle"
    /\ calls[t] < MaxCalls /\ calls' = [calls EXCEPT ![t] = @ + 1]
    /\ heap' = {Root}
    /\ UNCHANGED <<children_nodes_, children_nodes_mutex_, node_data_, walk, result, knew>>

Clear(t) ==
    /\ \A x \in Threads : pc[x] = "idle"
    /\ calls[t] < MaxCalls /\ calls' = [calls EXCEPT ![t] = @ + 1]
    /\ heap' = {Root}
    /\ children_nodes_' = [children_nodes_ EXCEPT ![Root] = NoChildren]
    /\ UNCHANGED <<children_nodes_mutex_, node_data_, walk, result, knew>>

Next == \E t \in Threads :
          \/ \E k \in Keys, c \in {"edit", "read"} : Call(t, c, k)
          \/ Reject(t) \/ Lock(t) \/ Found(t) \/ Missing(t) \/ Create(t)
          \/ Descend(t) \/ Use(t) \/ Clear(t)

Spec == Init /\ [][Next]_vars

-----------------------------------------------------------------------------
TypeOK ==
    /\ children_nodes_ \in [Nodes -> [Symbols -> Nodes \cup {NULL}]]
    /\ children_nodes_mutex_ \in [Nodes -> Threads \cup {NULL}]
    /\ node_data_ \in [Nodes -> Nat]
    /\ heap \in SUBSET Nodes
    /\ pc \in [Threads -> {"idle", "walking", "locked", "creating", "descending"}]
    /\ call \in [Threads -> {"edit", "read"}]
    /\ key \in [Threads -> Keys \cup {<<>>}]
    /\ at \in [Threads -> Nodes] /\ depth \in [Threads -> Nat]
    /\ result \in [Threads -> {"none", "found", "missing", "invalid"}]
    /\ knew \in [Threads -> BOOLEAN] /\ calls \in [Threads -> 0 .. MaxCalls]

(* Every node that exists is the node of exactly one path: threads that    *)
(* create the same path at once make one node of it, none is lost by an    *)
(* overwritten pointer and none is reached after clear() deleted it.       *)
OneNodePerPath ==
    /\ TypeOK
    /\ heap = {NodeOf[p] : p \in Paths} \ {NULL}
    /\ \A p, q \in Paths : NodeOf[p] = NodeOf[q] /\ NodeOf[p] # NULL => p = q

(* A lookup that begins when its key has a node does not throw, whatever   *)
(* other threads create meanwhile.                                         *)
ReadersFind == \A t \in Threads : result[t] = "missing" => ~knew[t]

Map == INSTANCE KeyMap WITH
         known <- {p \in Paths : NodeOf[p] # NULL},
         value <- [p \in Paths |-> IF NodeOf[p] = NULL THEN 0 ELSE node_data_[NodeOf[p]]]

(* The tree implements the map: lookups create keys one symbol at a time,  *)
(* no step but an edit changes a value, and none but clear() removes a key.*)
ImplementsMap == Map!Spec
=============================================================================
