---------------------------- MODULE DirectoryTree ---------------------------
(***************************************************************************)
(* The table of request callbacks: a Directory_tree that main fills with   *)
(* register_cb_for_doc_uri, part of it after the FastCGI workers have been *)
(* started, while the workers look document URIs up with                   *)
(* get_cb_for_doc_uri.  Nothing locks the tree.                            *)
(*                                                                         *)
(* An absolute path is the sequence of its elements after the root; a      *)
(* trailing slash is a last element Dot, as boost::filesystem iterates it. *)
(* A node is known by its path (m_full_path), so the tree is the set of    *)
(* the paths of its nodes.  Steps interleave between the look-ups and      *)
(* insertions in one node's std::map, each of which is taken to be atomic. *)
(***************************************************************************)
EXTENDS Sequences, SequencesExt, Naturals

CONSTANTS Workers,    \* the FastCGI worker threads
          Names,      \* the elements of paths
          Paths,      \* the document URIs that are asked for
          Routes,     \* the ones main registers
          Dot,        \* the element "."
          NoNode      \* the null node pointer

ASSUME PathAssumption ==
    /\ Routes \subseteq Paths /\ Paths \subseteq Seq(Names) /\ Dot \in Names
    /\ \A p \in Paths : \A i \in DOMAIN p : p[i] = Dot => i = Len(p)
    /\ NoNode \notin Seq(Names)

VARIABLES
    nodes,      \* the nodes of the tree; the root is <<>>
    data,       \* the nodes with a callback
    pending,    \* the routes main has yet to register
    reg,        \* the node set_node has reached, or NoNode outside set_node
    route,      \* the path it was given
    at,         \* at[w]: "idle", or the mode of the find_match it is in
    query,      \* query[w]: the path it looks up
    curr,       \* curr[w]: curr_node
    answer,     \* answer[w]: the node whose callback handles the request, or NoNode
    known       \* history: known[w]: data when w's look-up began

vars == <<nodes, data, pending, reg, route, at, query, curr, answer, known>>
tree == <<nodes, data>>
main == <<pending, reg, route>>
lookup == <<at, query, curr, answer, known>>

Init ==
    /\ nodes = {<<>>}
    /\ data = {}
    /\ pending = Routes
    /\ reg = NoNode
    /\ route = <<>>
    /\ at = [w \in Workers |-> "idle"]
    /\ query = [w \in Workers |-> <<>>]
    /\ curr = [w \in Workers |-> <<>>]
    /\ answer = [w \in Workers |-> NoNode]
    /\ known = [w \in Workers |-> {}]

(* The child of node p on the way to path q, for p a proper prefix of q. *)
towards(p, q) == Append(p, q[Len(p) + 1])

-----------------------------------------------------------------------------

(* register_cb_for_doc_uri: set_node starts at the root. *)
set_node(p) ==
    /\ reg = NoNode
    /\ p \in pending
    /\ pending' = pending \ {p}
    /\ route' = p
    /\ reg' = <<>>
    /\ UNCHANGED <<tree, lookup>>

(* Variant: the child is entered and never inserted. *)
set_node_step_orphan ==
    /\ reg # NoNode
    /\ reg # route
    /\ reg' = towards(reg, route)
    /\ UNCHANGED <<nodes, data, pending, route, lookup>>

(* Variant: the child is created anew although there is one. *)
set_node_step_replace ==
    LET child == towards(reg, route)
        old == {n \in nodes : IsPrefix(child, n)}
    IN  /\ reg # NoNode
        /\ reg # route
        /\ reg' = child
        /\ nodes' = (nodes \ old) \cup {child}
        /\ data' = data \ old
        /\ UNCHANGED <<pending, route, lookup>>

(* One round of its loop: the child is found, or created and inserted. *)
set_node_step ==
    /\ reg # NoNode
    /\ reg # route
    /\ reg' = towards(reg, route)
    /\ nodes' = nodes \cup {towards(reg, route)}
    /\ UNCHANGED <<data, pending, route, lookup>>

(* set_data, and set_node returns. *)
set_data ==
    /\ reg = route
    /\ data' = data \cup {route}
    /\ reg' = NoNode
    /\ UNCHANGED <<nodes, pending, route, lookup>>

-----------------------------------------------------------------------------

(* get_cb_for_doc_uri: the exact look-up comes first. *)
get_cb(w, q) ==
    /\ at[w] = "idle"
    /\ at' = [at EXCEPT ![w] = "EXACT"]
    /\ query' = [query EXCEPT ![w] = q]
    /\ curr' = [curr EXCEPT ![w] = <<>>]
    /\ answer' = [answer EXCEPT ![w] = NoNode]
    /\ known' = [known EXCEPT ![w] = data]
    /\ UNCHANGED <<tree, main>>

hasNext(w) == curr[w] # query[w] /\ towards(curr[w], query[w]) \in nodes

find_match_step(w) ==
    /\ at[w] # "idle"
    /\ hasNext(w)
    /\ curr' = [curr EXCEPT ![w] = towards(curr[w], query[w])]
    /\ UNCHANGED <<tree, main, at, query, answer, known>>

(* get_data of the node find_match returned; a node without data means 404. *)
found(w, n) ==
    /\ answer' = [answer EXCEPT ![w] = IF n \in data THEN n ELSE NoNode]
    /\ at' = [at EXCEPT ![w] = "idle"]
    /\ UNCHANGED <<tree, main, query, curr, known>>

(* The walk used up the query: is_path holds in either mode. *)
find_match_path(w) ==
    /\ at[w] # "idle"
    /\ curr[w] = query[w]
    /\ found(w, curr[w])

(* The walk of the exact look-up broke off: no match, look up a parent. *)
find_match_none(w) ==
    /\ at[w] = "EXACT"
    /\ curr[w] # query[w]
    /\ ~hasNext(w)
    /\ at' = [at EXCEPT ![w] = "PARENT_PATH"]
    /\ curr' = [curr EXCEPT ![w] = <<>>]
    /\ UNCHANGED <<tree, main, query, answer, known>>

(* Variant: the node the walk broke off at is taken for the directory. *)
find_match_parent_any(w) ==
    /\ at[w] = "PARENT_PATH"
    /\ curr[w] # query[w]
    /\ ~hasNext(w)
    /\ found(w, curr[w])

(* The walk of the parent look-up broke off: the directory node of the node *)
(* it reached, if that has one.                                             *)
find_match_parent(w) ==
    /\ at[w] = "PARENT_PATH"
    /\ curr[w] # query[w]
    /\ ~hasNext(w)
    /\ found(w, IF Append(curr[w], Dot) \in nodes THEN Append(curr[w], Dot) ELSE NoNode)

Next ==
    \/ \E p \in Routes : set_node(p)
    \/ set_node_step
    \/ set_data
    \/ \E w \in Workers :
          \/ \E q \in Paths : get_cb(w, q)
          \/ find_match_step(w) \/ find_match_path(w)
          \/ find_match_none(w) \/ find_match_parent(w)

Spec == Init /\ [][Next]_vars

-----------------------------------------------------------------------------

(* d is a directory (a path that ends in a slash) that contains p. *)
isDirOf(d, p) ==
    d # <<>> /\ Last(d) = Dot /\ IsStrictPrefix(Front(d), p)

(* Every variable has its type; every node's parent is a node, so the       *)
(* shared_ptr chain from the root reaches it.                               *)
TypeOK ==
    /\ \A n \in nodes : n # <<>> => Front(n) \in nodes
    /\ data \subseteq nodes
    /\ pending \subseteq Routes
    /\ reg # NoNode => reg \in nodes
    /\ at \in [Workers -> {"idle", "EXACT", "PARENT_PATH"}]
    /\ \A w \in Workers : curr[w] \in nodes /\ query[w] \in Paths \cup {<<>>}

(* A request is only ever handled by a callback that was registered for its *)
(* URI or for a directory that contains it, whatever registrations happen   *)
(* during the look-up.                                                      *)
CallbackIsForPath ==
    \A w \in Workers :
        at[w] = "idle" /\ answer[w] # NoNode =>
            answer[w] = query[w] \/ isDirOf(answer[w], query[w])

(* A registration that was complete before a look-up of its URI began is    *)
(* what that look-up finds: later registrations never hide it.              *)
RegisteredIsFound ==
    \A w \in Workers :
        at[w] = "idle" /\ query[w] \in known[w] => answer[w] = query[w]

(* "parent path gets last parent" (Directory_tree_tests.cpp:42): a URI that *)
(* has no node of its own is handled by a directory that contains it, if    *)
(* one was registered before the look-up.  The code does not do this when   *)
(* the walk breaks off below that directory.                                *)
ParentIsFound ==
    \A w \in Workers :
        /\ at[w] = "idle"
        /\ query[w] \notin nodes
        /\ \E dir \in known[w] : isDirOf(dir, query[w])
        => answer[w] # NoNode
=============================================================================
