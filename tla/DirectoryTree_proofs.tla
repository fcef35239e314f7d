------------------------ MODULE DirectoryTree_proofs ------------------------
(* Theorems about DirectoryTree: what the look-ups find while main is still *)
(* registering, for every set of workers, paths and routes.                 *)
EXTENDS DirectoryTree, SequenceTheorems, TLAPS

-----------------------------------------------------------------------------
(* Paths. *)

(* A prefix, element by element. *)
LEMMA PrefixByElements ==
    ASSUME NEW s \in Seq(Names), NEW t \in Seq(Names)
    PROVE  IsPrefix(s, t) <=> Len(s) <= Len(t) /\ \A i \in 1 .. Len(s) : s[i] = t[i]
<1>1. SubSeq(s, 1, Len(s)) = s
  OBVIOUS
<1>2. ASSUME Len(s) <= Len(t)
      PROVE  SubSeq(t, 1, Len(s)) = [i \in 1 .. Len(s) |-> t[i]]
  BY <1>2
<1>3. s = [i \in 1 .. Len(s) |-> s[i]]
  BY SMTT(30)
<1> QED
  BY <1>1, <1>2, <1>3 DEF IsPrefix

(* Of the same length, a prefix is the whole path. *)
LEMMA WholePrefix ==
    ASSUME NEW s \in Seq(Names), NEW t \in Seq(Names), IsPrefix(s, t)
    PROVE  Len(s) <= Len(t) /\ (Len(s) = Len(t) => s = t)
<1>1. Len(s) <= Len(t) /\ \A i \in 1 .. Len(s) : s[i] = t[i]
  BY PrefixByElements
<1>2. s = [i \in 1 .. Len(s) |-> s[i]] /\ t = [i \in 1 .. Len(t) |-> t[i]]
  OBVIOUS
<1> QED
  BY <1>1, <1>2, Zenon

(* One step of a walk from s towards t. *)
LEMMA TowardsIsPrefix ==
    ASSUME NEW s \in Seq(Names), NEW t \in Seq(Names), IsPrefix(s, t), s # t
    PROVE  /\ towards(s, t) \in Seq(Names)
           /\ Len(towards(s, t)) = Len(s) + 1
           /\ \A i \in 1 .. Len(s) : towards(s, t)[i] = s[i]
           /\ IsPrefix(towards(s, t), t)
<1>1. Len(s) < Len(t) /\ \A i \in 1 .. Len(s) : s[i] = t[i]
  BY WholePrefix, PrefixByElements
<1>2. t[Len(s) + 1] \in Names
  BY <1>1
<1>3. /\ towards(s, t) \in Seq(Names)
      /\ Len(towards(s, t)) = Len(s) + 1
      /\ \A i \in 1 .. Len(s) : towards(s, t)[i] = s[i]
      /\ towards(s, t)[Len(s) + 1] = t[Len(s) + 1]
  BY <1>2 DEF towards
<1>4. \A i \in 1 .. Len(s) + 1 : towards(s, t)[i] = t[i]
  BY <1>1, <1>3
<1> QED
  BY <1>1, <1>3, <1>4, PrefixByElements

(* The root is a prefix of every path. *)
LEMMA RootIsPrefix ==
    ASSUME NEW t \in Seq(Names)
    PROVE  <<>> \in Seq(Names) /\ IsPrefix(<<>>, t)
<1> DEFINE s == <<>>
<1>1. s \in Seq(Names) /\ Len(s) = 0
  OBVIOUS
<1> HIDE DEF s
<1>2. Len(s) <= Len(t) /\ \A i \in 1 .. Len(s) : s[i] = t[i]
  BY <1>1
<1>3. IsPrefix(s, t)
  BY <1>1, <1>2, PrefixByElements, Zenon
<1> QED
  BY <1>1, <1>3 DEF s

(* The parent of a node, and the parent of a directory's node. *)
LEMMA FrontFacts ==
    ASSUME NEW s \in Seq(Names)
    PROVE  /\ s # <<>> => Front(s) \in Seq(Names) /\ IsPrefix(Front(s), s)
           /\ Front(Append(s, Dot)) = s /\ Last(Append(s, Dot)) = Dot /\ Append(s, Dot) # <<>>
<1>1. ASSUME s # <<>> PROVE Front(s) \in Seq(Names) /\ IsPrefix(Front(s), s)
  <2>1. Len(s) \in Nat \ {0}
    BY <1>1
  <2>2. /\ Front(s) \in Seq(Names) /\ Len(Front(s)) = Len(s) - 1
        /\ \A i \in 1 .. Len(s) - 1 : Front(s)[i] = s[i]
    <3> DEFINE n == Len(s) - 1
               f == SubSeq(s, 1, n)
    <3>1. n \in Nat /\ \A i \in 1 .. n : s[i] \in Names
      BY <2>1
    <3>2. /\ f \in Seq(Names)
          /\ Len(f) = IF 1 <= n THEN n - 1 + 1 ELSE 0
          /\ \A i \in 1 .. n - 1 + 1 : f[i] = s[1 + i - 1]
      BY <3>1, SubSeqProperties
    <3>3. Front(s) = f
      BY DEF Front
    <3> HIDE DEF n, f
    <3>4. Len(f) = n /\ \A i \in 1 .. n : f[i] = s[i]
      BY <3>1, <3>2
    <3> QED
      BY <3>2, <3>3, <3>4 DEF n
  <2> QED
    BY <2>1, <2>2, PrefixByElements
<1>2. Front(Append(s, Dot)) = s /\ Last(Append(s, Dot)) = Dot /\ Append(s, Dot) # <<>>
  <2>1. Dot \in Names
    BY PathAssumption
  <2>2. Len(Append(s, Dot)) = Len(s) + 1 /\ Append(s, Dot) \in Seq(Names)
    BY <2>1
  <2>3. SubSeq(Append(s, Dot), 1, Len(s)) = s
    BY <2>1, SubSeqProperties, AppendProperties
  <2>4. Len(s) \in Nat /\ Len(s) + 1 - 1 = Len(s)
    OBVIOUS
  <2>5. Append(s, Dot)[Len(s) + 1] = Dot
    BY <2>1
  <2>6. Append(s, Dot) # <<>>
    BY <2>2, <2>4
  <2> QED
    BY <2>2, <2>3, <2>4, <2>5, <2>6, SMTT(30) DEF Front, Last
<1> QED
  BY <1>1, <1>2
-----------------------------------------------------------------------------
(* The tree only grows, and with every node it has the way to it; so a walk *)
(* that breaks off proves that its query had no node, and no callback, when *)
(* it began.                                                                *)

(* The nodes of main's and the workers' walks. *)
TreeInv ==
    /\ nodes \subseteq Seq(Names) /\ <<>> \in nodes
    /\ \A n \in nodes : \A p \in Seq(Names) : IsPrefix(p, n) => p \in nodes
    /\ data \subseteq nodes
    /\ pending \subseteq Routes
    /\ route \in Seq(Names)
    /\ reg # NoNode => reg \in nodes /\ IsPrefix(reg, route)

(* What is known of a look-up. *)
LookupInv(w) ==
    /\ curr[w] \in nodes
    /\ query[w] \in Paths \cup {<<>>}
    /\ known[w] \subseteq data
    /\ at[w] # "idle" => IsPrefix(curr[w], query[w])
    /\ at[w] = "PARENT_PATH" => query[w] \notin known[w]
    /\ at[w] = "idle" /\ answer[w] # NoNode =>
           answer[w] = query[w] \/ isDirOf(answer[w], query[w])
    /\ at[w] = "idle" /\ query[w] \in known[w] => answer[w] = query[w]

LookupTypes ==
    /\ at \in [Workers -> {"idle", "EXACT", "PARENT_PATH"}]
    /\ query \in [Workers -> Seq(Names)] /\ curr \in [Workers -> Seq(Names)]
    /\ answer \in [Workers -> Seq(Names) \cup {NoNode}]
    /\ known \in [Workers -> SUBSET Seq(Names)]

DirInv == TreeInv /\ LookupTypes /\ \A w \in Workers : LookupInv(w)

(* The empty tree. *)
LEMMA InitDir == Init => DirInv
<1> SUFFICES ASSUME Init PROVE DirInv
  OBVIOUS
<1>1. TreeInv
  <2>1. <<>> \in Seq(Names)
    OBVIOUS
  <2>2. \A p \in Seq(Names) : IsPrefix(p, <<>>) => p = <<>>
    <3> DEFINE r == <<>>
    <3>1. r \in Seq(Names) /\ Len(r) = 0
      OBVIOUS
    <3> HIDE DEF r
    <3>2. ASSUME NEW p \in Seq(Names), IsPrefix(p, r) PROVE p = r
      <4>1. Len(p) <= Len(r) /\ (Len(p) = Len(r) => p = r)
        BY <3>1, <3>2, WholePrefix, Zenon
      <4> QED
        BY <3>1, <4>1, SMTT(30)
    <3> QED
      BY <3>2 DEF r
  <2> QED
    BY <2>1, <2>2, PathAssumption DEF Init, TreeInv
<1>2. LookupTypes
  BY DEF Init, LookupTypes
<1>3. ASSUME NEW w \in Workers PROVE LookupInv(w)
  BY DEF Init, LookupInv
<1> QED
  BY <1>1, <1>2, <1>3 DEF DirInv

(* A look-up is not disturbed by a tree that grows. *)
LEMMA GrowthKeepsLookups ==
    ASSUME DirInv, UNCHANGED lookup, nodes \subseteq nodes', data \subseteq data'
    PROVE  LookupTypes' /\ \A w \in Workers : LookupInv(w)'
<1>1. UNCHANGED <<at, query, curr, answer, known>>
  BY DEF lookup
<1>2. LookupTypes'
  BY <1>1 DEF DirInv, LookupTypes
<1>3. ASSUME NEW w \in Workers PROVE LookupInv(w)'
  BY <1>1 DEF DirInv, LookupInv
<1> QED
  BY <1>2, <1>3

(* main's registrations. *)
LEMMA RegistrationKeeps ==
    ASSUME DirInv, (\E p \in Routes : set_node(p)) \/ set_node_step \/ set_data
    PROVE  DirInv'
<1>0. NoNode \notin Seq(Names) /\ Routes \subseteq Seq(Names)
  BY PathAssumption
<1>1. ASSUME NEW p \in Routes, set_node(p) PROVE DirInv'
  <2>1. UNCHANGED <<nodes, data, lookup>> /\ pending' \subseteq pending /\ route' = p /\ reg' = <<>>
    BY <1>1 DEF set_node, tree
  <2>2. TreeInv'
    BY <1>0, <2>1, RootIsPrefix DEF DirInv, TreeInv
  <2> QED
    BY <2>1, <2>2, GrowthKeepsLookups DEF DirInv
<1>2. CASE set_node_step
  <2> DEFINE child == towards(reg, route)
  <2>1. /\ reg # NoNode /\ reg # route /\ reg' = child /\ nodes' = nodes \cup {child}
        /\ UNCHANGED <<data, pending, route, lookup>>
    BY <1>2 DEF set_node_step
  <2>2. reg \in Seq(Names) /\ route \in Seq(Names) /\ IsPrefix(reg, route) /\ reg \in nodes
    BY <2>1 DEF DirInv, TreeInv
  <2>3. /\ child \in Seq(Names) /\ Len(child) = Len(reg) + 1
        /\ \A i \in 1 .. Len(reg) : child[i] = reg[i]
        /\ IsPrefix(child, route)
    BY <2>1, <2>2, TowardsIsPrefix
  <2> HIDE DEF child
  <2>4. ASSUME NEW p \in Seq(Names), IsPrefix(p, child) PROVE p \in nodes'
    <3>1. Len(p) <= Len(child) /\ (\A i \in 1 .. Len(p) : p[i] = child[i])
          /\ (Len(p) = Len(child) => p = child)
      BY <2>3, <2>4, PrefixByElements, WholePrefix
    <3>2. CASE Len(p) = Len(child)
      BY <2>1, <3>1, <3>2
    <3>3. CASE Len(p) # Len(child)
      <4>1. Len(p) <= Len(reg) /\ \A i \in 1 .. Len(p) : p[i] = reg[i]
        BY <2>2, <2>3, <3>1, <3>3
      <4>2. IsPrefix(p, reg)
        BY <2>2, <4>1, PrefixByElements, SMTT(30)
      <4> QED
        BY <2>1, <2>2, <4>2 DEF DirInv, TreeInv
    <3> QED
      BY <3>2, <3>3
  <2>5. TreeInv'
    BY <2>1, <2>3, <2>4, SMTT(30) DEF DirInv, TreeInv
  <2> QED
    BY <2>1, <2>5, GrowthKeepsLookups DEF DirInv
<1>3. CASE set_data
  <2>1. reg = route /\ data' = data \cup {route} /\ reg' = NoNode
        /\ UNCHANGED <<nodes, pending, route, lookup>>
    BY <1>3 DEF set_data
  <2>2. route \in nodes
    BY <1>0, <2>1 DEF DirInv, TreeInv
  <2>3. TreeInv'
    BY <2>1, <2>2 DEF DirInv, TreeInv
  <2> QED
    BY <2>1, <2>3, GrowthKeepsLookups DEF DirInv
<1> QED
  BY <1>1, <1>2, <1>3

(* A step of one look-up is none of another's. *)
LEMMA OthersLookups ==
    ASSUME DirInv, NEW w \in Workers, NEW v \in Workers, v # w, UNCHANGED tree,
           /\ at'[v] = at[v] /\ query'[v] = query[v] /\ curr'[v] = curr[v]
           /\ answer'[v] = answer[v] /\ known'[v] = known[v]
    PROVE  LookupInv(v)'
  BY DEF DirInv, LookupInv, tree

(* A walk goes down one node of the tree. *)
LEMMA WalkKeeps ==
    ASSUME DirInv, NEW w \in Workers, find_match_step(w)
    PROVE  DirInv'
<1> DEFINE child == towards(curr[w], query[w])
<1>1. /\ at[w] # "idle" /\ curr[w] # query[w] /\ child \in nodes
      /\ curr' = [curr EXCEPT ![w] = child]
      /\ UNCHANGED <<tree, main, at, query, answer, known>>
  BY DEF find_match_step, hasNext
<1>2. LookupInv(w) /\ query[w] \in Seq(Names) /\ curr[w] \in Seq(Names)
  BY DEF DirInv, LookupTypes
<1>3. child \in Seq(Names) /\ IsPrefix(child, query[w])
  BY <1>1, <1>2, TowardsIsPrefix DEF LookupInv
<1> HIDE DEF child
<1>4. TreeInv' /\ LookupTypes'
  BY <1>1, <1>3, SMTT(30) DEF DirInv, TreeInv, LookupTypes, tree, main
<1>5. LookupInv(w)'
  <2>1. curr'[w] = child
    BY <1>1 DEF DirInv, LookupTypes
  <2> QED
    BY <1>1, <1>2, <1>3, <2>1, SMTT(30) DEF LookupInv, tree
<1>6. ASSUME NEW v \in Workers, v # w PROVE LookupInv(v)'
  <2>1. curr'[v] = curr[v]
    BY <1>1, <1>6 DEF DirInv, LookupTypes
  <2> QED
    BY <1>1, <1>6, <2>1, OthersLookups, SMTT(30)
<1> QED
  BY <1>4, <1>5, <1>6 DEF DirInv

(* A look-up begins, or turns from the exact match to the parent. *)
LEMMA BeginKeeps ==
    ASSUME DirInv, NEW w \in Workers, (\E q \in Paths : get_cb(w, q)) \/ find_match_none(w)
    PROVE  DirInv'
<1>1. ASSUME NEW q \in Paths, get_cb(w, q) PROVE DirInv'
  <2>1. /\ at' = [at EXCEPT ![w] = "EXACT"] /\ query' = [query EXCEPT ![w] = q]
        /\ curr' = [curr EXCEPT ![w] = <<>>] /\ answer' = [answer EXCEPT ![w] = NoNode]
        /\ known' = [known EXCEPT ![w] = data] /\ UNCHANGED <<tree, main>>
    BY <1>1 DEF get_cb
  <2>2. q \in Seq(Names) /\ <<>> \in Seq(Names) /\ IsPrefix(<<>>, q)
    BY PathAssumption, RootIsPrefix, SMTT(30)
  <2>3. TreeInv'
    BY <2>1 DEF DirInv, TreeInv, tree, main
  <2>4. LookupTypes'
    <3>1. data \in SUBSET Seq(Names)
      BY DEF DirInv, TreeInv
    <3> QED
      BY <2>1, <2>2, <3>1, SMTT(30) DEF DirInv, LookupTypes
  <2>5. LookupInv(w)'
    <3>1. at'[w] = "EXACT" /\ query'[w] = q /\ curr'[w] = <<>> /\ known'[w] = data
      BY <2>1 DEF DirInv, LookupTypes
    <3> QED
      BY <2>1, <2>2, <3>1 DEF DirInv, TreeInv, LookupInv, tree
  <2>6. ASSUME NEW v \in Workers, v # w PROVE LookupInv(v)'
    BY <2>1, <2>6, OthersLookups DEF DirInv, LookupTypes
  <2> QED
    BY <2>3, <2>4, <2>5, <2>6 DEF DirInv
<1>2. CASE find_match_none(w)
  <2> DEFINE child == towards(curr[w], query[w])
  <2>1. /\ at[w] = "EXACT" /\ curr[w] # query[w] /\ child \notin nodes
        /\ at' = [at EXCEPT ![w] = "PARENT_PATH"] /\ curr' = [curr EXCEPT ![w] = <<>>]
        /\ UNCHANGED <<tree, main, query, answer, known>>
    BY <1>2 DEF find_match_none, hasNext
  <2>2. LookupInv(w) /\ query[w] \in Seq(Names) /\ curr[w] \in Seq(Names)
    BY DEF DirInv, LookupTypes
  <2>3. child \in Seq(Names) /\ IsPrefix(child, query[w])
    BY <2>1, <2>2, TowardsIsPrefix, SMTT(30) DEF LookupInv
  <2> HIDE DEF child
  <2>4. query[w] \notin known[w]
    <3>1. query[w] \notin nodes
      BY <2>1, <2>3 DEF DirInv, TreeInv
    <3> QED
      BY <2>2, <3>1, SMTT(30) DEF DirInv, TreeInv, LookupInv
  <2>5. <<>> \in Seq(Names) /\ IsPrefix(<<>>, query[w])
    BY <2>2, RootIsPrefix
  <2>6. TreeInv' /\ LookupTypes'
    BY <2>1, <2>5, SMTT(30) DEF DirInv, TreeInv, LookupTypes, tree, main
  <2>7. LookupInv(w)'
    <3>1. at'[w] = "PARENT_PATH" /\ curr'[w] = <<>>
      BY <2>1 DEF DirInv, LookupTypes
    <3> QED
      BY <2>1, <2>2, <2>4, <2>5, <3>1, SMTT(30) DEF DirInv, TreeInv, LookupInv, tree
  <2>8. ASSUME NEW v \in Workers, v # w PROVE LookupInv(v)'
    BY <2>1, <2>8, OthersLookups, SMTT(30) DEF DirInv, LookupTypes
  <2> QED
    BY <2>6, <2>7, <2>8 DEF DirInv
<1> QED
  BY <1>1, <1>2

(* A look-up ends: it answers with the node of the query itself, or with a  *)
(* directory's.                                                             *)
LEMMA EndKeeps ==
    ASSUME DirInv, NEW w \in Workers, find_match_path(w) \/ find_match_parent(w)
    PROVE  DirInv'
<1> DEFINE n == answer'[w]
<1>0. NoNode \notin Seq(Names) /\ data \subseteq Seq(Names)
  BY PathAssumption DEF DirInv, TreeInv
<1>1. PICK m : /\ answer' = [answer EXCEPT ![w] = IF m \in data THEN m ELSE NoNode]
               /\ at' = [at EXCEPT ![w] = "idle"]
               /\ UNCHANGED <<tree, main, query, curr, known>>
               /\ \/ at[w] # "idle" /\ curr[w] = query[w] /\ m = query[w]
                  \/ /\ at[w] = "PARENT_PATH" /\ curr[w] # query[w]
                     /\ m \in {Append(curr[w], Dot), NoNode}
  BY ZenonT(60) DEF find_match_path, find_match_parent, found
<1>2. LookupInv(w) /\ query[w] \in Seq(Names) /\ curr[w] \in Seq(Names)
  BY DEF DirInv, LookupTypes
<1>3. at'[w] = "idle" /\ n = IF m \in data THEN m ELSE NoNode
  BY <1>1 DEF DirInv, LookupTypes
<1>4. TreeInv' /\ LookupTypes'
  BY <1>0, <1>1 DEF DirInv, TreeInv, LookupTypes, tree, main
<1>5. LookupInv(w)'
  <2>1. ASSUME n # NoNode PROVE n = query[w] \/ isDirOf(n, query[w])
    <3>1. n = m /\ m # NoNode
      BY <1>3, <2>1, SMTT(30)
    <3>2. CASE m = Append(curr[w], Dot) /\ curr[w] # query[w] /\ at[w] = "PARENT_PATH"
      BY <1>2, <3>1, <3>2, FrontFacts, ZenonT(60) DEF isDirOf, IsStrictPrefix, LookupInv
    <3> QED
      BY <1>1, <3>1, <3>2
  <2>2. query[w] \in known[w] => n = query[w]
    BY <1>1, <1>2, <1>3 DEF LookupInv
  <2> QED
    BY <1>1, <1>2, <1>3, <2>1, <2>2, SMTT(30) DEF LookupInv, tree
<1>6. ASSUME NEW v \in Workers, v # w PROVE LookupInv(v)'
  BY <1>1, <1>6, OthersLookups DEF DirInv, LookupTypes
<1> QED
  BY <1>4, <1>5, <1>6 DEF DirInv

(* Every step of main and of the workers keeps the invariant. *)
LEMMA NextDir == DirInv /\ [Next]_vars => DirInv'
<1>1. ASSUME DirInv, UNCHANGED vars PROVE DirInv'
  BY <1>1 DEF vars, DirInv, TreeInv, LookupTypes, LookupInv
<1> QED
  BY <1>1, RegistrationKeeps, WalkKeeps, BeginKeeps, EndKeeps, SMTT(30) DEF Next

(* Every node of the tree is reached from the root, whatever is registered  *)
(* and looked up meanwhile.                                                 *)
THEOREM TreeIsConnected == Spec => []TypeOK
<1>1. DirInv => TypeOK
  <2>1. ASSUME DirInv, NEW n \in nodes, n # <<>> PROVE Front(n) \in nodes
    BY <2>1, FrontFacts, SMTT(30) DEF DirInv, TreeInv
  <2> QED
    BY <2>1 DEF DirInv, TreeInv, LookupTypes, LookupInv, TypeOK
<1> QED
  BY <1>1, InitDir, NextDir, PTL DEF Spec

(* Whatever main registers during a look-up, a request is only handled by a *)
(* callback for its own URI or for a directory that contains it.            *)
THEOREM CallbacksAreForTheirPath == Spec => []CallbackIsForPath
<1>1. DirInv => CallbackIsForPath
  BY SMTT(30) DEF DirInv, LookupInv, CallbackIsForPath
<1> QED
  BY <1>1, InitDir, NextDir, PTL DEF Spec

(* A callback that was registered before a look-up of its URI began is the  *)
(* one that the look-up finds.                                              *)
THEOREM RegisteredAreFound == Spec => []RegisteredIsFound
<1>1. DirInv => RegisteredIsFound
  BY DEF DirInv, LookupInv, RegisteredIsFound
<1> QED
  BY <1>1, InitDir, NextDir, PTL DEF Spec
=============================================================================
