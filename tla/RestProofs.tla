------------------------------- MODULE RestProofs ------------------------------
(***************************************************************************)
(* Proofs about the REST server, for any application: any resources, any   *)
(* connections, any requests and any bound on the ids.                     *)
(***************************************************************************)
EXTENDS RestServer, FoldProofs, SequenceTheorems

--------------------------------------------------------------------------------
(* The content manager's graph.                                            *)

\* The manager is a record of its three members.
IsManager(m) == m \in [objMap : {m.objMap}, edges : {m.edges}, nextID : {m.nextID}]

\* RelationshipsJoinObjects, of a manager m.
Joined(m) == IsManager(m) /\ \A e \in m.edges : e.ends \subseteq DOMAIN m.objMap

\* The manager starts as a record.
LEMMA ManagerInitJoined == Joined(ManagerInit)
  BY DEF Joined, IsManager, ManagerInit

\* Each method of the manager keeps the graph over the objects that exist.
LEMMA MethodsJoin ==
    ASSUME NEW m, Joined(m), NEW type, NEW prefix, NEW n, NEW o, NEW id, NEW fields,
           NEW rel, NEW parent, NEW child
    PROVE  /\ Joined(clear(m))
           /\ Joined(addObj(m, type, id, o))
           /\ Joined(createObj(m, type, prefix, n, o))
           /\ Joined(updateObj(m, id, fields))
           /\ Joined(deleteObjByID(m, id))
           /\ Joined(addRelationship(m, rel, parent, child))
  <1>1. Joined(clear(m))
    BY DEF clear, ManagerInit, Joined, IsManager
  <1>2. ASSUME NEW q, Joined(q), NEW x
        PROVE  Joined(addObj(q, type, x, o))
    <2>1. CASE o = "NULL"
      BY <1>2, <2>1 DEF addObj
    <2>2. CASE o # "NULL"
      BY <1>2, <2>2 DEF addObj, Joined, IsManager
    <2>. QED  BY <2>1, <2>2
  <1>3. Joined(createObj(m, type, prefix, n, o))
    <2>1. Joined([m EXCEPT !.nextID = n])
      BY DEF Joined, IsManager
    <2>. QED  BY <2>1, <1>2 DEF createObj
  <1>4. Joined(updateObj(m, id, fields))
    BY DEF updateObj, Joined, IsManager
  <1>5. Joined(deleteObjByID(m, id))
    BY DEF deleteObjByID, EdgesOf, Restrict, Joined, IsManager
  <1>6. Joined(addRelationship(m, rel, parent, child))
    BY DEF addRelationship, Joined, IsManager
  <1>. QED  BY <1>1, <1>2, <1>3, <1>4, <1>5, <1>6

\* Only a creation moves nextID, and it moves it to the number it found.
LEMMA MethodsCount ==
    ASSUME NEW m, Joined(m), NEW type, NEW prefix, NEW n, NEW o, NEW id, NEW fields,
           NEW rel, NEW parent, NEW child
    PROVE  /\ clear(m).nextID = m.nextID
           /\ createObj(m, type, prefix, n, o).nextID = n
           /\ updateObj(m, id, fields).nextID = m.nextID
           /\ deleteObjByID(m, id).nextID = m.nextID
           /\ addRelationship(m, rel, parent, child).nextID = m.nextID
  <1>1. clear(m).nextID = m.nextID
    BY DEF clear, ManagerInit, Joined, IsManager
  <1>2. createObj(m, type, prefix, n, o).nextID = n
    BY DEF createObj, addObj, Joined, IsManager
  <1>3. updateObj(m, id, fields).nextID = m.nextID
    BY DEF updateObj, Joined, IsManager
  <1>4. deleteObjByID(m, id).nextID = m.nextID
    BY DEF deleteObjByID, Joined, IsManager
  <1>5. addRelationship(m, rel, parent, child).nextID = m.nextID
    BY DEF addRelationship, Joined, IsManager
  <1>. QED  BY <1>1, <1>2, <1>3, <1>4, <1>5

\* The three calls of a POST, taken together.
LEMMA CreateInJoins ==
    ASSUME NEW m, Joined(m), NEW r, NEW parent, NEW fields, NEW n, NEW o
    PROVE  /\ Joined(CreateIn(m, r, parent, fields, n, o))
           /\ CreateIn(m, r, parent, fields, n, o).nextID = n
  <1> DEFINE id == IDString(r.prefix, n)
             a == createObj(m, r.objType, r.prefix, n, o)
             b == updateObj(a, id, fields)
             d == addRelationship(b, r.list, parent, id)
  <1>1. Joined(a) /\ a.nextID = n
    BY MethodsJoin, MethodsCount
  <1>2. Joined(b) /\ b.nextID = n
    <2>. HIDE DEF a
    <2>. QED  BY <1>1, MethodsJoin, MethodsCount
  <1>3. Joined(d) /\ d.nextID = n
    <2>. HIDE DEF b
    <2>. QED  BY <1>2, MethodsJoin, MethodsCount
  <1>. QED  BY <1>3 DEF CreateIn

\* Wherever a POST stops, its number is used up.
LEMMA PostWaysJoin ==
    ASSUME NEW m, Joined(m), NEW r, NEW parent, NEW fields, NEW n,
           NEW w \in PostWays(m, r, parent, fields, n)
    PROVE  Joined(w.cm) /\ w.cm.nextID = n
  <1> DEFINE Created(o) == createObj(m, r.objType, r.prefix, n, o)
             Whole(o)   == CreateIn(m, r, parent, fields, n, o)
             id         == IDString(r.prefix, n)
  <1>1. \A o : /\ Joined(Created(o)) /\ Created(o).nextID = n
               /\ Joined(Whole(o)) /\ Whole(o).nextID = n
    BY MethodsJoin, MethodsCount, CreateInJoins
  <1>2. \/ \E o : w.cm = Created(o) \/ w.cm = Whole(o)
        \/ w.cm = updateObj(Created("object"), id, fields)
    BY DEF PostWays, Half, Way
  <1>3. ASSUME NEW o, w.cm = Created(o) \/ w.cm = Whole(o)
        PROVE  Joined(w.cm) /\ w.cm.nextID = n
    <2>. HIDE DEF Created, Whole
    <2>. QED  BY <1>1, <1>3
  <1>4. CASE w.cm = updateObj(Created("object"), id, fields)
    <2>1. PICK x : x = Created("object")
      OBVIOUS
    <2>2. Joined(x) /\ x.nextID = n /\ w.cm = updateObj(x, id, fields)
      BY <1>1, <1>4, <2>1
    <2>. QED  BY <2>2, MethodsJoin, MethodsCount
  <1>. QED  BY <1>2, <1>3, <1>4

LEMMA PutWaysJoin ==
    ASSUME NEW m, Joined(m), NEW id, NEW fields, NEW w \in PutWays(m, id, fields)
    PROVE  Joined(w.cm) /\ w.cm.nextID = m.nextID
  <1>1. w.cm = m \/ w.cm = updateObj(m, id, fields)
    BY DEF PutWays, Half, Way
  <1>. QED  BY <1>1, MethodsJoin, MethodsCount

LEMMA DeleteWaysJoin ==
    ASSUME NEW m, Joined(m), NEW id, NEW w \in DeleteWays(m, id)
    PROVE  /\ w.cm = deleteObjByID(m, id) /\ w.failed \in {"none", "notifyCfgChange"}
           /\ Joined(w.cm) /\ w.cm.nextID = m.nextID
  <1>1. w.cm = deleteObjByID(m, id) /\ w.failed \in {"none", "notifyCfgChange"}
    BY DEF DeleteWays, Way
  <1>. QED  BY <1>1, MethodsJoin, MethodsCount

\* What an update and a deletion do to the graph.
LEMMA UpdateRelates ==
    ASSUME NEW m, Joined(m), NEW id, NEW fields
    PROVE  /\ updateObj(m, id, fields).edges = m.edges
           /\ DOMAIN updateObj(m, id, fields).objMap = DOMAIN m.objMap
           /\ Joined(updateObj(m, id, fields))
  BY MethodsJoin DEF updateObj, Joined, IsManager

LEMMA PutWaysRelate ==
    ASSUME NEW m, Joined(m), NEW id, NEW fields, NEW w \in PutWays(m, id, fields)
    PROVE  w.cm.edges = m.edges /\ DOMAIN w.cm.objMap = DOMAIN m.objMap
  <1>1. w.cm = m \/ w.cm = updateObj(m, id, fields)
    BY DEF PutWays, Half, Way
  <1>. QED  BY <1>1, UpdateRelates

LEMMA DeletionRelates ==
    ASSUME NEW m, Joined(m), NEW id
    PROVE  /\ deleteObjByID(m, id).edges \subseteq m.edges
           /\ \A e \in m.edges : id \notin e.ends => e \in deleteObjByID(m, id).edges
           /\ \A x \in DOMAIN m.objMap \ {id} : x \in DOMAIN deleteObjByID(m, id).objMap
  BY DEF deleteObjByID, EdgesOf, Restrict, Joined, IsManager

\* A creation that makes its object relates it to the parent; one that does not, to
\* nothing: a is the manager with the object, d that with the relationship.
Related(m, r, parent, n, o, a, d) ==
    LET id  == IDString(r.prefix, n)
        new == [rel |-> r.list, ends |-> {parent, id}]
    IN  /\ Joined(a) /\ a.edges = m.edges /\ DOMAIN d.objMap = DOMAIN a.objMap
        /\ o = "object" => DOMAIN a.objMap = DOMAIN m.objMap \cup {id}
        /\ o = "NULL" => DOMAIN a.objMap = DOMAIN m.objMap
        /\ d.edges = IF {parent, id} \subseteq DOMAIN d.objMap THEN m.edges \cup {new}
                                                           ELSE m.edges

LEMMA CreationRelates ==
    ASSUME NEW m, Joined(m), NEW r, NEW n, NEW fields, NEW parent, NEW o \in NewObjects
    PROVE  Related(m, r, parent, n, o, createObj(m, r.objType, r.prefix, n, o),
                   CreateIn(m, r, parent, fields, n, o))
  <1> DEFINE id == IDString(r.prefix, n)
             a == createObj(m, r.objType, r.prefix, n, o)
             b == updateObj(a, id, fields)
             d == addRelationship(b, r.list, parent, id)
             new == [rel |-> r.list, ends |-> {parent, id}]
  <1>1. /\ Joined(a) /\ a.edges = m.edges
        /\ o = "object" => DOMAIN a.objMap = DOMAIN m.objMap \cup {id}
        /\ o = "NULL" => DOMAIN a.objMap = DOMAIN m.objMap
    <2>1. Joined(a)
      BY MethodsJoin
    <2>2. CASE o = "object"
      BY <2>1, <2>2 DEF createObj, addObj, Joined, IsManager
    <2>3. CASE o = "NULL"
      BY <2>1, <2>3 DEF createObj, addObj, Joined, IsManager
    <2>. QED  BY <2>2, <2>3 DEF NewObjects
  <1>2. Joined(b) /\ b.edges = m.edges /\ DOMAIN b.objMap = DOMAIN a.objMap
    <2>. HIDE DEF a, id
    <2>. QED  BY <1>1, UpdateRelates
  <1>3. /\ Joined(d) /\ DOMAIN d.objMap = DOMAIN b.objMap
        /\ d.edges = IF {parent, id} \subseteq DOMAIN d.objMap THEN m.edges \cup {new}
                                                           ELSE m.edges
    <2>. HIDE DEF b, id
    <2>1. Joined(d)
      BY <1>2, MethodsJoin
    <2>2. CASE {parent, id} \subseteq DOMAIN b.objMap
      BY <1>2, <2>1, <2>2 DEF addRelationship, Joined, IsManager
    <2>3. CASE ~({parent, id} \subseteq DOMAIN b.objMap)
      BY <1>2, <2>1, <2>3 DEF addRelationship, Joined, IsManager
    <2>. QED  BY <2>1, <2>2, <2>3
  <1>4. CreateIn(m, r, parent, fields, n, o) = d
    BY DEF CreateIn
  <1>. HIDE DEF a, b, d, id
  <1>5. Related(m, r, parent, n, o, a, d)
    BY <1>1, <1>2, <1>3 DEF Related, id
  <1>. QED  BY <1>4, <1>5 DEF a

\* No way of a POST loses an object, and the graph grows by the new relationship at
\* most: when the object was made and its fields were taken over.
PostRelates(m, r, parent, n, w) ==
    LET id  == IDString(r.prefix, n)
        new == [rel |-> r.list, ends |-> {parent, id}]
    IN  /\ w.failed \in Fallible \cup {"none"}
        /\ DOMAIN m.objMap \subseteq DOMAIN w.cm.objMap
        /\ w.cm.edges = m.edges \/ w.cm.edges = m.edges \cup {new}
        /\ w.failed \notin {"none", "NULL", "notifyCfgChange"} => w.cm.edges = m.edges
        /\ (w.failed = "none" /\ parent \in DOMAIN m.objMap) =>
                w.cm.edges = m.edges \cup {new} /\ id \in DOMAIN w.cm.objMap
        /\ (w.failed = "NULL" /\ id \notin DOMAIN m.objMap) => id \notin DOMAIN w.cm.objMap

LEMMA PostWaysRelate ==
    ASSUME NEW m, Joined(m), NEW r, NEW n, NEW fields, NEW parent,
           NEW w \in PostWays(m, r, parent, fields, n)
    PROVE  PostRelates(m, r, parent, n, w)
  <1> DEFINE id == IDString(r.prefix, n)
             Created(o) == createObj(m, r.objType, r.prefix, n, o)
             Whole(o)   == CreateIn(m, r, parent, fields, n, o)
             new == [rel |-> r.list, ends |-> {parent, id}]
  <1>1. \A o \in NewObjects :
            /\ Joined(Created(o)) /\ Created(o).edges = m.edges
            /\ DOMAIN Whole(o).objMap = DOMAIN Created(o).objMap
            /\ o = "object" => DOMAIN Created(o).objMap = DOMAIN m.objMap \cup {id}
            /\ o = "NULL" => DOMAIN Created(o).objMap = DOMAIN m.objMap
            /\ Whole(o).edges = IF {parent, id} \subseteq DOMAIN Whole(o).objMap
                                THEN m.edges \cup {new} ELSE m.edges
    <2>. TAKE o \in NewObjects
    <2>1. Related(m, r, parent, n, o, Created(o), Whole(o))
      BY CreationRelates
    <2>. HIDE DEF Created, Whole
    <2>. QED  BY <2>1 DEF Related
  <1>2. \/ w.failed = "none" /\ w.cm = Whole("object")
        \/ w.failed = "NULL" /\ w.cm = Whole("NULL")
        \/ w.failed = "newObject" /\ w.cm = Created("NULL")
        \/ /\ w.failed = "setFieldsFromContentNode"
           /\ w.cm = Created("object") \/ w.cm = updateObj(Created("object"), id, fields)
        \/ w.failed = "notifyCfgChange" /\ \E o \in NewObjects : w.cm = Whole(o)
    BY DEF PostWays, Half, Way
  <1>3. "object" \in NewObjects /\ "NULL" \in NewObjects
    BY DEF NewObjects
  <1>. HIDE DEF Created, Whole, id
  <1>4. CASE w.failed = "none" /\ w.cm = Whole("object")
    BY <1>1, <1>3, <1>4 DEF PostRelates, Fallible, id
  <1>5. CASE w.failed = "NULL" /\ w.cm = Whole("NULL")
    BY <1>1, <1>3, <1>5 DEF PostRelates, Fallible, id
  <1>6. CASE w.failed = "newObject" /\ w.cm = Created("NULL")
    BY <1>1, <1>3, <1>6 DEF PostRelates, Fallible, id
  <1>7. CASE /\ w.failed = "setFieldsFromContentNode"
             /\ w.cm = Created("object") \/ w.cm = updateObj(Created("object"), id, fields)
    <2>1. w.cm.edges = m.edges /\ DOMAIN w.cm.objMap = DOMAIN m.objMap \cup {id}
      BY <1>1, <1>3, <1>7, UpdateRelates
    <2>. QED  BY <1>7, <2>1 DEF PostRelates, Fallible
  <1>8. ASSUME NEW o \in NewObjects, w.failed = "notifyCfgChange", w.cm = Whole(o)
        PROVE  PostRelates(m, r, parent, n, w)
    <2>1. DOMAIN m.objMap \subseteq DOMAIN w.cm.objMap
      BY <1>1, <1>8 DEF NewObjects
    <2>2. w.cm.edges = m.edges \/ w.cm.edges = m.edges \cup {new}
      BY <1>1, <1>8
    <2>. QED  BY <1>8, <2>1, <2>2 DEF PostRelates, Fallible, id
  <1>. QED  BY <1>2, <1>4, <1>5, <1>6, <1>7, <1>8

--------------------------------------------------------------------------------
(* The list of resources.                                                  *)

\* resourceSortFunc orders by length, then by wildcard: not preceding is transitive,
\* and of two resources at most one precedes the other.
LEMMA SortIsOrder ==
    ASSUME NEW a \in Resources, NEW b \in Resources, NEW d \in Resources
    PROVE  /\ getMatchCount(a) \in Nat
           /\ resourceSortFunc(a, b) => ~resourceSortFunc(b, a)
           /\ (~resourceSortFunc(a, b) /\ ~resourceSortFunc(b, d)) => ~resourceSortFunc(a, d)
  <1>1. \A r \in Resources : getMatchCount(r) \in Nat
    BY ResourcesAssumption, LenProperties DEF getMatchCount
  <1>2. getMatchCount(a) \in Nat /\ getMatchCount(b) \in Nat /\ getMatchCount(d) \in Nat
    BY <1>1
  <1>. QED  BY <1>2 DEF resourceSortFunc

\* No resource in the list precedes one that is tried before it.
Sorted(list) ==
    \A i, j \in 1..Len(list) : i < j => ~resourceSortFunc(list[j], list[i])

\* A resource is registered behind the last one it does not precede, which keeps
\* the list sorted.
LEMMA RegisterKeepsSorted ==
    ASSUME NEW list \in Seq(Resources), Sorted(list), NEW r \in Resources
    PROVE  /\ registerResource(list, r) \in Seq(Resources)
           /\ Sorted(registerResource(list, r))
  <1> DEFINE before == {i \in DOMAIN list : ~resourceSortFunc(r, list[i])}
             k == IF before = {} THEN 1 ELSE Max(before) + 1
             n == Len(list)
             out == InsertAt(list, k, r)
  <1>1. n \in Nat /\ DOMAIN list = 1..n /\ \A i \in 1..n : list[i] \in Resources
    BY LenProperties, ElementOfSeq
  <1>2. before # {} => Max(before) \in before /\ \A y \in before : y <= Max(before)
    <2>1. before \in SUBSET (1..n)
      BY <1>1
    <2>. HIDE DEF before
    <2>. QED  BY <1>1, <2>1, MaxOfPositions
  <1>3. k \in 1..(n + 1)
    BY <1>1, <1>2
  <1>4. \A i \in 1..(k - 1) : ~resourceSortFunc(r, list[i])
    <2> SUFFICES ASSUME NEW i \in 1..(k - 1) PROVE ~resourceSortFunc(r, list[i])
      OBVIOUS
    <2>1. before # {} /\ k = Max(before) + 1
      BY <1>3
    <2> DEFINE m == Max(before)
    <2>2. m \in 1..n /\ ~resourceSortFunc(r, list[m])
      BY <2>1, <1>2, <1>1
    <2>3. i \in 1..n /\ i <= m
      BY <2>1, <2>2
    <2>4. CASE i = m
      BY <2>4, <2>2
    <2>5. CASE i < m
      <3>1. ~resourceSortFunc(list[m], list[i])
        BY <2>5, <2>2, <2>3 DEF Sorted
      <3>2. list[m] \in Resources /\ list[i] \in Resources
        BY <1>1, <2>2, <2>3
      <3>. QED  BY <3>1, <3>2, <2>2, SortIsOrder
    <2>. QED  BY <2>3, <2>2, <2>4, <2>5
  <1>5. \A j \in k..n : ~resourceSortFunc(list[j], r)
    <2> SUFFICES ASSUME NEW j \in k..n PROVE ~resourceSortFunc(list[j], r)
      OBVIOUS
    <2>1. j \in 1..n /\ list[j] \in Resources
      BY <1>1, <1>3
    <2>2. j \notin before
      <3>1. SUFFICES ASSUME j \in before PROVE FALSE
        OBVIOUS
      <3>2. before # {} /\ j <= Max(before) /\ Max(before) \in 1..n
        BY <3>1, <1>1, <1>2
      <3>3. k = Max(before) + 1
        BY <3>2
      <3>. HIDE DEF before, k
      <3>. QED  BY <3>2, <3>3, <2>1
    <2>3. resourceSortFunc(r, list[j])
      BY <2>1, <2>2, <1>1
    <2>. QED  BY <2>1, <2>3, SortIsOrder
  <1>6. /\ out \in Seq(Resources)
        /\ Len(out) = n + 1
        /\ \A i \in 1..(n + 1) : out[i] = IF i < k THEN list[i]
                                          ELSE IF i = k THEN r ELSE list[i - 1]
    <2>. HIDE DEF k
    <2> DEFINE s == SubSeq(list, 1, k - 1)
               t == SubSeq(list, k, n)
    <2>1. /\ s \in Seq(Resources) /\ Len(s) = k - 1
          /\ \A i \in 1..(k - 1) : s[i] = list[i]
      BY <1>1, <1>3, SubSeqProperties
    <2>2. /\ t \in Seq(Resources) /\ Len(t) = n - k + 1
          /\ \A i \in 1..(n - k + 1) : t[i] = list[k + i - 1]
      BY <1>1, <1>3, SubSeqProperties
    <2>3. <<r>> \in Seq(Resources) /\ Len(<<r>>) = 1 /\ <<r>>[1] = r
      OBVIOUS
    <2>. HIDE DEF s, t
    <2> DEFINE u == s \o <<r>>
    <2>4. /\ u \in Seq(Resources) /\ Len(u) = k
          /\ \A i \in 1..k : u[i] = IF i < k THEN list[i] ELSE r
      BY <2>1, <2>3, <1>3, ConcatProperties
    <2>. HIDE DEF u
    <2>5. /\ u \o t \in Seq(Resources) /\ Len(u \o t) = n + 1
          /\ \A i \in 1..(n + 1) : (u \o t)[i] = IF i <= k THEN u[i] ELSE t[i - k]
      BY <2>2, <2>4, <1>1, <1>3, ConcatProperties
    <2>6. out = u \o t
      BY DEF InsertAt, u, s, t
    <2>7. ASSUME NEW i \in 1..(n + 1)
          PROVE  out[i] = IF i < k THEN list[i] ELSE IF i = k THEN r ELSE list[i - 1]
      <3>1. CASE i <= k
        BY <3>1, <2>4, <2>5, <2>6, <1>1, <1>3
      <3>2. CASE i > k
        <4>1. i - k \in 1..(n - k + 1) /\ k + (i - k) - 1 = i - 1
          BY <3>2, <1>1, <1>3
        <4>. QED  BY <3>2, <4>1, <2>2, <2>5, <2>6, <1>1, <1>3
      <3>. QED  BY <3>1, <3>2, <1>3, <1>1
    <2>. QED  BY <2>5, <2>6, <2>7
  <1>7. registerResource(list, r) = out
    BY DEF registerResource
  <1>8. Sorted(out)
    <2>. HIDE DEF out, k
    <2> SUFFICES ASSUME NEW i \in 1..(n + 1), NEW j \in 1..(n + 1), i < j
                 PROVE  ~resourceSortFunc(out[j], out[i])
      BY <1>6 DEF Sorted
    <2>1. CASE j < k
      BY <2>1, <1>6, <1>1, <1>3 DEF Sorted
    <2>2. CASE j = k
      BY <2>2, <1>6, <1>1, <1>3, <1>4
    <2>3. CASE j > k /\ i < k
      <3>1. j - 1 \in 1..n /\ i \in 1..n /\ i < j - 1
        BY <2>3, <1>1, <1>3
      <3>. QED  BY <2>3, <3>1, <1>6, <1>1, <1>3 DEF Sorted
    <2>4. CASE j > k /\ i = k
      <3>1. j - 1 \in k..n
        BY <2>4, <1>1, <1>3
      <3>. QED  BY <2>4, <3>1, <1>5, <1>6, <1>1, <1>3
    <2>5. CASE j > k /\ i > k
      <3>1. j - 1 \in 1..n /\ i - 1 \in 1..n /\ i - 1 < j - 1
        BY <2>5, <1>1, <1>3
      <3>. QED  BY <2>5, <3>1, <1>6, <1>1, <1>3 DEF Sorted
    <2>. QED  BY <2>1, <2>2, <2>3, <2>4, <2>5, <1>3, <1>1
  <1>. QED  BY <1>6, <1>7, <1>8

\* Whether a request for method and url belongs to l among the resources: no resource
\* that accepts it has a longer pattern, or one as long without l's wildcard.
Best(l, method, url) ==
    /\ l \in Resources
    /\ \A r \in Resources :
        Accepts(r, method, url) =>
            /\ getMatchCount(r) <= getMatchCount(l)
            /\ (getMatchCount(r) = getMatchCount(l) /\ hasWildcardMatch(l))
                 => hasWildcardMatch(r)

\* The scan of a sorted list of all resources ends at the best one.
LEMMA ScanFindsBest ==
    ASSUME NEW list \in Seq(Resources), Sorted(list), Range(list) = Resources,
           NEW method, NEW url, Scan(list, method, url).found
    PROVE  Best(Scan(list, method, url).link[1], method, url)
  <1> DEFINE hits == Linkable(list, method, url)
             n == Len(list)
             m == Min(hits)
  <1>1. n \in Nat /\ DOMAIN list = 1..n /\ \A i \in 1..n : list[i] \in Resources
    BY LenProperties, ElementOfSeq
  <1>2. hits # {} /\ hits \in SUBSET Nat
    <2>1. hits \subseteq 1..n
      BY <1>1 DEF Linkable
    <2>2. hits # {}
      BY Zenon DEF Scan
    <2>3. 1..n \subseteq Nat
      BY <1>1
    <2>. HIDE DEF hits, n
    <2>. QED  BY <2>1, <2>2, <2>3
  <1>3. m \in hits /\ \A j \in hits : m <= j
    <2>. HIDE DEF hits
    <2>. QED  BY <1>2, MinOfNaturals
  <1>4. m \in 1..n /\ list[m] \in Resources
    BY <1>1, <1>3 DEF Linkable
  <1>5. Scan(list, method, url).link[1] = list[m]
    BY <1>2 DEF Scan
  <1>6. ASSUME NEW r \in Resources, Accepts(r, method, url)
        PROVE  /\ getMatchCount(r) <= getMatchCount(list[m])
               /\ (getMatchCount(r) = getMatchCount(list[m]) /\ hasWildcardMatch(list[m]))
                    => hasWildcardMatch(r)
    <2>1. PICK j \in 1..n : list[j] = r
      BY <1>1 DEF Range
    <2>2. j \in hits /\ m <= j
      BY <1>1, <1>3, <1>6, <2>1 DEF Linkable
    <2>3. ~resourceSortFunc(list[j], list[m])
      <3>1. CASE j = m
        BY <3>1, <1>4, SortIsOrder
      <3>2. CASE m < j
        <4>. HIDE DEF m
        <4>. QED  BY <3>2, <1>4, <2>1 DEF Sorted
      <3>. QED  BY <3>1, <3>2, <2>2, <1>4, <1>1
    <2>4. getMatchCount(r) \in Nat /\ getMatchCount(list[m]) \in Nat
      BY <1>4, SortIsOrder
    <2>. HIDE DEF m
    <2>. QED  BY <2>1, <2>3, <2>4 DEF resourceSortFunc
  <1>. HIDE DEF m
  <1>. QED  BY <1>4, <1>5, <1>6 DEF Best

--------------------------------------------------------------------------------
(* The parameters of a request.                                            *)

\* Each parameter is the element of the URL where some resource's pattern has it, and
\* the walk over that pattern had got so far.
Followed(p, url) ==
    \A n \in DOMAIN p : \E r \in Resources : \E i \in Params(r) :
        /\ r.elems[i].name = n /\ i \in 1..Len(url) /\ p[n] = url[i]
        /\ \A k \in Mismatches(r, url) : i < k

Parameters(url) == {p \in UNION {[D -> Names] : D \in SUBSET Names} : Followed(p, url)}

\* The elements of a pattern.
LEMMA PatternElements ==
    ASSUME NEW r \in Resources
    PROVE  /\ Len(r.elems) \in Nat /\ DOMAIN r.elems = 1..Len(r.elems)
           /\ \A i \in 1..Len(r.elems) : r.elems[i].name \in Names
  <1>1. r.elems \in Seq([match : {"STRING", "PARAM", "WILDCARD"}, name : Names])
    BY ResourcesAssumption
  <1>2. \A i \in 1..Len(r.elems) :
          r.elems[i] \in [match : {"STRING", "PARAM", "WILDCARD"}, name : Names]
    BY <1>1, ElementOfSeq
  <1>3. Len(r.elems) \in Nat /\ DOMAIN r.elems = 1..Len(r.elems)
    BY <1>1, LenProperties
  <1>. QED  BY <1>2, <1>3

\* How far the walk gets.
LEMMA WalkStops ==
    ASSUME NEW r \in Resources, NEW method, NEW url \in URLs
    PROVE  /\ Walked(r, method, url) \in Nat
           /\ Walked(r, method, url) <= Len(url) /\ Walked(r, method, url) <= Len(r.elems)
           /\ \A k \in Mismatches(r, url) : Walked(r, method, url) < k
           /\ Accepts(r, method, url) =>
                \A i \in 1..Len(r.elems) : i <= Len(url) => i <= Walked(r, method, url)
  <1> DEFINE W == {Len(url), Len(r.elems)} \cup {i - 1 : i \in Mismatches(r, url)}
  <1>1. Len(url) \in Nat /\ Len(r.elems) \in Nat /\ DOMAIN r.elems = 1..Len(r.elems)
    BY PatternElements, LenProperties DEF URLs
  <1>2. \A i \in Mismatches(r, url) : i \in Nat /\ i > 0 /\ i - 1 \in Nat
    BY <1>1 DEF Mismatches
  <1>3. W \in SUBSET Nat /\ W # {}
    BY <1>1, <1>2
  <1>4. Min(W) \in W /\ \A y \in W : Min(W) <= y
    <2>. HIDE DEF W
    <2>. QED  BY <1>3, MinOfNaturals
  <1>5. CASE method \notin r.methods
    BY <1>1, <1>2, <1>5 DEF Walked, Accepts
  <1>6. CASE method \in r.methods
    <2>1. Walked(r, method, url) = Min(W)
      BY <1>6 DEF Walked
    <2>2. Min(W) \in Nat /\ Min(W) <= Len(url) /\ Min(W) <= Len(r.elems)
      BY <1>3, <1>4
    <2>3. \A k \in Mismatches(r, url) : Min(W) < k
      <3>1. \A k \in Mismatches(r, url) : Min(W) <= k - 1
        BY <1>4
      <3>. HIDE DEF W
      <3>. QED  BY <1>2, <2>2, <3>1
    <2>4. ASSUME Accepts(r, method, url), NEW i \in 1..Len(r.elems), i <= Len(url)
          PROVE  i <= Min(W)
      <3>1. W = {Len(url), Len(r.elems)}
        BY <2>4 DEF Accepts
      <3>2. Min(W) = Len(url) \/ Min(W) = Len(r.elems)
        BY <1>4, <3>1
      <3>. HIDE DEF W
      <3>. QED  BY <1>1, <2>4, <3>2
    <2>. HIDE DEF W
    <2>. QED  BY <2>1, <2>2, <2>3, <2>4
  <1>. QED  BY <1>5, <1>6

\* An attempt to link adds parameters from the URL, and one that succeeds all of its
\* pattern's.
LEMMA LinkFollows ==
    ASSUME NEW url \in URLs, NEW r \in Resources, NEW p \in Parameters(url), NEW method
    PROVE  /\ LinkParameters(p, r, method, url) \in Parameters(url)
           /\ Accepts(r, method, url) => \A i \in Params(r) :
                i <= Len(url) => r.elems[i].name \in DOMAIN LinkParameters(p, r, method, url)
  <1> DEFINE w == Walked(r, method, url)
             taken == {i \in 1..w : r.elems[i].match = "PARAM"}
             First(n) == Min({i \in taken : r.elems[i].name = n})
             fresh == {r.elems[i].name : i \in taken} \ DOMAIN p
             out == LinkParameters(p, r, method, url)
  <1>1. /\ w \in Nat /\ w <= Len(url) /\ w <= Len(r.elems) /\ Len(url) \in Nat
        /\ \A k \in Mismatches(r, url) : w < k
    BY WalkStops, LenProperties DEF URLs
  <1>2. out = [n \in fresh \cup DOMAIN p |-> IF n \in DOMAIN p THEN p[n] ELSE url[First(n)]]
    BY DEF LinkParameters
  <1>3. ASSUME NEW n \in fresh
        PROVE  First(n) \in taken /\ r.elems[First(n)].name = n
    <2> DEFINE T == {i \in taken : r.elems[i].name = n}
    <2>1. T # {} /\ T \in SUBSET Nat
      BY <1>1
    <2>2. Min(T) \in T
      <3>. HIDE DEF T
      <3>. QED  BY <2>1, MinOfNaturals
    <2>. QED  BY <2>2
  <1>4. taken \subseteq Params(r) /\ taken \subseteq 1..Len(url)
    BY <1>1, PatternElements DEF Params
  <1>. HIDE DEF w, taken, First, out
  <1>5. PICK D \in SUBSET Names : p \in [D -> Names]
    BY DEF Parameters
  <1>6. fresh \subseteq Names
    BY <1>4, PatternElements DEF Params
  <1>7. \A n \in fresh : url[First(n)] \in Names
    BY <1>3, <1>4, ElementOfSeq DEF URLs
  <1>8. out \in [fresh \cup D -> Names] /\ DOMAIN out = fresh \cup D
    BY <1>2, <1>5, <1>7
  <1>9. Followed(out, url)
    <2> SUFFICES ASSUME NEW n \in DOMAIN out
                 PROVE  \E q \in Resources : \E i \in Params(q) :
                          /\ q.elems[i].name = n /\ i \in 1..Len(url) /\ out[n] = url[i]
                          /\ \A k \in Mismatches(q, url) : i < k
      BY DEF Followed
    <2>1. CASE n \in DOMAIN p
      <3>1. out[n] = p[n]
        BY <1>2, <2>1
      <3>2. Followed(p, url)
        BY DEF Parameters
      <3>. QED  BY <2>1, <3>1, <3>2 DEF Followed
    <2>2. CASE n \notin DOMAIN p
      <3>1. n \in fresh
        BY <1>2, <2>2
      <3>2. out[n] = url[First(n)]
        BY <1>2, <2>2
      <3>3. PICK i : i = First(n)
        OBVIOUS
      <3>4. i \in taken /\ r.elems[i].name = n /\ out[n] = url[i]
        BY <1>3, <3>1, <3>2, <3>3
      <3>5. \A k \in Mismatches(r, url) : i < k
        <4> SUFFICES ASSUME NEW k \in Mismatches(r, url) PROVE i < k
          OBVIOUS
        <4>1. w < k /\ k \in Nat /\ i <= w /\ i \in Nat
          BY <1>1, <3>4 DEF taken, Mismatches, URLs
        <4>. QED  BY <1>1, <4>1
      <3>. QED  BY <1>4, <3>4, <3>5
    <2>. QED  BY <2>1, <2>2
  <1>10. out \in Parameters(url)
    BY <1>5, <1>6, <1>8, <1>9 DEF Parameters
  <1>11. ASSUME Accepts(r, method, url), NEW i \in Params(r), i <= Len(url)
         PROVE  r.elems[i].name \in DOMAIN out
    <2>1. i \in 1..Len(r.elems)
      BY PatternElements DEF Params
    <2>2. i <= w
      BY <1>11, <2>1, WalkStops DEF w
    <2>3. i \in taken
      BY <1>1, <1>11, <2>1, <2>2, PatternElements DEF taken, Params
    <2>. QED  BY <1>2, <2>3
  <1>. QED  BY <1>10, <1>11 DEF out

\* The scan's fold over the resources it tries.
TryScan(f, tried, method, url) ==
    f = [s \in SUBSET DOMAIN tried |->
            IF s = {} THEN NoEntries
            ELSE LinkParameters(f[s \ {Max(s)}], tried[Max(s)], method, url)]

\* The parameters after an attempt to link each of some resources, the last of which
\* accepts the request.
LEMMA TriedParameters ==
    ASSUME NEW tried \in Seq(Resources), NEW method, NEW url \in URLs, tried # <<>>,
           NEW f, f = (CHOOSE h : TryScan(h, tried, method, url)),
           Accepts(tried[Len(tried)], method, url)
    PROVE  /\ f[1..Len(tried)] \in Parameters(url)
           /\ \A i \in Params(tried[Len(tried)]) : i <= Len(url) =>
                tried[Len(tried)].elems[i].name \in DOMAIN f[1..Len(tried)]
  <1> DEFINE n == Len(tried)
             B == Parameters(url)
             G == [x \in (1..n) \X B |-> LinkParameters(x[2], tried[x[1]], method, url)]
  <1>1. /\ n \in Nat /\ n \in 1..n /\ DOMAIN tried = 1..n
        /\ \A k \in 1..n : tried[k] \in Resources
    BY LenProperties, ElementOfSeq, EmptySeq
  <1>2. NoEntries \in B
    <2>1. NoEntries \in [{} -> Names] /\ DOMAIN NoEntries = {}
      BY DEF NoEntries
    <2>. QED  BY <2>1 DEF Parameters, Followed
  <1>3. \A k \in 1..n, p \in B : LinkParameters(p, tried[k], method, url) \in B
    BY <1>1, LinkFollows
  <1>4. /\ G \in [(1..n) \X B -> B]
        /\ \A k \in 1..n, p \in B : G[<<k, p>>] = LinkParameters(p, tried[k], method, url)
    BY <1>3
  <1>. HIDE DEF n, B, G
  <1>5. PICK h \in [SUBSET (1..n) -> B] : FoldsTo(h, n, NoEntries, G)
    BY <1>1, <1>2, <1>4, FoldIsDefined DEF IsFold
  <1>6. TryScan(h, tried, method, url)
    <2>1. ASSUME NEW s \in SUBSET (1..n)
          PROVE  h[s] = IF s = {} THEN NoEntries
                        ELSE LinkParameters(h[s \ {Max(s)}], tried[Max(s)], method, url)
      <3>1. CASE s = {}
        BY <1>5, <3>1 DEF FoldsTo
      <3>2. CASE s # {}
        <4>1. Max(s) \in 1..n /\ h[s \ {Max(s)}] \in B
          BY <1>1, <3>2, MaxOfPositions
        <4>2. h[s] = G[<<Max(s), h[s \ {Max(s)}]>>]
          BY <1>5, <3>2 DEF FoldsTo
        <4>. QED  BY <1>4, <3>2, <4>1, <4>2
      <3>. QED  BY <3>1, <3>2
    <2>2. h = [s \in SUBSET (1..n) |-> h[s]]
      OBVIOUS
    <2>. QED  BY <1>1, <2>1, <2>2 DEF TryScan
  <1>7. f = [s \in SUBSET (1..n) |->
                IF s = {} THEN NoEntries
                ELSE LinkParameters(f[s \ {Max(s)}], tried[Max(s)], method, url)]
    <2>1. TryScan(f, tried, method, url)
      BY <1>6
    <2>. QED  BY <1>1, <2>1 DEF TryScan
  <1>8. PICK g : FoldTrace(g, n, B, NoEntries, G, f[1..n])
    <2>1. ASSUME NEW s \in SUBSET (1..n), s # {}, f[s \ {Max(s)}] \in B
          PROVE  f[s] = G[<<Max(s), f[s \ {Max(s)}]>>]
      <3>1. Max(s) \in 1..n
        BY <1>1, <2>1, MaxOfPositions
      <3>2. f[s] = LinkParameters(f[s \ {Max(s)}], tried[Max(s)], method, url)
        BY <1>7, <2>1
      <3>3. PICK k, v : k = Max(s) /\ v = f[s \ {Max(s)}]
        OBVIOUS
      <3>4. k \in 1..n /\ v \in B
        BY <2>1, <3>1, <3>3
      <3>5. G[<<k, v>>] = LinkParameters(v, tried[k], method, url)
        BY <1>4, <3>4
      <3>. QED  BY <3>2, <3>3, <3>5, Zenon
    <2>2. f[{}] = NoEntries
      BY <1>7
    <2>3. FoldsBy(f, n, B, NoEntries, G)
      BY <2>1, <2>2 DEF FoldsBy
    <2>. QED  BY <1>1, <1>2, <1>4, <2>3, FoldPrefixes
  <1>9. /\ f[1..n] \in B
        /\ \E p \in B : f[1..n] = LinkParameters(p, tried[n], method, url)
    <2>1. g[n - 1] \in B /\ g[n] = G[<<n, g[n - 1]>>] /\ g[n] = f[1..n]
      BY <1>1, <1>8 DEF FoldTrace
    <2>. QED  BY <1>1, <1>3, <1>4, <2>1
  <1>10. \A i \in Params(tried[n]) : i <= Len(url) =>
            tried[n].elems[i].name \in DOMAIN f[1..n]
    BY <1>1, <1>9, LinkFollows DEF B, n
  <1>. QED  BY <1>9, <1>10 DEF B, n

\* What a scan that finds a resource leaves in the request.
LEMMA ScanParameters ==
    ASSUME NEW list \in Seq(Resources), NEW method, NEW url \in URLs, NEW s,
           s = Scan(list, method, url), s.found
    PROVE  /\ s.link[1] \in Resources /\ Accepts(s.link[1], method, url)
           /\ s.params \in Parameters(url)
           /\ \A i \in Params(s.link[1]) :
                i <= Len(url) => s.link[1].elems[i].name \in DOMAIN s.params
  <1> DEFINE hits == Linkable(list, method, url)
             m == Min(hits)
             tried == SubSeq(list, 1, m)
             f == CHOOSE h : TryScan(h, tried, method, url)
  <1>1. hits # {} /\ hits \in SUBSET (1..Len(list)) /\ Len(list) \in Nat
    <2>1. hits # {}
      BY Zenon DEF Scan
    <2>2. DOMAIN list = 1..Len(list) /\ Len(list) \in Nat
      BY LenProperties
    <2>. QED  BY <2>1, <2>2 DEF Linkable
  <1>2. m \in hits
    <2>. HIDE DEF hits
    <2>1. hits \in SUBSET Nat
      BY <1>1
    <2>. QED  BY <1>1, <2>1, MinOfNaturals
  <1>3. m \in 1..Len(list) /\ Accepts(list[m], method, url) /\ list[m] \in Resources
    BY <1>1, <1>2, ElementOfSeq DEF Linkable
  <1>. HIDE DEF hits, m
  <1>4. tried \in Seq(Resources) /\ Len(tried) = m /\ tried[m] = list[m] /\ tried # <<>>
    <2>1. tried \in Seq(Resources) /\ Len(tried) = m /\ tried[m] = list[m]
      BY <1>1, <1>3, SubSeqProperties
    <2>. QED  BY <1>3, <2>1
  <1>5. s.link[1] = list[m] /\ s.params = FoldLeft(LAMBDA p, r : LinkParameters(p, r, method, url), NoEntries, tried)
    BY <1>1 DEF Scan, hits, m
  <1>6. FoldLeft(LAMBDA p, r : LinkParameters(p, r, method, url), NoEntries, tried) = f[1..m]
    <2>1. DOMAIN tried = 1..m
      BY <1>4, LenProperties
    <2>. HIDE DEF tried
    <2>. QED  BY <2>1 DEF TryScan, FoldLeft, MapThenFoldSet
  <1>. HIDE DEF tried, f
  <1>7. /\ f[1..m] \in Parameters(url)
        /\ \A i \in Params(list[m]) : i <= Len(url) => list[m].elems[i].name \in DOMAIN f[1..m]
    BY <1>3, <1>4, TriedParameters DEF f
  <1>. QED  BY <1>3, <1>5, <1>6, <1>7

--------------------------------------------------------------------------------
(* The buffers of a request.                                               *)

\* An item with room for its data, and a representation of a body: its content is
\* at most one such item, and so is what it has under each name.
Holds(b) == Len(b.data) <= b.capacity

Items == {b \in [data : Seq(STRING), capacity : Nat] : Holds(b)}

Contents == {<<>>} \cup {<<b>> : b \in Items}

Carries(rep) ==
    /\ rep \in [header : {rep.header}, encoded : {rep.encoded}, content : Contents]
    /\ rep.encoded \in [DOMAIN rep.encoded -> Items]

\* A buffer that is grown holds what made it grow, whatever its step: clearing
\* one bit takes off no more than a step, which is added again.
THEOREM GrowthSuffices ==
    ASSUME NEW needed \in Nat
    PROVE  Rep!GrownCapacity(needed) >= needed /\ Rep!GrownCapacity(needed) \in Nat
  BY BoundsAssumption DEF Rep!GrownCapacity, Rep!ClearBit

LEMMA AppendHolds ==
    ASSUME NEW S, NEW item, item.data \in Seq(S), item.capacity \in Nat, Holds(item),
           NEW data \in Seq(S)
    PROVE  LET r == Rep!appendDataToBuffer(item, data)
           IN  r \in [data : Seq(S), capacity : Nat] /\ Holds(r)
  <1> DEFINE all == item.data \o data
             needed == Len(item.data) + Len(data)
             room == IF needed > item.capacity THEN Rep!GrownCapacity(needed)
                                               ELSE item.capacity
  <1>1. all \in Seq(S) /\ Len(all) = needed /\ needed \in Nat
    BY ConcatProperties, LenProperties
  <1>2. room \in Nat /\ needed <= room
    <2>1. Rep!GrownCapacity(needed) >= needed /\ Rep!GrownCapacity(needed) \in Nat
      BY <1>1, GrowthSuffices
    <2>. HIDE DEF needed
    <2>. QED  BY <1>1, <2>1
  <1>3. Rep!appendDataToBuffer(item, data) = [data |-> all, capacity |-> room]
    BY DEF Rep!appendDataToBuffer
  <1>. HIDE DEF all, room, needed
  <1>. QED  BY <1>1, <1>2, <1>3 DEF Holds

\* The same for the items of a body.
LEMMA AppendIsItem ==
    ASSUME NEW item \in Items \cup {Rep!EmptyItem}, NEW data \in Seq(STRING)
    PROVE  Rep!appendDataToBuffer(item, data) \in Items
  <1>1. item.data \in Seq(STRING) /\ item.capacity \in Nat /\ Holds(item)
    <2>1. CASE item \in Items
      BY <2>1 DEF Items
    <2>2. CASE item = Rep!EmptyItem
      BY <2>2, EmptySeq DEF Rep!EmptyItem, Holds
    <2>. QED  BY <2>1, <2>2
  <1>. QED  BY <1>1, AppendHolds DEF Items

LEMMA EmptyCarries == Carries(Rep!EmptyRepresentation)
  BY DEF Carries, Contents, Rep!EmptyRepresentation

LEMMA CarriedHold ==
    ASSUME NEW rep, Carries(rep)
    PROVE  \A b \in Rep!Buffers(rep) : Holds(b)
  <1> SUFFICES ASSUME NEW b \in Rep!Buffers(rep)
               PROVE  b \in Items
    BY DEF Items
  <1>1. CASE \E k \in DOMAIN rep.encoded : b = rep.encoded[k]
    BY <1>1 DEF Carries
  <1>2. CASE \E i \in DOMAIN rep.content : b = rep.content[i]
    <2>1. rep.content \in Contents
      BY DEF Carries
    <2>2. PICK i \in DOMAIN rep.content : b = rep.content[i]
      BY <1>2
    <2>3. rep.content # <<>>
      BY <2>2
    <2>4. PICK x \in Items : rep.content = <<x>>
      BY <2>1, <2>3 DEF Contents
    <2>. QED  BY <2>2, <2>4
  <1>. QED  BY <1>1, <1>2 DEF Rep!Buffers

\* What a piece of the body does to the representation, as content or as a form.
LEMMA UploadCarries ==
    ASSUME NEW rep, Carries(rep), NEW data \in Seq(STRING), NEW key, NEW off
    PROVE  /\ Carries(Rep!processDataIteration(rep, key, off, data))
           /\ Rep!hasSimpleContent(rep) => Carries(Rep!appendSimpleContent(rep, data))
           /\ Carries(Rep!setSimpleContent(rep, data))
  <1> DEFINE new == Rep!appendDataToBuffer(Rep!EmptyItem, data)
  <1>0. new \in Items
    BY AppendIsItem
  <1>1. Carries(Rep!processDataIteration(rep, key, off, data))
    <2>1. Carries(Rep!addEncodedParameter(rep, key, data))
      <3>. HIDE DEF new
      <3>. QED  BY <1>0 DEF Rep!addEncodedParameter, Rep!InsertItem, Carries, new
    <2>2. Carries(Rep!updateEncodedData(rep, key, data))
      <3>1. CASE key \in DOMAIN rep.encoded
        <4> DEFINE x == Rep!appendDataToBuffer(rep.encoded[key], data)
        <4>1. x \in Items
          BY <3>1, AppendIsItem DEF Carries
        <4>2. Rep!updateEncodedData(rep, key, data) = [rep EXCEPT !.encoded[key] = x]
          BY <3>1 DEF Rep!updateEncodedData
        <4>. HIDE DEF x
        <4>. QED  BY <3>1, <4>1, <4>2 DEF Carries
      <3>2. CASE key \notin DOMAIN rep.encoded
        BY <3>2 DEF Rep!updateEncodedData
      <3>. QED  BY <3>1, <3>2
    <2>. QED  BY <2>1, <2>2 DEF Rep!processDataIteration
  <1>2. Rep!hasSimpleContent(rep) => Carries(Rep!appendSimpleContent(rep, data))
    <2> SUFFICES ASSUME Rep!hasSimpleContent(rep)
                 PROVE  Carries(Rep!appendSimpleContent(rep, data))
      OBVIOUS
    <2>1. PICK b \in Items : rep.content = <<b>>
      BY DEF Rep!hasSimpleContent, Carries, Contents
    <2> DEFINE x == Rep!appendDataToBuffer(b, data)
    <2>2. x \in Items
      BY AppendIsItem
    <2>3. Rep!appendSimpleContent(rep, data) = [rep EXCEPT !.content = <<x>>]
      BY <2>1 DEF Rep!appendSimpleContent
    <2>4. <<x>> \in Contents
      BY <2>2 DEF Contents
    <2>. HIDE DEF x
    <2>. QED  BY <2>3, <2>4 DEF Carries
  <1>3. Carries(Rep!setSimpleContent(rep, data))
    <2>1. <<new>> \in Contents
      BY <1>0 DEF Contents
    <2>2. PICK h : Rep!setSimpleContent(rep, data)
                     = [[rep EXCEPT !.content = <<new>>] EXCEPT !.header = h]
      BY DEF Rep!setSimpleContent, Rep!addHTTPHeader
    <2>. HIDE DEF new
    <2>. QED  BY <2>1, <2>2 DEF Carries
  <1>. QED  BY <1>1, <1>2, <1>3

\* The representation of an answer: no content, or that of one call.
LEMMA AnswerHolds ==
    ASSUME NEW S, NEW data \in Seq(S)
    PROVE  /\ \A b \in Rep!Buffers(Content(data)) : Holds(b)
           /\ \A b \in Rep!Buffers(Rep!EmptyRepresentation) : Holds(b)
           /\ Rep!appendSimpleContent(Rep!EmptyRepresentation, data) = Rep!EmptyRepresentation
  <1> DEFINE x == Rep!appendDataToBuffer(Rep!EmptyItem, data)
  <1>1. Holds(x)
    <2>1. /\ Rep!EmptyItem.data \in Seq(S) /\ Rep!EmptyItem.capacity \in Nat
          /\ Holds(Rep!EmptyItem)
      BY EmptySeq DEF Rep!EmptyItem, Holds
    <2>. QED  BY <2>1, AppendHolds
  <1>2. PICK h : Rep!setSimpleContentType(Rep!EmptyRepresentation, "application/xml")
                   = [header |-> h, encoded |-> [n \in {} |-> n], content |-> <<Rep!EmptyItem>>]
    <2> DEFINE none == [n \in {} |-> n]
               rep == Rep!EmptyRepresentation
               with == [rep EXCEPT !.content = <<Rep!EmptyItem>>]
    <2>1. rep = [header |-> none, encoded |-> none, content |-> <<>>]
      BY DEF Rep!EmptyRepresentation
    <2>2. Rep!setSimpleContentType(rep, "application/xml")
            = Rep!addHTTPHeader(with, "Content-Type", "application/xml")
      BY <2>1 DEF Rep!setSimpleContentType
    <2>. HIDE DEF none, rep
    <2>3. with = [header |-> none, encoded |-> none, content |-> <<Rep!EmptyItem>>]
      BY <2>1
    <2>. HIDE DEF with
    <2>4. \A v : Rep!addHTTPHeader(with, "Content-Type", v)
                  = [with EXCEPT !.header = Rep!InsertItem(with.header, "Content-Type", v)]
      BY DEF Rep!addHTTPHeader
    <2>5. PICK g : [with EXCEPT !.header = Rep!InsertItem(with.header, "Content-Type",
                                                          "application/xml")]
                     = [header |-> g, encoded |-> none, content |-> <<Rep!EmptyItem>>]
      BY <2>3
    <2>6. Rep!setSimpleContentType(rep, "application/xml")
            = [header |-> g, encoded |-> none, content |-> <<Rep!EmptyItem>>]
      BY <2>2, <2>4, <2>5, Zenon
    <2>. QED  BY <2>6 DEF none, rep
  <1>3. Content(data) = [header |-> h, encoded |-> [n \in {} |-> n], content |-> <<x>>]
    BY <1>2 DEF Content, Rep!appendSimpleContent
  <1>. HIDE DEF x
  <1>4. \A b \in Rep!Buffers(Content(data)) : Holds(b)
    BY <1>1, <1>3 DEF Rep!Buffers
  <1>5. \A b \in Rep!Buffers(Rep!EmptyRepresentation) : Holds(b)
    BY DEF Rep!Buffers, Rep!EmptyRepresentation
  <1>6. Rep!appendSimpleContent(Rep!EmptyRepresentation, data) = Rep!EmptyRepresentation
    BY DEF Rep!appendSimpleContent, Rep!EmptyRepresentation
  <1>. QED  BY <1>4, <1>5, <1>6

--------------------------------------------------------------------------------
(* The inductive invariant.                                                *)

\* The list is sorted, and complete while the daemon runs.
ListInv ==
    /\ resourceList \in Seq(Resources)
    /\ Sorted(resourceList)
    /\ daemon = "running" => Range(resourceList) = Resources

\* A request under way is a record, linked to the best of the resources.
Linked(q) ==
    /\ {"phase", "method", "url", "link", "inRep", "todo"} \subseteq DOMAIN q
    /\ q = [x \in DOMAIN q |-> q[x]]
    /\ Best(q.link[1], q.method, q.url)

RequestInv ==
    /\ request = [c \in Conns |-> request[c]]
    /\ \A c \in Conns : request[c].phase \in {"upload", "ready"} => Linked(request[c])

\* The relationships join objects, and the numbers of the ids are within the bound.
ContentInv == Joined(cm) /\ cm.nextID \in 0..MaxID

\* A request under way has what is left of its body, and its buffers have room for
\* what was received, as an answer's have for what is sent.
Buffered(q) ==
    /\ q.phase \in {"none", "upload", "ready", "answered"}
    /\ q.phase = "upload" => q.todo # <<>>
    /\ q.phase \in {"upload", "ready"} => q.todo \in Seq(Seq(STRING)) /\ Carries(q.inRep)
    /\ q.phase = "answered" => \A b \in Rep!Buffers(q.outRep) : Holds(b)

BufferInv == \A c \in Conns : Buffered(request[c])

RestInv == ListInv /\ RequestInv /\ ContentInv /\ BufferInv

LEMMA InitRestInv == Init => RestInv
  <1> SUFFICES ASSUME Init PROVE RestInv
    OBVIOUS
  <1>1. ListInv
    BY DEF Init, ListInv, Sorted
  <1>2. RequestInv
    BY DEF Init, RequestInv, NoRequest
  <1>3. ContentInv
    <2>1. Joined(cm) /\ cm.nextID = 0
      <3> DEFINE objs == [x \in {Root} \cup {o.id : o \in Loaded} |->
                            IF x = Root THEN RootObject
                            ELSE [type |-> (CHOOSE o \in Loaded : o.id = x).type,
                                  fields |-> NoFields]]
                 es == {[rel |-> o.rel, ends |-> {Root, o.id}] : o \in Loaded}
      <3>1. cm = [objMap |-> objs, edges |-> es, nextID |-> 0]
        BY DEF Init, ManagerInit
      <3>2. \A e \in es : e.ends \subseteq DOMAIN objs
        OBVIOUS
      <3>. HIDE DEF objs, es
      <3>. QED  BY <3>1, <3>2 DEF Joined, IsManager
    <2>. QED  BY <2>1, BoundsAssumption DEF ContentInv
  <1>4. BufferInv
    BY DEF Init, BufferInv, Buffered, NoRequest
  <1>. QED  BY <1>1, <1>2, <1>3, <1>4 DEF RestInv

\* A step that changes a request in a way Linked allows.
LEMMA RequestSet ==
    ASSUME RequestInv, NEW c \in Conns, NEW q, request' = [request EXCEPT ![c] = q],
           q.phase \in {"upload", "ready"} => Linked(q)
    PROVE  RequestInv'
  BY DEF RequestInv

\* Every request is dropped.
LEMMA RequestsDropped ==
    ASSUME request' = [c \in Conns |-> NoRequest]
    PROVE  RequestInv'
  BY DEF RequestInv, NoRequest

--------------------------------------------------------------------------------
(* What a handler does.                                                    *)

\* An answer, with room for what is sent.
Reply(q) == q.phase = "answered" /\ Buffered(q)

\* One request is answered.
Replies(c) == \E q : Reply(q) /\ request' = [request EXCEPT ![c] = q]

LEMMA AnswersHold ==
    ASSUME NEW code, NEW loc, NEW S, NEW data \in Seq(S)
    PROVE  /\ Reply(AnswerRecord(code, loc, Rep!EmptyRepresentation))
           /\ Reply(AnswerRecord(code, loc, Content(data)))
  BY AnswerHolds DEF Buffered, AnswerRecord, Reply

\* The answers that refuse.
LEMMA RefusalsReply ==
    /\ Reply(ErrorRecord) /\ ErrorRecord.loc = <<>>
    /\ ErrorRecord.code = 400 /\ ErrorRecord.threw = "none"
    /\ \A f : /\ Reply(ThrownRecord(f)) /\ ThrownRecord(f).loc = <<>>
              /\ ThrownRecord(f).code = 400 /\ ThrownRecord(f).threw = f
  <1> DEFINE rep == Rep!EmptyRepresentation
  <1>1. <<"error">> \in Seq({"error"})
    OBVIOUS
  <1>2. Rep!appendSimpleContent(rep, <<"error">>) = rep
    BY <1>1, AnswerHolds
  <1>3. ErrorRecord = AnswerRecord(400, <<>>, rep)
    BY <1>2 DEF ErrorRecord
  <1>4. Reply(ErrorRecord)
    BY <1>1, <1>3, AnswersHold, ZenonT(60)
  <1>. HIDE DEF rep
  <1>5. ErrorRecord = [phase |-> "answered", code |-> 400, loc |-> <<>>, outRep |-> rep,
                       threw |-> "none"]
    BY <1>3 DEF AnswerRecord
  <1>6. \A b \in Rep!Buffers(rep) : Holds(b)
    BY <1>4, <1>5 DEF Reply, Buffered
  <1>7. ASSUME NEW f
        PROVE  /\ Reply(ThrownRecord(f)) /\ ThrownRecord(f).loc = <<>>
               /\ ThrownRecord(f).code = 400 /\ ThrownRecord(f).threw = f
    <2>1. ThrownRecord(f) = [phase |-> "answered", code |-> 400, loc |-> <<>>,
                             outRep |-> rep, threw |-> f]
      BY <1>5 DEF ThrownRecord
    <2>2. PICK t : t = ThrownRecord(f)
      OBVIOUS
    <2>3. t.phase = "answered" /\ t.outRep = rep
      BY <2>1, <2>2
    <2>4. Reply(t)
      BY <1>6, <2>3 DEF Reply, Buffered
    <2>. QED  BY <2>1, <2>2, <2>4
  <1>. QED  BY <1>4, <1>5, <1>7

LEMMA ErrorReplies ==
    ASSUME NEW c, ErrorResponse(c)
    PROVE  Replies(c)
  BY RefusalsReply DEF ErrorResponse, Replies

LEMMA ThrowReplies ==
    ASSUME NEW c, NEW f, Throws(c, f)
    PROVE  Replies(c)
  BY RefusalsReply DEF Throws, Replies

\* A handler went w to its end, and answered q.
Gone(c, w, a, q) ==
    /\ cm' = w.cm /\ request' = [request EXCEPT ![c] = q]
    /\ w.failed \in {"none", "NULL"} => q = a
    /\ w.failed \notin {"none", "NULL"} => q = ThrownRecord(w.failed)

LEMMA WayGone ==
    ASSUME NEW c, NEW ways, NEW a, Goes(c, ways, a)
    PROVE  \E w \in ways : \E q : Gone(c, w, a, q)
  <1>1. PICK w \in ways :
            /\ cm' = w.cm
            /\ request' = [request EXCEPT ![c] =
                    IF w.failed \in {"none", "NULL"} THEN a ELSE ThrownRecord(w.failed)]
    BY DEF Goes
  <1>2. PICK q : q = IF w.failed \in {"none", "NULL"} THEN a ELSE ThrownRecord(w.failed)
    OBVIOUS
  <1>3. cm' = w.cm /\ request' = [request EXCEPT ![c] = q]
    BY <1>1, <1>2
  <1>4. /\ w.failed \in {"none", "NULL"} => q = a
        /\ w.failed \notin {"none", "NULL"} => q = ThrownRecord(w.failed)
    BY <1>2
  <1>. QED  BY <1>3, <1>4 DEF Gone

LEMMA WayReplies ==
    ASSUME NEW c, NEW ways, NEW a, Reply(a), Goes(c, ways, a)
    PROVE  Replies(c)
  <1>1. PICK w \in ways : \E q : Gone(c, w, a, q)
    BY WayGone
  <1>2. PICK q : Gone(c, w, a, q)
    BY <1>1
  <1>3. Reply(q)
    BY <1>2, RefusalsReply DEF Gone
  <1>. QED  BY <1>2, <1>3 DEF Gone, Replies

\* A POST of a list is refused, fails before it changes anything, or goes one of its ways.
PostGoes(c, n, url, params, fields) ==
    LET r == request[c].link[1]
    IN  /\ ~Refused(request[c])
        /\ url = request[c].url /\ params = request[c].params
        /\ fields = FieldsOf(request[c])
        /\ IsUniqueObjID(cm, r.prefix, n)
        /\ Goes(c, PostWays(cm, r, TerminalID(r, params), fields, n),
                AnswerRecord(201, Append(url, IDString(r.prefix, n)), Rep!EmptyRepresentation))
        /\ issued' = Append(issued, IDString(r.prefix, n))
        /\ gone' = IF request'[c].code = 201
                   THEN gone \cup ({IDString(r.prefix, n)} \ Ids(cm')) ELSE gone
        /\ UNCHANGED <<resourceList, daemon, location>>

LEMMA PostCases ==
    ASSUME NEW c, PostList(c)
    PROVE  \/ ErrorResponse(c)
           \/ Throws(c, "getContentTemplateForType")
           \/ \E n \in 1..MaxID : \E url, params, fields : PostGoes(c, n, url, params, fields)
  BY Zenon DEF PostList, PostGoes

\* A request that is executed is answered, unless the callback is left by an exception.
LEMMA ExecuteReplies ==
    ASSUME NEW c \in Conns, Execute(c)
    PROVE  Replies(c) \/ request' = [x \in Conns |-> NoRequest]
  <1> DEFINE rep == Rep!EmptyRepresentation
  <1>0. <<"status">> \in Seq({"status"}) /\ <<"object">> \in Seq({"object"})
    OBVIOUS
  <1>1. \A code, loc : Reply(AnswerRecord(code, loc, rep))
    BY <1>0, AnswersHold, ZenonT(60)
  <1>2. \A code, out : Reply(AnswerRecord(code, <<>>, out)) /\ Answer(c, code, out) => Replies(c)
    BY DEF Answer, Replies
  <1>3. CASE GetList(c)
    <2>1. CASE ErrorResponse(c)
      BY <2>1, ErrorReplies
    <2>2. CASE ~ErrorResponse(c)
      <3>1. PICK ids : Answer(c, 200, Content(<<"array", ids>>))
        BY <1>3, <2>2 DEF GetList
      <3>2. <<"array", ids>> \in Seq({"array", ids})
        OBVIOUS
      <3>3. Reply(AnswerRecord(200, <<>>, Content(<<"array", ids>>)))
        BY <3>2, AnswersHold, ZenonT(60)
      <3>. QED  BY <1>2, <3>1, <3>3, ZenonT(60)
    <2>. QED  BY <2>1, <2>2
  <1>4. CASE PostList(c)
    <2>1. ASSUME NEW n, NEW url, NEW params, NEW fields, PostGoes(c, n, url, params, fields)
          PROVE  Replies(c)
      <3> DEFINE r    == request[c].link[1]
                 ways == PostWays(cm, r, TerminalID(r, params), fields, n)
                 a    == AnswerRecord(201, Append(url, IDString(r.prefix, n)), rep)
      <3>1. Goes(c, ways, a)
        BY <2>1 DEF PostGoes
      <3>2. Reply(a)
        BY <1>1, Zenon
      <3>. HIDE DEF ways, a
      <3>. QED  BY <3>1, <3>2, WayReplies
    <2>. QED  BY <1>4, <2>1, PostCases, ErrorReplies, ThrowReplies
  <1>5. CASE GetObject(c)
    <2>1. CASE Throws(c, "setContentNodeFromFields")
      BY <2>1, ThrowReplies
    <2>2. CASE Answer(c, 200, Content(<<"object">>))
      <3>1. Reply(AnswerRecord(200, <<>>, Content(<<"object">>)))
        BY <1>0, AnswersHold, ZenonT(60)
      <3>. QED  BY <1>2, <2>2, <3>1, ZenonT(60)
    <2>. QED  BY <1>5, <2>1, <2>2 DEF GetObject
  <1>6. ASSUME NEW ways, Goes(c, ways, AnswerRecord(200, <<>>, rep))
        PROVE  Replies(c)
    <2>1. PICK a : a = AnswerRecord(200, <<>>, rep)
      OBVIOUS
    <2>2. Goes(c, ways, a)
      BY <1>6, <2>1
    <2>3. Reply(a)
      BY <1>1, <2>1, Zenon
    <2>. QED  BY <2>2, <2>3, WayReplies
  <1>7. CASE PutObject(c)
    <2>1. \/ ErrorResponse(c) \/ Throws(c, "getContentTemplateForType")
          \/ \E ways : Goes(c, ways, AnswerRecord(200, <<>>, rep))
      BY <1>7, Zenon DEF PutObject
    <2>. HIDE DEF rep
    <2>. QED  BY <1>6, <2>1, ErrorReplies, ThrowReplies
  <1>8. CASE DeleteObject(c)
    <2>1. ErrorResponse(c) \/ \E ways : Goes(c, ways, AnswerRecord(200, <<>>, rep))
      BY <1>8, Zenon DEF DeleteObject
    <2>. HIDE DEF rep
    <2>. QED  BY <1>6, <2>1, ErrorReplies
  <1>9. CASE GetStatus(c)
    <2>1. CASE Throws(c, "populateContentNode")
      BY <2>1, ThrowReplies
    <2>2. CASE Answer(c, 200, Content(<<"status">>))
      <3>1. Reply(AnswerRecord(200, <<>>, Content(<<"status">>)))
        BY <1>0, AnswersHold, ZenonT(60)
      <3>. QED  BY <1>2, <2>2, <3>1, ZenonT(60)
    <2>. QED  BY <1>9, <2>1, <2>2 DEF GetStatus
  <1>10. CASE NotImplemented(c)
    <2>1. Answer(c, 501, rep)
      BY <1>10, Zenon DEF NotImplemented
    <2>. QED  BY <1>1, <1>2, <2>1, ZenonT(60)
  <1>. QED  BY <1>3, <1>4, <1>5, <1>7, <1>8, <1>9, <1>10 DEF Execute

LEMMA StepListInv == RestInv /\ [Next]_vars => ListInv'
  <1> SUFFICES ASSUME RestInv, [Next]_vars PROVE ListInv'
    OBVIOUS
  <1>1. CASE resourceList' = resourceList /\ (daemon' = daemon \/ daemon' # "running")
    BY <1>1 DEF RestInv, ListInv, Sorted
  <1>2. ASSUME NEW r \in Resources, RegisterResource(r)
        PROVE  ListInv'
    <2>1. resourceList' \in Seq(Resources) /\ Sorted(resourceList')
      BY <1>2, RegisterKeepsSorted DEF RegisterResource, RestInv, ListInv
    <2>2. daemon' = "stopped"
      BY <1>2 DEF RegisterResource
    <2>. QED  BY <2>1, <2>2 DEF ListInv, Sorted
  <1>3. CASE Start
    BY <1>3 DEF Start, RestInv, ListInv, Sorted
  <1>4. CASE Stop
    BY <1>1, <1>4 DEF Stop
  <1>5. CASE ClearContent
    BY <1>1, <1>5 DEF ClearContent
  <1>6. ASSUME NEW c \in Conns, NEW a, NewRequest(c, a.method, a.url, a.body)
        PROVE  ListInv'
    BY <1>1, <1>6 DEF NewRequest
  <1>7. ASSUME NEW c \in Conns, ContinueRequest(c)
        PROVE  ListInv'
    BY <1>1, <1>7 DEF ContinueRequest
  <1>8. ASSUME NEW c \in Conns, Execute(c)
        PROVE  ListInv'
    <2>0. CASE \E f : ErrorResponse(c) \/ Throws(c, f)
      BY <1>1, <2>0 DEF ErrorResponse, Throws
    <2>1. CASE GetList(c)
      BY <1>1, <2>0, <2>1 DEF GetList
    <2>2. CASE PostList(c)
      BY <1>1, <2>0, <2>2, PostCases DEF PostGoes
    <2>3. CASE GetObject(c)
      BY <1>1, <2>0, <2>3 DEF GetObject
    <2>4. CASE PutObject(c)
      BY <1>1, <2>0, <2>4 DEF PutObject
    <2>5. CASE DeleteObject(c)
      BY <1>1, <2>0, <2>5 DEF DeleteObject
    <2>6. CASE GetStatus(c) \/ NotImplemented(c)
      BY <1>1, <2>0, <2>6 DEF GetStatus, NotImplemented
    <2>. QED  BY <1>8, <2>1, <2>2, <2>3, <2>4, <2>5, <2>6 DEF Execute
  <1>9. ASSUME NEW c \in Conns, Complete(c) \/ Abort(c) \/ ClearRepresentation(c)
        PROVE  ListInv'
    BY <1>1, <1>9 DEF Complete, Abort, ClearRepresentation
  <1>10. CASE UNCHANGED vars
    BY <1>1, <1>10 DEF vars
  <1>. QED  BY <1>2, <1>3, <1>4, <1>5, <1>6, <1>7, <1>8, <1>9, <1>10 DEF Next

\* A piece of the body leaves a request linked as it was.
LEMMA UploadKeepsLinked ==
    ASSUME NEW q, Linked(q), NEW data, NEW off, NEW todo, NEW phase
    PROVE  Linked([processUploadData(q, data, off) EXCEPT !.todo = todo, !.phase = phase])
  <1>1. PICK rep : processUploadData(q, data, off) = [q EXCEPT !.inRep = rep]
    BY DEF processUploadData
  <1>. QED  BY <1>1 DEF Linked

LEMMA StepRequestInv == RestInv /\ [Next]_vars => RequestInv'
  <1> SUFFICES ASSUME RestInv, [Next]_vars PROVE RequestInv'
    OBVIOUS
  <1>0. RequestInv
    BY DEF RestInv
  <1>1. CASE request' = request
    BY <1>0, <1>1 DEF RequestInv
  <1>2. ASSUME NEW r \in Resources, RegisterResource(r)
        PROVE  RequestInv'
    BY <1>1, <1>2 DEF RegisterResource
  <1>3. CASE Start \/ ClearContent
    BY <1>1, <1>3 DEF Start, ClearContent
  <1>4. CASE Stop
    BY <1>4, RequestsDropped DEF Stop
  <1>6. ASSUME NEW c \in Conns, NEW a, NewRequest(c, a.method, a.url, a.body)
        PROVE  RequestInv'
    <2> DEFINE scan == Scan(resourceList, a.method, a.url)
               q == NewRequestRecord(a.method, a.url, a.body, scan)
    <2>1. CASE ~scan.found
      <3>1. request' = [request EXCEPT ![c] = NoRequest]
        BY <1>6, <2>1 DEF NewRequest
      <3>2. NoRequest.phase = "none"
        BY DEF NoRequest
      <3>. HIDE DEF scan, q
      <3>. QED  BY <1>0, <3>1, <3>2, RequestSet
    <2>2. CASE scan.found
      <3>1. Best(scan.link[1], a.method, a.url)
        BY <1>6, <2>2, ScanFindsBest DEF NewRequest, RestInv, ListInv
      <3>2. Linked(q)
        <4>. HIDE DEF scan
        <4>. QED  BY <3>1 DEF Linked, NewRequestRecord
      <3>3. request' = [request EXCEPT ![c] = q]
        BY <1>6, <2>2 DEF NewRequest
      <3>. HIDE DEF q
      <3>. QED  BY <1>0, <3>2, <3>3, RequestSet
    <2>. QED  BY <2>1, <2>2
  <1>7. ASSUME NEW c \in Conns, ContinueRequest(c)
        PROVE  RequestInv'
    <2>1. Linked(request[c])
      BY <1>0, <1>7 DEF ContinueRequest, RequestInv
    <2> DEFINE r   == request[c]
               off == Len(Rep!getSimpleContent(r.inRep)) +
                        (IF "key" \in DOMAIN r.inRep.encoded
                         THEN Len(r.inRep.encoded["key"].data) ELSE 0)
               p   == processUploadData(r, Head(r.todo), off)
               ph  == IF Tail(r.todo) = <<>> THEN "ready" ELSE "upload"
    <2>3. request' = [request EXCEPT ![c] = [p EXCEPT !.todo = Tail(p.todo), !.phase = ph]]
      BY <1>7 DEF ContinueRequest
    <2>4. Linked([p EXCEPT !.todo = Tail(p.todo), !.phase = ph])
      <3>. HIDE DEF off, ph
      <3>. QED  BY <2>1, UploadKeepsLinked
    <2>. HIDE DEF p, ph
    <2>. QED  BY <1>0, <2>3, <2>4, RequestSet
  <1>8. ASSUME NEW c \in Conns, Execute(c)
        PROVE  RequestInv'
    <2>1. CASE Replies(c)
      <3>1. PICK q : q.phase = "answered" /\ request' = [request EXCEPT ![c] = q]
        BY <2>1 DEF Replies, Reply
      <3>. QED  BY <1>0, <3>1, RequestSet
    <2>. QED  BY <1>8, <2>1, ExecuteReplies, RequestsDropped
  <1>9. ASSUME NEW c \in Conns, Complete(c) \/ Abort(c) \/ ClearRepresentation(c)
        PROVE  RequestInv'
    <2>1. request' = request \/ request' = [request EXCEPT ![c] = NoRequest]
      BY <1>9 DEF Complete, Abort, ClearRepresentation
    <2>2. CASE request' = [request EXCEPT ![c] = NoRequest]
      BY <1>0, <2>2, RequestSet DEF NoRequest
    <2>. QED  BY <1>1, <2>1, <2>2
  <1>10. CASE UNCHANGED vars
    BY <1>1, <1>10 DEF vars
  <1>. QED  BY <1>2, <1>3, <1>4, <1>6, <1>7, <1>8, <1>9, <1>10 DEF Next

\* A step keeps nextID, or gives out the id of the number it moves it to.
Counts ==
    /\ Joined(cm')
    /\ \/ issued' = issued /\ cm'.nextID = cm.nextID
       \/ \E r \in Resources : \E n \in 1..MaxID :
            /\ IsUniqueObjID(cm, r.prefix, n) /\ cm'.nextID = n
            /\ issued' = Append(issued, IDString(r.prefix, n))

LEMMA StepCounts == RestInv /\ [Next]_vars => Counts
  <1> SUFFICES ASSUME RestInv, [Next]_vars PROVE Counts
    OBVIOUS
  <1>0. ContentInv /\ Joined(cm)
    BY DEF RestInv, ContentInv
  <1>1. CASE cm' = cm /\ issued' = issued
    BY <1>0, <1>1 DEF Counts
  <1>2. ASSUME NEW r \in Resources, RegisterResource(r)
        PROVE  Counts
    BY <1>1, <1>2 DEF RegisterResource
  <1>3. CASE Start \/ Stop
    BY <1>1, <1>3 DEF Start, Stop
  <1>5. CASE ClearContent
    BY <1>0, <1>5, MethodsJoin, MethodsCount DEF ClearContent, Counts
  <1>6. ASSUME NEW c \in Conns, NEW a, NewRequest(c, a.method, a.url, a.body)
        PROVE  Counts
    BY <1>1, <1>6 DEF NewRequest
  <1>7. ASSUME NEW c \in Conns, ContinueRequest(c)
        PROVE  Counts
    BY <1>1, <1>7 DEF ContinueRequest
  <1>8. ASSUME NEW c \in Conns, Execute(c)
        PROVE  Counts
    <2>0. PostList(c) => request[c].link[1] \in Resources
      BY DEF PostList, Ready, RestInv, RequestInv, Linked, Best
    <2>1. CASE \E f : ErrorResponse(c) \/ Throws(c, f)
      BY <1>1, <2>1 DEF ErrorResponse, Throws
    <2>2. CASE GetList(c) \/ GetObject(c) \/ GetStatus(c) \/ NotImplemented(c)
      BY <1>1, <2>1, <2>2 DEF GetList, GetObject, GetStatus, NotImplemented
    <2>3. ASSUME NEW n \in 1..MaxID, NEW url, NEW params, NEW fields,
                 PostList(c), PostGoes(c, n, url, params, fields)
          PROVE  Counts
      <3> DEFINE r == request[c].link[1]
                 t == TerminalID(r, params)
      <3>1. PICK w \in PostWays(cm, r, t, fields, n) : cm' = w.cm
        BY <2>3, WayGone DEF PostGoes, Gone
      <3>2. Joined(cm') /\ cm'.nextID = n
        <4>. HIDE DEF r, t
        <4>. QED  BY <1>0, <3>1, PostWaysJoin
      <3>3. IsUniqueObjID(cm, r.prefix, n) /\ issued' = Append(issued, IDString(r.prefix, n))
        BY <2>3 DEF PostGoes
      <3>. QED  BY <2>0, <2>3, <3>2, <3>3 DEF Counts
    <2>4. CASE PostList(c)
      BY <2>1, <2>3, <2>4, PostCases
    <2>5. CASE PutObject(c)
      <3> DEFINE id == TerminalID(request[c].link[1], request[c].params)
                 f  == FieldsOf(request[c])
      <3>1. CASE issued' = issued /\ \E a : Goes(c, PutWays(cm, id, f), a)
        <4>1. PICK w \in PutWays(cm, id, f) : cm' = w.cm
          BY <3>1, WayGone DEF Gone
        <4>. HIDE DEF id, f
        <4>. QED  BY <1>0, <3>1, <4>1, PutWaysJoin DEF Counts
      <3>. QED  BY <2>1, <2>5, <3>1, Zenon DEF PutObject
    <2>6. CASE DeleteObject(c)
      <3> DEFINE id == TerminalID(request[c].link[1], request[c].params)
      <3>1. CASE issued' = issued /\ \E a : Goes(c, DeleteWays(cm, id), a)
        <4>1. PICK w \in DeleteWays(cm, id) : cm' = w.cm
          BY <3>1, WayGone DEF Gone
        <4>. HIDE DEF id
        <4>. QED  BY <1>0, <3>1, <4>1, DeleteWaysJoin DEF Counts
      <3>. QED  BY <2>1, <2>6, <3>1, Zenon DEF DeleteObject
    <2>. QED  BY <1>8, <2>2, <2>4, <2>5, <2>6 DEF Execute
  <1>9. ASSUME NEW c \in Conns, Complete(c) \/ Abort(c) \/ ClearRepresentation(c)
        PROVE  Counts
    BY <1>1, <1>9 DEF Complete, Abort, ClearRepresentation
  <1>10. CASE UNCHANGED vars
    BY <1>1, <1>10 DEF vars
  <1>. QED  BY <1>2, <1>3, <1>5, <1>6, <1>7, <1>8, <1>9, <1>10 DEF Next

LEMMA StepContentInv == RestInv /\ [Next]_vars => ContentInv'
  BY StepCounts, BoundsAssumption DEF RestInv, ContentInv, Counts

--------------------------------------------------------------------------------
(* The buffers, step by step.                                              *)

LEMMA BufferSet ==
    ASSUME RestInv, NEW c \in Conns, NEW q, Buffered(q), request' = [request EXCEPT ![c] = q]
    PROVE  BufferInv'
  <1>1. request = [x \in Conns |-> request[x]]
    BY DEF RestInv, RequestInv
  <1>2. \A x \in Conns : request'[x] = IF x = c THEN q ELSE request[x]
    BY <1>1
  <1>. QED  BY <1>2 DEF RestInv, BufferInv

\* One piece of the body is taken off and added to the representation.
LEMMA UploadBuffers ==
    ASSUME RestInv, NEW c \in Conns, ContinueRequest(c)
    PROVE  BufferInv'
  <1> DEFINE q   == request[c]
             off == Len(Rep!getSimpleContent(q.inRep)) +
                      (IF "key" \in DOMAIN q.inRep.encoded
                       THEN Len(q.inRep.encoded["key"].data) ELSE 0)
             q2  == processUploadData(q, Head(q.todo), off)
             ph  == IF Tail(q.todo) = <<>> THEN "ready" ELSE "upload"
  <1>1. /\ q.phase = "upload" /\ Buffered(q) /\ Linked(q)
        /\ request' = [request EXCEPT ![c] = [q2 EXCEPT !.todo = Tail(q2.todo), !.phase = ph]]
    BY DEF ContinueRequest, RestInv, BufferInv, RequestInv
  <1>. HIDE DEF off
  <1>2. /\ Head(q.todo) \in Seq(STRING) /\ Tail(q.todo) \in Seq(Seq(STRING))
        /\ Carries(q.inRep)
    <2>1. q.todo \in Seq(Seq(STRING)) /\ q.todo # <<>> /\ Carries(q.inRep)
      BY <1>1 DEF Buffered
    <2>. QED  BY <2>1, HeadTailProperties
  <1>3. PICK rep : Carries(rep) /\ q2 = [q EXCEPT !.inRep = rep]
    <2> DEFINE p == Head(q.todo)
    <2>1. CASE q.form
      BY <1>2, <2>1, UploadCarries DEF processUploadData
    <2>2. CASE ~q.form /\ Rep!hasSimpleContent(q.inRep)
      BY <1>2, <2>2, UploadCarries DEF processUploadData
    <2>3. CASE ~q.form /\ ~Rep!hasSimpleContent(q.inRep)
      BY <1>2, <2>3, UploadCarries DEF processUploadData
    <2>. QED  BY <2>1, <2>2, <2>3
  <1>. HIDE DEF q2, ph
  <1> DEFINE d == [q2 EXCEPT !.todo = Tail(q2.todo), !.phase = ph]
  <1>4. /\ {"phase", "inRep", "todo"} \subseteq DOMAIN q
        /\ q = [x \in DOMAIN q |-> q[x]]
    BY <1>1 DEF Linked
  <1>5. q2.todo = q.todo /\ d.todo = Tail(q.todo) /\ d.inRep = rep /\ d.phase = ph
    <2>. HIDE DEF q
    <2>. QED  BY <1>3, <1>4
  <1>6. Buffered(d)
    <2>. HIDE DEF q, d
    <2>. QED  BY <1>2, <1>3, <1>5 DEF Buffered, ph
  <1>. HIDE DEF d
  <1>7. request' = [request EXCEPT ![c] = d]
    BY <1>1 DEF d
  <1>. QED  BY <1>6, <1>7, BufferSet

LEMMA StepBufferInv == RestInv /\ [Next]_vars => BufferInv'
  <1> SUFFICES ASSUME RestInv, [Next]_vars PROVE BufferInv'
    OBVIOUS
  <1>1. CASE request' = request
    BY <1>1 DEF RestInv, BufferInv
  <1>2. ASSUME NEW r \in Resources, RegisterResource(r)
        PROVE  BufferInv'
    BY <1>1, <1>2 DEF RegisterResource
  <1>3. CASE Start \/ ClearContent
    BY <1>1, <1>3 DEF Start, ClearContent
  <1>4. CASE request' = [c \in Conns |-> NoRequest]
    BY <1>4 DEF BufferInv, Buffered, NoRequest
  <1>5. ASSUME NEW c \in Conns, request' = [request EXCEPT ![c] = NoRequest]
        PROVE  BufferInv'
    BY <1>5, BufferSet DEF Buffered, NoRequest
  <1>6. ASSUME NEW c \in Conns, NEW a, a.body \in Bodies,
               NewRequest(c, a.method, a.url, a.body)
        PROVE  BufferInv'
    <2> DEFINE scan == Scan(resourceList, a.method, a.url)
               q == NewRequestRecord(a.method, a.url, a.body, scan)
    <2>1. request' = [request EXCEPT ![c] = IF scan.found THEN q ELSE NoRequest]
      BY <1>6 DEF NewRequest
    <2>2. Buffered(q)
      <3>1. a.body \in Seq(Seq(STRING))
        BY <1>6, BodiesAssumption
      <3>. QED  BY <3>1, EmptyCarries DEF NewRequestRecord, Buffered
    <2>3. Buffered(NoRequest)
      BY DEF Buffered, NoRequest
    <2>. HIDE DEF q, scan
    <2>. QED  BY <2>1, <2>2, <2>3, BufferSet
  <1>7. ASSUME NEW c \in Conns, ContinueRequest(c)
        PROVE  BufferInv'
    BY <1>7, UploadBuffers
  <1>8. ASSUME NEW c \in Conns, Execute(c)
        PROVE  BufferInv'
    BY <1>4, <1>8, ExecuteReplies, BufferSet DEF Replies, Reply
  <1>9. ASSUME NEW c \in Conns, Complete(c) \/ Abort(c) \/ ClearRepresentation(c)
        PROVE  BufferInv'
    BY <1>1, <1>5, <1>9 DEF Complete, Abort, ClearRepresentation
  <1>10. CASE UNCHANGED vars
    BY <1>1, <1>10 DEF vars
  <1>11. CASE Stop
    BY <1>4, <1>11 DEF Stop
  <1>. QED  BY <1>2, <1>3, <1>6, <1>7, <1>8, <1>9, <1>10, <1>11 DEF Next

--------------------------------------------------------------------------------
(* The theorems.                                                           *)

\* The strengthening is an invariant of the specification.
THEOREM RestInvariant == Spec => []RestInv
  <1>1. Init => RestInv
    BY InitRestInv
  <1>2. RestInv /\ [Next]_vars => RestInv'
    BY StepListInv, StepRequestInv, StepContentInv, StepBufferInv DEF RestInv
  <1>. QED  BY <1>1, <1>2, PTL DEF Spec

\* The ids given out have numbers up to nextID, and differ.
IssuedInv ==
    /\ issued \in Seq(Names)
    /\ \A i \in 1..Len(issued) : \E r \in Resources : \E n \in 1..cm.nextID :
            issued[i] = IDString(r.prefix, n)
    /\ \A i, j \in 1..Len(issued) : i < j => issued[i] # issued[j]

\* The number of a new id is past those of all before it, so its text differs from
\* theirs when the prefixes keep the ids of different numbers apart.
LEMMA StepIssuedInv ==
    ASSUME PrefixesApart, RestInv, IssuedInv, [Next]_vars
    PROVE  IssuedInv'
  <1>1. cm.nextID \in 0..MaxID /\ Counts /\ MaxID \in Nat
    BY StepCounts, BoundsAssumption DEF RestInv, ContentInv
  <1>2. CASE issued' = issued /\ cm'.nextID = cm.nextID
    BY <1>2 DEF IssuedInv
  <1>3. ASSUME NEW r \in Resources, NEW n \in 1..MaxID, IsUniqueObjID(cm, r.prefix, n),
               cm'.nextID = n, issued' = Append(issued, IDString(r.prefix, n))
        PROVE  IssuedInv'
    <2> DEFINE l == Len(issued)
               x == IDString(r.prefix, n)
    <2>1. x \in Names /\ n > cm.nextID /\ n \in Nat
      BY <1>1, <1>3, IDStringAssumption DEF IsUniqueObjID
    <2>2. /\ issued \in Seq(Names) /\ l \in Nat
          /\ \A i \in 1..l : \E s \in Resources : \E m \in 1..cm.nextID :
                issued[i] = IDString(s.prefix, m)
          /\ \A i, j \in 1..l : i < j => issued[i] # issued[j]
      BY LenProperties DEF IssuedInv
    <2>3. ASSUME NEW i \in 1..l
          PROVE  issued[i] # x
      <3>1. PICK s \in Resources, m \in 1..cm.nextID : issued[i] = IDString(s.prefix, m)
        BY <2>2
      <3>2. m \in 1..MaxID /\ m # n
        BY <1>1, <2>1
      <3>. QED  BY <3>1, <3>2 DEF PrefixesApart
    <2>. HIDE DEF x
    <2>4. /\ issued' \in Seq(Names) /\ Len(issued') = l + 1
          /\ \A i \in 1..l : issued'[i] = issued[i]
          /\ issued'[l + 1] = x
      <3>1. issued' = Append(issued, x)
        BY <1>3 DEF x
      <3>. QED  BY <2>1, <2>2, <3>1, AppendProperties
    <2>. HIDE DEF l
    <2>5. \A i \in 1..(l + 1) : i \in 1..l \/ i = l + 1
      BY <2>2
    <2>6. ASSUME NEW i \in 1..(l + 1)
          PROVE  \E s \in Resources : \E m \in 1..cm'.nextID : issued'[i] = IDString(s.prefix, m)
      <3>1. CASE i \in 1..l
        <4>1. PICK s \in Resources, m \in 1..cm.nextID : issued[i] = IDString(s.prefix, m)
          BY <2>2, <3>1
        <4>2. m \in 1..cm'.nextID
          BY <1>1, <1>3, <2>1
        <4>. QED  BY <2>4, <3>1, <4>1, <4>2
      <3>2. CASE i = l + 1
        <4>1. n \in 1..cm'.nextID
          BY <1>3, <2>1
        <4>. QED  BY <2>4, <3>2, <4>1 DEF x
      <3>. QED  BY <2>5, <3>1, <3>2
    <2>7. ASSUME NEW i \in 1..(l + 1), NEW j \in 1..(l + 1), i < j
          PROVE  issued'[i] # issued'[j]
      <3>1. i \in 1..l
        BY <2>2, <2>7
      <3>2. CASE j \in 1..l
        BY <2>2, <2>4, <2>7, <3>1, <3>2
      <3>3. CASE j = l + 1
        BY <2>3, <2>4, <3>1, <3>3
      <3>. QED  BY <2>5, <3>2, <3>3
    <2>. QED  BY <2>4, <2>6, <2>7 DEF IssuedInv
  <1>. QED  BY <1>1, <1>2, <1>3 DEF Counts

\* The counter gives no id twice, through deletions, clear, failures and methods that
\* throw alike, in an application whose prefixes keep different numbers apart.
THEOREM IdsIssuedOnce ==
    ASSUME PrefixesApart
    PROVE  Spec => []IssuedOnce
  <1>1. Init => IssuedInv
    BY DEF Init, IssuedInv
  <1>2. RestInv /\ IssuedInv /\ [Next]_vars => IssuedInv'
    BY StepIssuedInv
  <1>3. IssuedInv => IssuedOnce
    <2> SUFFICES ASSUME IssuedInv, NEW i \in 1..Len(issued), NEW j \in 1..Len(issued),
                        issued[i] = issued[j]
                 PROVE  i = j
      BY LenProperties DEF IssuedOnce, IssuedInv
    <2>1. Len(issued) \in Nat /\ ~(i < j) /\ ~(j < i)
      BY LenProperties DEF IssuedInv
    <2>. QED  BY <2>1
  <1>. QED  BY <1>1, <1>2, <1>3, RestInvariant, PTL DEF Spec

\* The graph of relationships stays a graph over the objects that exist.
THEOREM GraphStaysJoined == Spec => []RelationshipsJoinObjects
  <1>1. RestInv => RelationshipsJoinObjects
    BY DEF RestInv, ContentInv, Joined, RelationshipsJoinObjects, Ids
  <1>. QED  BY <1>1, RestInvariant, PTL

\* The order of registration does not decide between patterns of different lengths,
\* nor between one with a wildcard and one without.
THEOREM MostSpecificServed == Spec => []MostSpecificLinked
  <1>1. RestInv => MostSpecificLinked
    BY DEF RestInv, RequestInv, Linked, Best, MostSpecificLinked
  <1>. QED  BY <1>1, RestInvariant, PTL

\* What the server refuses it refuses before the first change, and what an
\* application's method throws after it leaves the lists and the objects there were,
\* unless it is the last of them.
THEOREM RefusalsChangeNothing == Spec => RefusedChangesNothing
  <1> DEFINE Honest(c) ==
        (request[c].phase = "ready" /\ request'[c].phase = "answered" /\ request'[c].code = 400) =>
            /\ request'[c].threw = "none" => cm' = cm
            /\ request'[c].threw # "notifyCfgChange" =>
                    cm'.edges = cm.edges /\ Ids(cm) \subseteq Ids(cm')
  <1>1. RestInv /\ [Next]_vars => \A c \in Conns : Honest(c)
    <2> SUFFICES ASSUME RestInv, [Next]_vars, NEW c \in Conns, cm' # cm,
                        request[c].phase = "ready", request'[c].phase = "answered",
                        request'[c].code = 400
                 PROVE  /\ request'[c].threw # "none"
                        /\ request'[c].threw # "notifyCfgChange" =>
                                cm'.edges = cm.edges /\ Ids(cm) \subseteq Ids(cm')
      BY ZenonT(60)
    <2>0. request = [x \in Conns |-> request[x]] /\ Joined(cm)
      BY DEF RestInv, RequestInv, ContentInv
    <2>1. \A r \in Resources : ~RegisterResource(r)
      BY DEF RegisterResource
    <2>2. ~Start /\ ~Stop /\ ~ClearContent /\ ~UNCHANGED vars
      BY DEF Start, Stop, ClearContent, vars
    <2>3. PICK d \in Conns : Execute(d)
      BY <2>1, <2>2, ZenonT(60) DEF Next, NewRequest, ContinueRequest, Complete, Abort,
                        ClearRepresentation
    <2>4. ~(\E f : ErrorResponse(d) \/ Throws(d, f))
      BY DEF ErrorResponse, Throws
    <2>5. PutObject(d) \/ DeleteObject(d) \/ PostList(d)
      BY <2>3, <2>4 DEF Execute, GetList, GetObject, GetStatus, NotImplemented
    <2>6. ASSUME NEW q, request' = [request EXCEPT ![d] = q]
          PROVE  d = c /\ request'[c] = q
      <3>1. d = c
        BY <2>0, <2>6
      <3>. QED  BY <2>0, <2>6, <3>1
    <2>7. ASSUME NEW w, NEW q, cm' = w.cm, request' = [request EXCEPT ![d] = q],
                 w.failed \notin {"none", "NULL"}, q = ThrownRecord(w.failed),
                 w.failed # "notifyCfgChange" =>
                    w.cm.edges = cm.edges /\ DOMAIN cm.objMap \subseteq DOMAIN w.cm.objMap
          PROVE  /\ request'[c].threw # "none"
                 /\ request'[c].threw # "notifyCfgChange" =>
                            cm'.edges = cm.edges /\ Ids(cm) \subseteq Ids(cm')
      <3>1. request'[c].threw = w.failed
        BY <2>6, <2>7, RefusalsReply
      <3>. QED  BY <2>7, <3>1 DEF Ids
    <2>9. ASSUME NEW n, NEW url, NEW params, NEW fields, PostGoes(d, n, url, params, fields)
          PROVE  /\ request'[c].threw # "none"
                 /\ request'[c].threw # "notifyCfgChange" =>
                            cm'.edges = cm.edges /\ Ids(cm) \subseteq Ids(cm')
      <3> DEFINE r == request[d].link[1]
                 t == TerminalID(r, params)
                 a == AnswerRecord(201, Append(url, IDString(r.prefix, n)),
                                   Rep!EmptyRepresentation)
      <3>1. Goes(d, PostWays(cm, r, t, fields, n), a)
        BY <2>9 DEF PostGoes
      <3>2a. PICK w \in PostWays(cm, r, t, fields, n) : \E q : Gone(d, w, a, q)
        <4>. HIDE DEF a
        <4>. QED  BY <3>1, WayGone
      <3>2. PICK q : Gone(d, w, a, q)
        BY <3>2a
      <3>3. w.failed \notin {"none", "NULL"}
        <4>1. a.code = 201
          BY DEF AnswerRecord
        <4>2. request'[c] = q
          BY <2>6, <3>2 DEF Gone
        <4>. HIDE DEF a
        <4>. QED  BY <3>2, <4>1, <4>2 DEF Gone
      <3>. HIDE DEF r, t, a
      <3>4. PostRelates(cm, r, t, n, w)
        BY <2>0, PostWaysRelate
      <3>5. w.failed # "notifyCfgChange" =>
                w.cm.edges = cm.edges /\ DOMAIN cm.objMap \subseteq DOMAIN w.cm.objMap
        BY <3>3, <3>4 DEF PostRelates
      <3>. QED  BY <2>7, <3>2, <3>3, <3>5 DEF Gone
    <2>10. CASE PutObject(d)
      <3> DEFINE id == TerminalID(request[d].link[1], request[d].params)
                 f  == FieldsOf(request[d])
                 a  == AnswerRecord(200, <<>>, Rep!EmptyRepresentation)
      <3>1. Goes(d, PutWays(cm, id, f), a)
        BY <2>4, <2>10, Zenon DEF PutObject
      <3>2a. PICK w \in PutWays(cm, id, f) : \E q : Gone(d, w, a, q)
        <4>. HIDE DEF a
        <4>. QED  BY <3>1, WayGone
      <3>2. PICK q : Gone(d, w, a, q)
        BY <3>2a
      <3>3. w.failed \notin {"none", "NULL"}
        <4>1. a.code = 200
          BY DEF AnswerRecord
        <4>2. request'[c] = q
          BY <2>6, <3>2 DEF Gone
        <4>. HIDE DEF a
        <4>. QED  BY <3>2, <4>1, <4>2 DEF Gone
      <3>4. w.cm.edges = cm.edges /\ DOMAIN w.cm.objMap = DOMAIN cm.objMap
        <4>. HIDE DEF id, f
        <4>. QED  BY <2>0, PutWaysRelate
      <3>. QED  BY <2>7, <3>2, <3>3, <3>4 DEF Gone
    <2>11. CASE DeleteObject(d)
      <3> DEFINE id == TerminalID(request[d].link[1], request[d].params)
                 a  == AnswerRecord(200, <<>>, Rep!EmptyRepresentation)
      <3>1. Goes(d, DeleteWays(cm, id), a)
        BY <2>4, <2>11, Zenon DEF DeleteObject
      <3>2a. PICK w \in DeleteWays(cm, id) : \E q : Gone(d, w, a, q)
        <4>. HIDE DEF a
        <4>. QED  BY <3>1, WayGone
      <3>2. PICK q : Gone(d, w, a, q)
        BY <3>2a
      <3>3. w.failed \notin {"none", "NULL"}
        <4>1. a.code = 200
          BY DEF AnswerRecord
        <4>2. request'[c] = q
          BY <2>6, <3>2 DEF Gone
        <4>. HIDE DEF a
        <4>. QED  BY <3>2, <4>1, <4>2 DEF Gone
      <3>4. w.failed = "notifyCfgChange"
        BY <2>0, <3>3, DeleteWaysJoin
      <3>. QED  BY <2>7, <3>2, <3>3, <3>4 DEF Gone
    <2>. QED  BY <2>4, <2>5, <2>9, <2>10, <2>11, PostCases
  <1>. QED  BY <1>1, RestInvariant, PTL DEF Spec, RefusedChangesNothing

\* No buffer of a request or an answer overflows, however a body is cut into pieces
\* and whatever the step by which buffers grow (HNRESTRepresentation.cpp,
\* appendDataToBuffer).
THEOREM BuffersSuffice == Spec => []BufferHoldsData
  <1>1. RestInv => BufferHoldsData
    <2> SUFFICES ASSUME RestInv, NEW c \in Conns, request[c].phase # "none"
                 PROVE  LET q == request[c]
                            rep == IF q.phase = "answered" THEN q.outRep ELSE q.inRep
                        IN  \A b \in Rep!Buffers(rep) : Holds(b)
      BY DEF BufferHoldsData, Holds
    <2>1. Buffered(request[c])
      BY DEF RestInv, BufferInv
    <2>. QED  BY <2>1, CarriedHold DEF Buffered
  <1>. QED  BY <1>1, RestInvariant, PTL
--------------------------------------------------------------------------------
(* Where a Location leads.                                                 *)

\* Where the pattern of o has the parameter of its i-th relationship, and the id a
\* URL names there.
Position(o, i) == CHOOSE j \in DOMAIN o.elems : o.elems[j] = Param(o.rels[i].param)

IdAt(o, url, i) == IF i = 0 THEN Root ELSE url[Position(o, i)]

\* Each object a URL names is in the list of the one before it.
Stands(m, o, url) ==
    \A i \in DOMAIN o.rels :
        [rel |-> o.rels[i].list, ends |-> {IdAt(o, url, i - 1), IdAt(o, url, i)}] \in m.edges

\* The object resource of a list has the list's pattern and relationships and one more
\* of each.
LEMMA ServesExtends ==
    ASSUME ResourcesFit, NEW l \in Resources, Creates(l), NEW o \in Resources, Serves(l, o)
    PROVE  /\ Len(l.elems) \in Nat /\ Len(o.elems) = Len(l.elems) + 1
           /\ \A j \in 1..Len(l.elems) : o.elems[j] = l.elems[j]
           /\ o.elems[Len(o.elems)] = Param(o.rels[Len(o.rels)].param)
           /\ Len(l.rels) \in Nat /\ Len(o.rels) = Len(l.rels) + 1
           /\ DOMAIN l.rels = 1..Len(l.rels) /\ DOMAIN o.rels = 1..Len(o.rels)
           /\ \A i \in 1..Len(l.rels) : o.rels[i] = l.rels[i]
           /\ o.rels[Len(o.rels)].list = l.list
  <1>1. l.rels \in Seq([list : STRING, param : STRING])
    BY DEF ResourcesFit
  <1>2. l.elems \in Seq([match : {"STRING", "PARAM", "WILDCARD"}, name : Names])
    BY ResourcesAssumption
  <1> DEFINE x == Last(o.rels).param
             p == [list |-> l.list, param |-> x]
  <1>3. o.rels = Append(l.rels, p) /\ o.elems = Append(l.elems, Param(x))
    BY DEF Serves
  <1>4. x = o.rels[Len(o.rels)].param
    BY DEF Last
  <1>. HIDE DEF x
  <1>5. /\ Len(l.elems) \in Nat /\ Len(o.elems) = Len(l.elems) + 1
        /\ \A j \in 1..Len(l.elems) : o.elems[j] = l.elems[j]
        /\ o.elems[Len(l.elems) + 1] = Param(x)
    BY <1>2, <1>3
  <1>6. /\ Len(l.rels) \in Nat /\ Len(o.rels) = Len(l.rels) + 1
        /\ DOMAIN l.rels = 1..Len(l.rels) /\ DOMAIN o.rels = 1..Len(o.rels)
        /\ \A i \in 1..Len(l.rels) : o.rels[i] = l.rels[i]
        /\ o.rels[Len(l.rels) + 1] = p
    BY <1>1, <1>3
  <1>7. o.elems[Len(o.elems)] = Param(o.rels[Len(o.rels)].param)
    BY <1>4, <1>5
  <1>8. o.rels[Len(o.rels)].list = l.list
    BY <1>6
  <1>. HIDE DEF p
  <1>. QED  BY <1>5, <1>6, <1>7, <1>8

\* A parameter is at one position of a pattern; that of the last relationship at the end.
LEMMA Positions ==
    ASSUME ResourcesFit, NEW l \in Resources, Creates(l), NEW o \in Resources, Serves(l, o),
           NEW i \in 1..Len(o.rels)
    PROVE  /\ Position(o, i) \in Params(o)
           /\ o.elems[Position(o, i)] = Param(o.rels[i].param)
           /\ Position(o, Len(o.rels)) = Len(o.elems)
           /\ i <= Len(l.rels) => Position(o, i) \in 1..Len(l.elems)
  <1>1. /\ Len(o.elems) \in Nat /\ DOMAIN o.elems = 1..Len(o.elems)
        /\ Len(l.elems) \in Nat /\ DOMAIN l.elems = 1..Len(l.elems)
    BY PatternElements
  <1>2. \A j, k \in 1..Len(o.elems) : \A t :
            o.elems[j] = Param(t) /\ o.elems[k] = Param(t) => j = k
    <2> SUFFICES ASSUME NEW j \in 1..Len(o.elems), NEW k \in 1..Len(o.elems), NEW t,
                        o.elems[j] = Param(t), o.elems[k] = Param(t)
                 PROVE  j = k
      OBVIOUS
    <2>1. j \in Params(o) /\ k \in Params(o) /\ o.elems[j].name = o.elems[k].name
      BY <1>1 DEF Params, Param
    <2>2. ~Differ(o, o, j - 1)
      BY DEF Differ
    <2>3. j <= Len(o.elems)
      BY <1>1
    <2>. QED  BY <2>1, <2>2, <2>3 DEF Serves, ParamsApart
  <1> DEFINE t == o.rels[i].param
  <1>3. ASSUME i <= Len(l.rels)
        PROVE  /\ Position(o, i) \in 1..Len(l.elems)
               /\ o.elems[Position(o, i)] = Param(t)
    <2>1. i \in DOMAIN l.rels /\ o.rels[i] = l.rels[i]
      BY <1>3, ServesExtends
    <2>2. PICK j \in DOMAIN l.elems : l.elems[j] = Param(l.rels[i].param)
      BY <2>1 DEF ResourcesFit
    <2>3. j \in 1..Len(l.elems) /\ j \in DOMAIN o.elems /\ o.elems[j] = Param(t)
      BY <1>1, <2>1, <2>2, ServesExtends
    <2>4. Position(o, i) = j
      BY <1>1, <1>2, <2>3 DEF Position
    <2>. QED  BY <2>3, <2>4
  <1>4. Position(o, Len(o.rels)) = Len(o.elems)
    <2>1. Len(o.elems) \in DOMAIN o.elems /\ o.elems[Len(o.elems)] = Param(o.rels[Len(o.rels)].param)
      BY <1>1, ServesExtends
    <2>. QED  BY <1>1, <1>2, <2>1 DEF Position
  <1>5. i <= Len(l.rels) \/ i = Len(o.rels)
    BY ServesExtends
  <1>6. Position(o, i) \in DOMAIN o.elems /\ o.elems[Position(o, i)] = Param(t)
    BY <1>1, <1>3, <1>4, <1>5, ServesExtends
  <1>7. Position(o, i) \in Params(o)
    BY <1>6 DEF Params, Param
  <1>. QED  BY <1>3, <1>4, <1>6, <1>7

\* The parameters a URL leaves, whatever was tried, are the ids it names.
LEMMA ParametersAreIds ==
    ASSUME ResourcesFit, NEW l \in Resources, Creates(l), NEW o \in Resources, Serves(l, o),
           NEW url \in URLs, Len(url) <= Len(o.elems), Mismatches(o, url) = {},
           NEW p \in Parameters(url), NEW i \in 1..Len(o.rels),
           o.rels[i].param \in DOMAIN p
    PROVE  p[o.rels[i].param] = IdAt(o, url, i)
  <1> DEFINE j == Position(o, i)
             n == o.rels[i].param
  <1>1. j \in Params(o) /\ o.elems[j].name = n
    <2>1. j \in Params(o) /\ o.elems[j] = Param(o.rels[i].param)
      BY Positions
    <2>. QED  BY <2>1 DEF Param
  <1>2. PICK r \in Resources : \E k \in Params(r) :
            /\ r.elems[k].name = n /\ k \in 1..Len(url) /\ p[n] = url[k]
            /\ \A m \in Mismatches(r, url) : k < m
    BY DEF Parameters, Followed
  <1>3. PICK k \in Params(r) :
            /\ r.elems[k].name = n /\ k \in 1..Len(url) /\ p[n] = url[k]
            /\ \A m \in Mismatches(r, url) : k < m
    BY <1>2
  <1>4. Len(url) \in Nat /\ Len(o.elems) \in Nat /\ DOMAIN url = 1..Len(url)
    BY PatternElements, LenProperties DEF URLs
  <1>5. k = j \/ Differ(r, o, k - 1)
    <2>1. k <= Len(o.elems)
      BY <1>3, <1>4
    <2>. HIDE DEF j, n
    <2>. QED  BY <1>1, <1>3, <2>1 DEF Serves, ParamsApart
  <1>6. ~Differ(r, o, k - 1)
    <2> SUFFICES ASSUME Differ(r, o, k - 1) PROVE FALSE
      OBVIOUS
    <2>1. PICK m \in 1..(k - 1) :
            /\ m \in DOMAIN r.elems /\ m \in DOMAIN o.elems
            /\ r.elems[m].match = "STRING" /\ o.elems[m].match = "STRING"
            /\ r.elems[m].name # o.elems[m].name
      BY DEF Differ
    <2>2. m \in DOMAIN url /\ m < k
      BY <1>3, <1>4
    <2>3. o.elems[m].name = url[m]
      BY <2>1, <2>2 DEF Mismatches
    <2>4. m \in Mismatches(r, url)
      BY <2>1, <2>2, <2>3 DEF Mismatches
    <2>5. k < m
      BY <1>3, <2>4
    <2>. QED  BY <1>3, <1>4, <2>2, <2>5
  <1>7. IdAt(o, url, i) = url[j]
    <2>1. i # 0
      BY ServesExtends
    <2>. QED  BY <2>1 DEF IdAt
  <1>. QED  BY <1>3, <1>5, <1>6, <1>7

\* A GET for a URL of o's pattern is linked to o.
LEMMA ScanLeads ==
    ASSUME ResourcesFit, NEW l \in Resources, Creates(l), NEW o \in Resources, Serves(l, o),
           NEW url \in URLs, Len(url) = Len(o.elems), Mismatches(o, url) = {},
           NEW list \in Seq(Resources), Sorted(list), Range(list) = Resources,
           NEW s, s = Scan(list, "GET", url)
    PROVE  s.found /\ s.link[1] = o
  <1>1. Len(o.elems) \in Nat /\ Len(o.elems) > 0 /\ ~hasWildcardMatch(o)
    <2>1. o.elems[Len(o.elems)].match = "PARAM"
      <3>1. o.elems[Len(o.elems)] = Param(o.rels[Len(o.rels)].param)
        BY ServesExtends
      <3>. QED  BY <3>1 DEF Param
    <2>. QED  BY <2>1, PatternElements, ServesExtends DEF hasWildcardMatch, Last
  <1>2. Accepts(o, "GET", url)
    BY <1>1 DEF Accepts, getMatchCount, Serves
  <1>3. s.found
    <2>1. PICK j \in DOMAIN list : list[j] = o
      BY DEF Range
    <2>2. j \in Linkable(list, "GET", url)
      BY <1>2, <2>1 DEF Linkable
    <2>. QED  BY <2>2 DEF Scan
  <1> DEFINE r == s.link[1]
  <1>4. r \in Resources /\ Accepts(r, "GET", url) /\ Best(r, "GET", url)
    BY <1>3, ScanFindsBest, ScanParameters
  <1>. HIDE DEF r
  <1>5. getMatchCount(r) \in Nat
    BY <1>4, SortIsOrder
  <1>6. getMatchCount(r) = getMatchCount(o) + (IF hasWildcardMatch(r) THEN 1 ELSE 0)
    <2>1. /\ getMatchCount(o) <= getMatchCount(r)
          /\ getMatchCount(o) = getMatchCount(r) => ~hasWildcardMatch(r)
      BY <1>1, <1>2, <1>4 DEF Best
    <2>2. IF hasWildcardMatch(r) THEN Len(url) >= getMatchCount(r) - 1
                                 ELSE Len(url) = getMatchCount(r)
      BY <1>4 DEF Accepts
    <2>3. getMatchCount(o) = Len(url) /\ Len(url) \in Nat
      BY <1>1 DEF getMatchCount
    <2>4. CASE hasWildcardMatch(r)
      BY <1>5, <2>1, <2>2, <2>3, <2>4
    <2>5. CASE ~hasWildcardMatch(r)
      BY <2>2, <2>3, <2>5
    <2>. QED  BY <2>4, <2>5
  <1>7. ~Differ(r, o, Len(o.elems))
    <2> SUFFICES ASSUME Differ(r, o, Len(o.elems)) PROVE FALSE
      OBVIOUS
    <2>1. PICK m \in 1..Len(o.elems) :
            /\ m \in DOMAIN r.elems /\ m \in DOMAIN o.elems
            /\ r.elems[m].match = "STRING" /\ o.elems[m].match = "STRING"
            /\ r.elems[m].name # o.elems[m].name
      BY DEF Differ
    <2>2. m \in DOMAIN url
      BY LenProperties DEF URLs
    <2>3. o.elems[m].name = url[m]
      BY <2>1, <2>2 DEF Mismatches
    <2>4. m \in Mismatches(r, url)
      BY <2>1, <2>2, <2>3 DEF Mismatches
    <2>. QED  BY <1>4, <2>4 DEF Accepts
  <1>8. "GET" \in r.methods
    BY <1>4 DEF Accepts
  <1>9. r = o
    BY <1>4, <1>6, <1>7, <1>8 DEF Serves, Unrivalled
  <1>. QED  BY <1>3, <1>9 DEF r
\* A request under way has an URL its resource accepts, and parameters from it.
Routed(q) ==
    /\ "params" \in DOMAIN q
    /\ q.url \in URLs
    /\ q.link[1] \in Resources
    /\ Accepts(q.link[1], q.method, q.url)
    /\ q.params \in Parameters(q.url)

WayInv == \A c \in Conns : request[c].phase \in {"upload", "ready"} => Routed(request[c])

\* The root is there, and is below nothing.
RootInv ==
    /\ Root \in Ids(cm)
    /\ \A e \in cm.edges : Root \in e.ends => e.rel \in RootLists /\ e.ends # {Root}

\* A Location is a URL of an object resource, and what it names stands as long as none
\* of it was deleted.
Placed(url) ==
    /\ Range(resourceList) = Resources
    /\ url \in URLs /\ Last(url) # Root
    /\ \E l, o \in Resources :
        /\ Creates(l) /\ Serves(l, o)
        /\ Len(url) = Len(o.elems) /\ Mismatches(o, url) = {}
        /\ Range(url) \cap gone = {} => Stands(cm, o, url)

Held(c) ==
    {location[c]} \cup (IF request[c].phase = "answered" THEN {request[c].loc} ELSE {})

HeldInv ==
    /\ location = [c \in Conns |-> location[c]]
    /\ \A c \in Conns : \A url \in Held(c) : url # <<>> => Placed(url)

LocationInv == WayInv /\ RootInv /\ HeldInv

\* What a URL names lies below the root and in the URL.
LEMMA StandsInside ==
    ASSUME ResourcesFit, NEW l \in Resources, Creates(l), NEW o \in Resources, Serves(l, o),
           NEW url \in URLs, Len(url) = Len(o.elems), NEW i \in 1..Len(o.rels)
    PROVE  /\ {IdAt(o, url, i - 1), IdAt(o, url, i)} \subseteq {Root} \cup Range(url)
           /\ IdAt(o, url, Len(o.rels)) = Last(url) /\ Last(url) \in Range(url)
  <1>1. DOMAIN url = 1..Len(url) /\ Len(o.elems) \in Nat /\ DOMAIN o.elems = 1..Len(o.elems)
    BY PatternElements, LenProperties DEF URLs
  <1>2. ASSUME NEW k \in 1..Len(o.rels)
        PROVE  IdAt(o, url, k) \in Range(url)
    <2>1. Position(o, k) \in DOMAIN url
      <3>1. Position(o, k) \in Params(o)
        BY Positions
      <3>. QED  BY <1>1, <3>1 DEF Params
    <2>2. k # 0
      BY ServesExtends
    <2>. QED  BY <2>1, <2>2 DEF IdAt, Range
  <1>3. i = 1 \/ i - 1 \in 1..Len(o.rels)
    BY ServesExtends
  <1>4. IdAt(o, url, i - 1) \in {Root} \cup Range(url)
    BY <1>2, <1>3 DEF IdAt
  <1>5. Len(o.rels) \in 1..Len(o.rels) /\ Len(o.rels) # 0
    BY ServesExtends
  <1>6. IdAt(o, url, Len(o.rels)) = Last(url)
    <2>1. Position(o, Len(o.rels)) = Len(o.elems)
      BY Positions
    <2>. QED  BY <1>5, <2>1 DEF IdAt, Last
  <1>. QED  BY <1>2, <1>4, <1>5, <1>6

\* A step that keeps the relationships among what a URL names keeps its place.
LEMMA PlaceKept ==
    ASSUME ResourcesFit, NEW url, Placed(url), resourceList' = resourceList,
           gone \subseteq gone',
           Range(url) \cap gone' = {} =>
                \A e \in cm.edges : e.ends \subseteq {Root} \cup Range(url) => e \in cm'.edges
    PROVE  Placed(url)'
  <1>1. PICK l \in Resources, o \in Resources :
            /\ Creates(l) /\ Serves(l, o)
            /\ Len(url) = Len(o.elems) /\ Mismatches(o, url) = {}
            /\ Range(url) \cap gone = {} => Stands(cm, o, url)
    BY DEF Placed
  <1>2. url \in URLs
    BY DEF Placed
  <1>3. ASSUME Range(url) \cap gone' = {}
        PROVE  Stands(cm', o, url)
    <2> SUFFICES ASSUME NEW i \in 1..Len(o.rels)
                 PROVE  [rel |-> o.rels[i].list, ends |-> {IdAt(o, url, i - 1), IdAt(o, url, i)}]
                            \in cm'.edges
      BY <1>1, ServesExtends DEF Stands
    <2> DEFINE e == [rel |-> o.rels[i].list, ends |-> {IdAt(o, url, i - 1), IdAt(o, url, i)}]
    <2>1. Stands(cm, o, url)
      BY <1>1, <1>3
    <2>2. e \in cm.edges
      BY <1>1, <2>1, ServesExtends DEF Stands
    <2>3. e.ends \subseteq {Root} \cup Range(url)
      BY <1>1, <1>2, StandsInside
    <2>. HIDE DEF e
    <2>. QED  BY <1>3, <2>2, <2>3 DEF e
  <1>. QED  BY <1>1, <1>3 DEF Placed

\* The same of every Location there is.
LEMMA HeldKept ==
    ASSUME ResourcesFit, HeldInv, resourceList' = resourceList, gone \subseteq gone',
           location' = [c \in Conns |-> location'[c]],
           \A c \in Conns : \A url \in Held(c)' :
                url # <<>> => Placed(url)' \/ \E d \in Conns : url \in Held(d),
           \A url : url # <<>> /\ Placed(url) /\ Range(url) \cap gone' = {} =>
                \A e \in cm.edges : e.ends \subseteq {Root} \cup Range(url) => e \in cm'.edges
    PROVE  HeldInv'
  <1> SUFFICES ASSUME NEW c \in Conns, NEW url \in Held(c)', url # <<>>
               PROVE  Placed(url)'
    BY DEF HeldInv
  <1>1. CASE \E d \in Conns : url \in Held(d)
    <2>1. Placed(url)
      BY <1>1 DEF HeldInv
    <2>. QED  BY <2>1, PlaceKept
  <1>. QED  BY <1>1

LEMMA InitLocationInv == ResourcesFit /\ Init => LocationInv
  <1> SUFFICES ASSUME ResourcesFit, Init PROVE LocationInv
    OBVIOUS
  <1>1. WayInv
    BY DEF Init, WayInv, NoRequest
  <1>2. RootInv
    <2> DEFINE objs == [x \in {Root} \cup {o.id : o \in Loaded} |->
                          IF x = Root THEN RootObject
                          ELSE [type |-> (CHOOSE o \in Loaded : o.id = x).type,
                                fields |-> NoFields]]
               es == {[rel |-> o.rel, ends |-> {Root, o.id}] : o \in Loaded}
    <2>1. cm = [objMap |-> objs, edges |-> es, nextID |-> 0]
      BY DEF Init, ManagerInit
    <2>2. Root \in DOMAIN objs
      OBVIOUS
    <2>3. \A e \in es : e.rel \in RootLists /\ e.ends # {Root}
      <3> SUFFICES ASSUME NEW x \in Loaded
                   PROVE  x.rel \in RootLists /\ {Root, x.id} # {Root}
        OBVIOUS
      <3>1. x.id # Root
        BY DEF ResourcesFit
      <3>. QED  BY <3>1 DEF RootLists
    <2>. HIDE DEF objs, es
    <2>. QED  BY <2>1, <2>2, <2>3 DEF RootInv, Ids
  <1>3. HeldInv
    BY DEF Init, HeldInv, Held, NoRequest
  <1>. QED  BY <1>1, <1>2, <1>3 DEF LocationInv

\* The object a resolved request is about: it is there, and not the root unless
\* the resource hangs from nothing.
LEMMA TerminalThere ==
    ASSUME RestInv, RootInv, ResourcesFit, NEW r \in Resources, NEW params,
           Resolves(r, params)
    PROVE  /\ TerminalID(r, params) \in DOMAIN cm.objMap
           /\ NoWayToRoot(r) /\ r.rels # <<>> => TerminalID(r, params) # Root
           /\ TerminalID(r, params) = Root => r.rels = <<>> \/ ~NoWayToRoot(r)
  <1>1. CASE r.rels = <<>>
    BY <1>1 DEF TerminalID, RootInv, Ids
  <1>2. CASE r.rels # <<>>
    <2> DEFINE n == Len(r.rels)
               x == params[r.rels[n].param]
               y == IF n - 1 = 0 THEN Root ELSE params[r.rels[n - 1].param]
               e == [rel |-> r.rels[n].list, ends |-> {y, x}]
    <2>1. n \in DOMAIN r.rels /\ n \in Nat /\ n > 0
      <3>1. r.rels \in Seq([list : STRING, param : STRING])
        BY DEF ResourcesFit
      <3>. QED  BY <1>2, <3>1
    <2>2. TerminalID(r, params) = x
      BY <1>2 DEF TerminalID, Last
    <2>3. e \in cm.edges
      BY <2>1 DEF Resolves, hasRelationship
    <2>4. e.ends \subseteq DOMAIN cm.objMap
      <3>. HIDE DEF e
      <3>. QED  BY <2>3 DEF RestInv, ContentInv, Joined
    <2>5. x \in DOMAIN cm.objMap
      BY <2>4
    <2>6. ASSUME NoWayToRoot(r), x = Root
          PROVE  FALSE
      <3>1. Root \in e.ends
        BY <2>6
      <3>2. e.rel \in RootLists /\ e.ends # {Root}
        <4>. HIDE DEF e
        <4>. QED  BY <2>3, <3>1 DEF RootInv
      <3>3. n >= 2 => r.rels[n].list \notin RootLists
        BY <2>6 DEF NoWayToRoot, Last
      <3>4. r.rels[n].list \in RootLists
        BY <3>2
      <3>. HIDE DEF e
      <3>5. n = 1
        <4>1. ~(n >= 2)
          BY <3>3, <3>4
        <4>2. n \in Nat /\ n > 0
          BY <2>1
        <4>. HIDE DEF n
        <4>. QED  BY <4>1, <4>2
      <3>6. e.ends = {Root}
        BY <2>6, <3>5 DEF e
      <3>. QED  BY <3>2, <3>6
    <2>. HIDE DEF x
    <2>. QED  BY <1>2, <2>2, <2>5, <2>6
  <1>. QED  BY <1>1, <1>2

\* The URL of an object a POST relates to its parent is in its place; so is one whose
\* object was never made, and counts as gone.
LEMMA CreatedIsPlaced ==
    ASSUME RestInv, LocationInv, ResourcesFit, NEW r \in Resources, Creates(r),
           Range(resourceList) = Resources,
           NEW url \in URLs, Accepts(r, "POST", url),
           NEW params \in Parameters(url), Resolves(r, params),
           NEW n \in 1..MaxID,
           IDString(r.prefix, n) \notin gone' =>
                cm'.edges = cm.edges \cup
                    {[rel |-> r.list, ends |-> {TerminalID(r, params), IDString(r.prefix, n)}]},
           UNCHANGED resourceList
    PROVE  Placed(Append(url, IDString(r.prefix, n)))'
  <1> DEFINE id == IDString(r.prefix, n)
             u == Append(url, id)
             k == Len(url)
  <1>1. PICK o \in Resources : Serves(r, o)
    BY DEF ResourcesFit
  <1>2. id \in Names /\ id # Root
    BY IDStringAssumption
  <1>3. /\ u \in URLs /\ k \in Nat /\ Len(u) = k + 1 /\ u[k + 1] = id
        /\ \A j \in 1..k : u[j] = url[j]
        /\ DOMAIN u = 1..(k + 1) /\ DOMAIN url = 1..k
    BY <1>2, LenProperties, AppendProperties DEF URLs
  <1>. HIDE DEF u
  <1>4. k = Len(r.elems)
    <2>1. ~hasWildcardMatch(r)
      <3>1. r.elems # <<>> => Len(r.elems) \in DOMAIN r.elems
        <4>1. r.elems \in Seq([match : {"STRING", "PARAM", "WILDCARD"}, name : Names])
          BY ResourcesAssumption
        <4>. QED  BY <4>1
      <3>2. Len(r.elems) > 0 => r.elems # <<>>
        OBVIOUS
      <3>. QED  BY <3>1, <3>2 DEF ResourcesFit, hasWildcardMatch, Last
    <2>. QED  BY <2>1 DEF Accepts, getMatchCount
  <1>5. Len(u) = Len(o.elems)
    BY <1>1, <1>3, <1>4, ServesExtends
  <1>6. /\ DOMAIN r.elems = 1..Len(r.elems)
        /\ Len(o.elems) \in Nat /\ DOMAIN o.elems = 1..Len(o.elems)
    BY PatternElements
  <1>7. Mismatches(r, url) = {}
    BY DEF Accepts
  <1>8. Mismatches(o, u) = {} /\ Mismatches(o, url) = {}
    <2>1. \A j \in 1..k : o.elems[j].match = "STRING" => o.elems[j].name = url[j]
      BY <1>1, <1>3, <1>4, <1>6, <1>7, ServesExtends DEF Mismatches
    <2>2. o.elems[k + 1].match # "STRING"
      <3>1. o.elems[Len(o.elems)] = Param(o.rels[Len(o.rels)].param)
        BY <1>1, ServesExtends
      <3>. QED  BY <1>3, <1>5, <3>1 DEF Param
    <2>. QED  BY <1>3, <1>5, <1>6, <2>1, <2>2 DEF Mismatches
  <1>9. Last(u) = id
    BY <1>3 DEF Last
  <1> DEFINE t == TerminalID(r, params)
             new == [rel |-> r.list, ends |-> {t, id}]
  <1>11. id \notin gone' => cm'.edges = cm.edges \cup {new}
    OBVIOUS
  <1>12. ASSUME NEW i \in 1..Len(r.rels)
         PROVE  /\ r.rels[i].param \in DOMAIN params
                /\ params[r.rels[i].param] = IdAt(o, u, i)
    <2>1. i \in DOMAIN r.rels /\ i \in 1..Len(o.rels) /\ o.rels[i] = r.rels[i]
      BY <1>1, ServesExtends
    <2>2. r.rels[i].param \in DOMAIN params
      BY <2>1 DEF Resolves
    <2>3. params[r.rels[i].param] = IdAt(o, url, i)
      <3>1. Len(url) <= Len(o.elems)
        BY <1>3, <1>5
      <3>. QED  BY <1>1, <1>8, <2>1, <2>2, <3>1, ParametersAreIds
    <2>4. Position(o, i) \in 1..k
      <3>1. i <= Len(r.rels)
        BY <1>1, ServesExtends
      <3>. QED  BY <1>1, <1>4, <2>1, <3>1, Positions
    <2>5. IdAt(o, url, i) = IdAt(o, u, i)
      BY <1>3, <2>4 DEF IdAt
    <2>. QED  BY <2>2, <2>3, <2>5
  <1>13. t = IdAt(o, u, Len(r.rels))
    <2>1. CASE r.rels = <<>>
      BY <2>1 DEF TerminalID, IdAt
    <2>2. CASE r.rels # <<>>
      <3>1. Len(r.rels) \in 1..Len(r.rels)
        <4>1. r.rels \in Seq([list : STRING, param : STRING])
          BY DEF ResourcesFit
        <4>. QED  BY <2>2, <4>1
      <3>2. t = params[r.rels[Len(r.rels)].param]
        BY <2>2 DEF TerminalID, Last
      <3>. HIDE DEF t
      <3>. QED  BY <1>12, <3>1, <3>2
    <2>. QED  BY <2>1, <2>2
  <1>14. ASSUME id \notin gone', NEW i \in DOMAIN o.rels
         PROVE  [rel |-> o.rels[i].list, ends |-> {IdAt(o, u, i - 1), IdAt(o, u, i)}] \in cm'.edges
    <2>0. /\ i \in 1..Len(o.rels) /\ Len(r.rels) \in Nat /\ Len(o.rels) = Len(r.rels) + 1
          /\ DOMAIN r.rels = 1..Len(r.rels)
      BY <1>1, ServesExtends
    <2>1. CASE i <= Len(r.rels)
      <3>1. i \in 1..Len(r.rels) /\ o.rels[i] = r.rels[i]
        BY <1>1, <2>0, <2>1, ServesExtends
      <3> DEFINE y == IF i - 1 = 0 THEN Root ELSE params[r.rels[i - 1].param]
      <3>2. [rel |-> r.rels[i].list, ends |-> {y, params[r.rels[i].param]}] \in cm.edges
        BY <2>0, <3>1 DEF Resolves, hasRelationship
      <3>3. i - 1 = 0 \/ i - 1 \in 1..Len(r.rels)
        BY <2>0, <3>1
      <3>4. y = IdAt(o, u, i - 1)
        BY <1>12, <3>3 DEF IdAt
      <3>5. params[r.rels[i].param] = IdAt(o, u, i)
        BY <1>12, <3>1
      <3>. HIDE DEF y, new
      <3>. QED  BY <1>11, <1>14, <3>1, <3>2, <3>4, <3>5
    <2>2. CASE i = Len(o.rels)
      <3>1. o.rels[i].list = r.list
        BY <1>1, <2>2, ServesExtends
      <3>2. IdAt(o, u, i) = id
        BY <1>1, <1>3, <1>5, <1>9, <2>0, <2>2, StandsInside
      <3>3. IdAt(o, u, i - 1) = t
        BY <1>13, <2>0, <2>2
      <3>. HIDE DEF t, id
      <3>. QED  BY <1>11, <1>14, <3>1, <3>2, <3>3
    <2>. QED  BY <2>0, <2>1, <2>2
  <1>. HIDE DEF id
  <1>15. Range(u) \cap gone' = {} => Stands(cm', o, u)
    <2>1. id \in Range(u)
      BY <1>3 DEF Range
    <2>. QED  BY <1>14, <2>1 DEF Stands
  <1>16. Placed(u)'
    BY <1>1, <1>2, <1>3, <1>5, <1>8, <1>9, <1>15 DEF Placed
  <1>. QED  BY <1>16 DEF u, id

\* A step that puts q in the place of a request.
LEMMA WaySet ==
    ASSUME RestInv, WayInv, NEW c \in Conns, NEW q, request' = [request EXCEPT ![c] = q],
           q.phase \in {"upload", "ready"} => Routed(q)
    PROVE  WayInv'
  BY DEF RestInv, RequestInv, WayInv

LEMMA StepWayInv ==
    ASSUME RestInv, LocationInv, [Next]_vars
    PROVE  WayInv'
  <1>0. WayInv
    BY DEF LocationInv
  <1>1. CASE request' = request
    BY <1>0, <1>1 DEF WayInv
  <1>2. CASE request' = [c \in Conns |-> NoRequest]
    BY <1>2 DEF WayInv, NoRequest
  <1>6. ASSUME NEW c \in Conns, NEW a, a.url \in URLs,
               NewRequest(c, a.method, a.url, a.body)
        PROVE  WayInv'
    <2> DEFINE scan == Scan(resourceList, a.method, a.url)
               q == NewRequestRecord(a.method, a.url, a.body, scan)
    <2>1. CASE ~scan.found
      <3>1. request' = [request EXCEPT ![c] = NoRequest]
        BY <1>6, <2>1 DEF NewRequest
      <3>2. NoRequest.phase = "none"
        BY DEF NoRequest
      <3>. HIDE DEF scan, q
      <3>. QED  BY <1>0, <3>1, <3>2, WaySet
    <2>2. CASE scan.found
      <3>1. /\ scan.link[1] \in Resources /\ Accepts(scan.link[1], a.method, a.url)
            /\ scan.params \in Parameters(a.url)
        BY <1>6, <2>2, ScanParameters DEF RestInv, ListInv
      <3>2. Routed(q)
        <4>. HIDE DEF scan
        <4>. QED  BY <1>6, <3>1 DEF Routed, NewRequestRecord
      <3>3. request' = [request EXCEPT ![c] = q]
        BY <1>6, <2>2 DEF NewRequest
      <3>. HIDE DEF q
      <3>. QED  BY <1>0, <3>2, <3>3, WaySet
    <2>. QED  BY <2>1, <2>2
  <1>7. ASSUME NEW c \in Conns, ContinueRequest(c)
        PROVE  WayInv'
    <2> DEFINE r   == request[c]
               off == Len(Rep!getSimpleContent(r.inRep)) +
                        (IF "key" \in DOMAIN r.inRep.encoded
                         THEN Len(r.inRep.encoded["key"].data) ELSE 0)
               p   == processUploadData(r, Head(r.todo), off)
               ph  == IF Tail(r.todo) = <<>> THEN "ready" ELSE "upload"
    <2>1. Linked(r) /\ Routed(r)
      BY <1>0, <1>7 DEF ContinueRequest, WayInv, RestInv, RequestInv
    <2>2. request' = [request EXCEPT ![c] = [p EXCEPT !.todo = Tail(p.todo), !.phase = ph]]
      BY <1>7 DEF ContinueRequest
    <2>3. Routed([p EXCEPT !.todo = Tail(p.todo), !.phase = ph])
      <3>. HIDE DEF off, ph, r
      <3>1. PICK rep : p = [r EXCEPT !.inRep = rep]
        BY DEF processUploadData
      <3>. HIDE DEF p
      <3>. QED  BY <2>1, <3>1 DEF Routed, Linked
    <2>. HIDE DEF p, ph
    <2>. QED  BY <1>0, <2>2, <2>3, WaySet
  <1>8. ASSUME NEW c \in Conns, Execute(c)
        PROVE  WayInv'
    <2>1. CASE Replies(c)
      <3>1. PICK q : q.phase = "answered" /\ request' = [request EXCEPT ![c] = q]
        BY <2>1 DEF Replies, Reply
      <3>. QED  BY <1>0, <3>1, WaySet
    <2>. QED  BY <1>2, <1>8, <2>1, ExecuteReplies
  <1>9. ASSUME NEW c \in Conns, Complete(c) \/ Abort(c) \/ ClearRepresentation(c)
        PROVE  WayInv'
    <2>1. request' = request \/ request' = [request EXCEPT ![c] = NoRequest]
      BY <1>9 DEF Complete, Abort, ClearRepresentation
    <2>2. CASE request' = [request EXCEPT ![c] = NoRequest]
      BY <1>0, <2>2, WaySet DEF NoRequest
    <2>. QED  BY <1>1, <2>1, <2>2
  <1>10. ASSUME NEW r \in Resources, RegisterResource(r)
         PROVE  WayInv'
    BY <1>1, <1>10 DEF RegisterResource
  <1>11. CASE Start \/ Stop \/ ClearContent
    BY <1>1, <1>2, <1>11 DEF Start, Stop, ClearContent
  <1>12. CASE UNCHANGED vars
    BY <1>1, <1>12 DEF vars
  <1>. QED  BY <1>6, <1>7, <1>8, <1>9, <1>10, <1>11, <1>12 DEF Next

\* The request a POST or a DELETE is executed for.
LEMMA ReadyRequest ==
    ASSUME RestInv, LocationInv, ResourcesFit, NEW c \in Conns, NEW kinds, NEW methods,
           Ready(c, kinds, methods)
    PROVE  /\ request[c].link[1] \in Resources /\ request[c].link[1].kind \in kinds
           /\ request[c].method \in methods /\ request[c].method \in request[c].link[1].methods
           /\ request[c].url \in URLs /\ request[c].params \in Parameters(request[c].url)
           /\ Accepts(request[c].link[1], request[c].method, request[c].url)
           /\ Range(resourceList) = Resources
  <1>1. Routed(request[c])
    BY DEF Ready, LocationInv, WayInv
  <1>2. Range(resourceList) = Resources
    BY DEF Ready, RestInv, ListInv
  <1>. QED  BY <1>1, <1>2 DEF Ready, Routed, Accepts

LEMMA StepRootInv ==
    ASSUME ResourcesFit, RestInv, LocationInv, [Next]_vars
    PROVE  RootInv'
  <1>0. RootInv /\ Joined(cm) /\ Root \in DOMAIN cm.objMap
    BY DEF LocationInv, RootInv, RestInv, ContentInv, Ids
  <1>1. CASE cm' = cm
    BY <1>0, <1>1 DEF RootInv, Ids
  <1>2. CASE ClearContent
    <2>1. cm'.edges = {} /\ Root \in DOMAIN cm'.objMap
      BY <1>2 DEF ClearContent, clear, ManagerInit
    <2>. QED  BY <2>1 DEF RootInv, Ids
  <1>3. ASSUME NEW c \in Conns, PostList(c), NEW n \in 1..MaxID,
               NEW url, NEW params, NEW fields, PostGoes(c, n, url, params, fields)
        PROVE  RootInv'
    <2> DEFINE r == request[c].link[1]
               t == TerminalID(r, params)
    <2>1. PICK w \in PostWays(cm, r, t, fields, n) : cm' = w.cm
      BY <1>3, WayGone DEF PostGoes, Gone
    <2>2. Resolves(r, params)
      BY <1>3 DEF PostGoes, Refused
    <2>3. r \in Resources /\ Creates(r)
      BY <1>3, ReadyRequest DEF PostList, Creates
    <2>. HIDE DEF r
    <2>4. t \in DOMAIN cm.objMap /\ (t = Root => r.rels = <<>>)
      <3>1. NoWayToRoot(r)
        BY <2>3 DEF ResourcesFit
      <3>. QED  BY <1>0, <2>2, <2>3, <3>1, TerminalThere
    <2>. HIDE DEF t
    <2> DEFINE e == [rel |-> r.list, ends |-> {t, IDString(r.prefix, n)}]
    <2>5. /\ cm'.edges \subseteq cm.edges \cup {e}
          /\ DOMAIN cm.objMap \subseteq DOMAIN cm'.objMap
      <3>1. PostRelates(cm, r, t, n, w)
        BY <1>0, <2>1, PostWaysRelate
      <3>. QED  BY <2>1, <3>1 DEF PostRelates
    <2>6. IDString(r.prefix, n) # Root
      BY <2>3, IDStringAssumption
    <2>7. Root \in e.ends => e.rel \in RootLists /\ e.ends # {Root}
      <3>1. t = Root => r.list \in RootLists
        BY <2>3, <2>4 DEF RootLists
      <3>. QED  BY <2>6, <3>1
    <2>. HIDE DEF e
    <2>. QED  BY <1>0, <2>5, <2>7 DEF RootInv, Ids
  <1>4. ASSUME NEW c \in Conns, NEW id, NEW f, NEW a, Goes(c, PutWays(cm, id, f), a)
        PROVE  RootInv'
    <2>1. PICK w \in PutWays(cm, id, f) : cm' = w.cm
      BY <1>4, WayGone DEF Gone
    <2>2. cm'.edges = cm.edges /\ DOMAIN cm'.objMap = DOMAIN cm.objMap
      BY <1>0, <2>1, PutWaysRelate
    <2>. QED  BY <1>0, <2>2 DEF RootInv, Ids
  <1>5. ASSUME NEW c \in Conns, DeleteObject(c), ~ErrorResponse(c)
        PROVE  RootInv'
    <2> DEFINE q == request[c]
               r == q.link[1]
               t == TerminalID(r, q.params)
    <2>1. cm' = deleteObjByID(cm, t) /\ Resolves(r, q.params)
      <3>1. Resolves(r, q.params)
        BY <1>5 DEF DeleteObject
      <3>2. \E a : Goes(c, DeleteWays(cm, t), a)
        BY <1>5, Zenon DEF DeleteObject
      <3>3. PICK w \in DeleteWays(cm, t) : cm' = w.cm
        BY <3>2, WayGone DEF Gone
      <3>. QED  BY <1>0, <3>1, <3>3, DeleteWaysJoin
    <2>2. r \in Resources /\ r.kind = "object" /\ "DELETE" \in r.methods
      BY <1>5, ReadyRequest DEF DeleteObject
    <2>3. t # Root
      <3>1. NoWayToRoot(r) /\ r.rels # <<>>
        BY <2>2 DEF ResourcesFit
      <3>. HIDE DEF r
      <3>. QED  BY <1>0, <2>1, <2>2, <3>1, TerminalThere
    <2>. HIDE DEF t
    <2>4. cm'.edges \subseteq cm.edges /\ Root \in DOMAIN cm'.objMap
      BY <1>0, <2>1, <2>3, DeletionRelates
    <2>. QED  BY <1>0, <2>4 DEF RootInv, Ids
  <1>6. ASSUME NEW c \in Conns, Execute(c)
        PROVE  RootInv'
    <2>1. CASE \E f : ErrorResponse(c) \/ Throws(c, f)
      BY <1>1, <2>1 DEF ErrorResponse, Throws
    <2>2. CASE GetList(c) \/ GetObject(c) \/ GetStatus(c) \/ NotImplemented(c)
      BY <1>1, <2>1, <2>2 DEF GetList, GetObject, GetStatus, NotImplemented
    <2>3. CASE PostList(c)
      BY <1>3, <2>1, <2>3, PostCases
    <2>4. CASE PutObject(c)
      <3>1. CASE \E id, f, a : Goes(c, PutWays(cm, id, f), a)
        BY <1>4, <3>1
      <3>. QED  BY <2>1, <2>4, <3>1, Zenon DEF PutObject
    <2>. QED  BY <1>5, <1>6, <2>1, <2>2, <2>3, <2>4 DEF Execute
  <1>7. ASSUME NEW c \in Conns, NEW a, NewRequest(c, a.method, a.url, a.body)
        PROVE  RootInv'
    BY <1>1, <1>7 DEF NewRequest
  <1>8. ASSUME NEW c \in Conns, \/ ContinueRequest(c) \/ Complete(c) \/ Abort(c)
                                \/ ClearRepresentation(c)
        PROVE  RootInv'
    BY <1>1, <1>8 DEF ContinueRequest, Complete, Abort, ClearRepresentation
  <1>9. ASSUME NEW r \in Resources, RegisterResource(r)
        PROVE  RootInv'
    BY <1>1, <1>9 DEF RegisterResource
  <1>10. CASE Start \/ Stop \/ UNCHANGED vars
    BY <1>1, <1>10 DEF Start, Stop, vars
  <1>. QED  BY <1>2, <1>6, <1>7, <1>8, <1>9, <1>10 DEF Next

\* A request that is dropped, refused or goes on leaves the Locations as they are.
LEMMA NoneNew ==
    ASSUME RestInv, HeldInv, NEW c \in Conns, NEW q, request' = [request EXCEPT ![c] = q],
           q.phase = "answered" => q.loc = <<>>, location' = location
    PROVE  /\ location' = [d \in Conns |-> location'[d]]
           /\ \A d \in Conns : \A url \in Held(d)' : url # <<>> => url \in Held(d)
  BY DEF RestInv, RequestInv, HeldInv, Held

\* An answer without a Location, or none, to a request that leaves the graph alone.
LEMMA HeldQuiet ==
    ASSUME ResourcesFit, RestInv, HeldInv, NEW c \in Conns, NEW q,
           request' = [request EXCEPT ![c] = q], q.phase = "answered" => q.loc = <<>>,
           UNCHANGED <<location, resourceList>>, gone \subseteq gone',
           \A url : url # <<>> /\ Placed(url) /\ Range(url) \cap gone' = {} =>
                \A e \in cm.edges : e.ends \subseteq {Root} \cup Range(url) => e \in cm'.edges
    PROVE  HeldInv'
  <1>1. /\ location' = [d \in Conns |-> location'[d]]
        /\ \A d \in Conns : \A url \in Held(d)' : url # <<>> => url \in Held(d)
    BY NoneNew
  <1>. QED  BY <1>1, HeldKept

LEMMA HeldUnmoved ==
    ASSUME ResourcesFit, RestInv, HeldInv, UNCHANGED <<location, resourceList, gone, cm>>,
           \/ request' = request
           \/ request' = [d \in Conns |-> NoRequest]
           \/ \E c \in Conns : \E q : /\ request' = [request EXCEPT ![c] = q]
                                      /\ q.phase = "answered" => q.loc = <<>>
    PROVE  HeldInv'
  <1>1. CASE request' = request
    BY <1>1, HeldKept DEF Held, HeldInv
  <1>2. CASE request' = [d \in Conns |-> NoRequest]
    <2>1. \A d \in Conns : Held(d)' \subseteq Held(d)
      BY <1>2 DEF Held, NoRequest
    <2>. QED  BY <2>1, HeldKept DEF HeldInv
  <1>3. ASSUME NEW c \in Conns, NEW q, request' = [request EXCEPT ![c] = q],
               q.phase = "answered" => q.loc = <<>>
        PROVE  HeldInv'
    BY <1>3, HeldQuiet
  <1>. QED  BY <1>1, <1>2, <1>3

LEMMA AnswerUnplaced ==
    ASSUME NEW c \in Conns, NEW code, NEW rep, Answer(c, code, rep)
    PROVE  \E d \in Conns : \E q : /\ request' = [request EXCEPT ![d] = q]
                                   /\ q.phase = "answered" => q.loc = <<>>
  <1> DEFINE q == AnswerRecord(code, <<>>, rep)
  <1>1. request' = [request EXCEPT ![c] = q]
    BY DEF Answer
  <1>2. q.loc = <<>>
    BY DEF AnswerRecord
  <1>. HIDE DEF q
  <1>. QED  BY <1>1, <1>2

LEMMA StepHeldInv ==
    ASSUME ResourcesFit, RestInv, LocationInv, [Next]_vars
    PROVE  HeldInv'
  <1>0. HeldInv /\ Joined(cm)
    BY DEF LocationInv, RestInv, ContentInv
  <1>1. ASSUME NEW r \in Resources, RegisterResource(r)
        PROVE  HeldInv'
    <2>1. r \notin Range(resourceList)
      BY <1>1 DEF RegisterResource, Range
    <2>2. \A url : ~Placed(url)
      BY <2>1 DEF Placed
    <2>3. location' = location /\ request' = request
      BY <1>1 DEF RegisterResource
    <2>4. \A c \in Conns : Held(c)' = Held(c)
      BY <2>3 DEF Held
    <2>. QED  BY <1>0, <2>2, <2>3, <2>4 DEF HeldInv
  <1>2. CASE Start \/ Stop \/ UNCHANGED vars
    BY <1>0, <1>2, HeldUnmoved DEF Start, Stop, vars
  <1>3. CASE ClearContent
    <2>1. gone' = gone \cup (DOMAIN cm.objMap \ {Root})
      BY <1>3 DEF ClearContent, Ids
    <2>2. ASSUME NEW url, url # <<>>, Placed(url), Range(url) \cap gone' = {}
          PROVE  FALSE
      <3>1. PICK l \in Resources, o \in Resources :
              /\ Creates(l) /\ Serves(l, o) /\ Len(url) = Len(o.elems)
              /\ Range(url) \cap gone = {} => Stands(cm, o, url)
        BY <2>2 DEF Placed
      <3>2. url \in URLs /\ Last(url) # Root
        BY <2>2 DEF Placed
      <3>3. Len(o.rels) \in 1..Len(o.rels) /\ DOMAIN o.rels = 1..Len(o.rels)
        BY <3>1, ServesExtends
      <3>4. IdAt(o, url, Len(o.rels)) = Last(url) /\ Last(url) \in Range(url)
        BY <3>1, <3>2, <3>3, StandsInside
      <3>5. Stands(cm, o, url)
        BY <2>1, <2>2, <3>1
      <3>6. [rel |-> o.rels[Len(o.rels)].list,
             ends |-> {IdAt(o, url, Len(o.rels) - 1), Last(url)}] \in cm.edges
        BY <3>3, <3>4, <3>5 DEF Stands
      <3>7. Last(url) \in DOMAIN cm.objMap
        BY <1>0, <3>6 DEF Joined
      <3>. QED  BY <2>1, <2>2, <3>2, <3>4, <3>7
    <2>3. UNCHANGED <<location, resourceList, request>>
      BY <1>3 DEF ClearContent
    <2>4. \A c \in Conns : Held(c)' = Held(c)
      BY <2>3 DEF Held
    <2>5. gone \subseteq gone' /\ location' = [c \in Conns |-> location'[c]]
      BY <1>0, <2>1, <2>3 DEF HeldInv
    <2>. QED  BY <1>0, <2>2, <2>3, <2>4, <2>5, HeldKept
  <1>4. ASSUME NEW c \in Conns, NEW a, NewRequest(c, a.method, a.url, a.body)
        PROVE  HeldInv'
    <2> DEFINE scan == Scan(resourceList, a.method, a.url)
               q == IF scan.found THEN NewRequestRecord(a.method, a.url, a.body, scan)
                                  ELSE NoRequest
    <2>1. request' = [request EXCEPT ![c] = q]
      BY <1>4 DEF NewRequest
    <2>2. q.phase = "answered" => q.loc = <<>>
      <3>. HIDE DEF scan
      <3>. QED  BY DEF NewRequestRecord, NoRequest
    <2>3. UNCHANGED <<location, resourceList, gone, cm>>
      BY <1>4 DEF NewRequest
    <2>. HIDE DEF q
    <2>. QED  BY <1>0, <2>1, <2>2, <2>3, HeldUnmoved
  <1>5. ASSUME NEW c \in Conns, ContinueRequest(c)
        PROVE  HeldInv'
    <2> DEFINE r   == request[c]
               off == Len(Rep!getSimpleContent(r.inRep)) +
                        (IF "key" \in DOMAIN r.inRep.encoded
                         THEN Len(r.inRep.encoded["key"].data) ELSE 0)
               p   == processUploadData(r, Head(r.todo), off)
               ph  == IF Tail(r.todo) = <<>> THEN "ready" ELSE "upload"
               q   == [p EXCEPT !.todo = Tail(p.todo), !.phase = ph]
    <2>1. request' = [request EXCEPT ![c] = q]
      BY <1>5 DEF ContinueRequest
    <2>2. q.phase # "answered"
      <3>1. Linked(r)
        BY <1>5 DEF ContinueRequest, RestInv, RequestInv
      <3>2. ph # "answered"
        OBVIOUS
      <3>. HIDE DEF off, ph, r
      <3>3. PICK rep : p = [r EXCEPT !.inRep = rep]
        BY DEF processUploadData
      <3>. HIDE DEF p
      <3>. QED  BY <3>1, <3>2, <3>3 DEF Linked
    <2>3. UNCHANGED <<location, resourceList, gone, cm>>
      BY <1>5 DEF ContinueRequest
    <2>. HIDE DEF q
    <2>. QED  BY <1>0, <2>1, <2>2, <2>3, HeldUnmoved
  <1>6. ASSUME NEW c \in Conns, NEW f, ErrorResponse(c) \/ Throws(c, f)
        PROVE  HeldInv'
    <2>1. UNCHANGED <<location, resourceList, gone, cm>>
      BY <1>6 DEF ErrorResponse, Throws
    <2>2. PICK q : request' = [request EXCEPT ![c] = q] /\ q.loc = <<>>
      BY <1>6, RefusalsReply DEF ErrorResponse, Throws
    <2>. QED  BY <1>0, <2>1, <2>2, HeldUnmoved
  <1>7. ASSUME NEW c \in Conns, PostList(c), NEW n \in 1..MaxID,
               NEW url, NEW params, NEW fields, PostGoes(c, n, url, params, fields)
        PROVE  HeldInv'
    <2>0. PICK r : r = request[c].link[1]
      OBVIOUS
    <2> DEFINE id  == IDString(r.prefix, n)
               u   == Append(url, id)
               t   == TerminalID(r, params)
               a   == AnswerRecord(201, u, Rep!EmptyRepresentation)
               new == [rel |-> r.list, ends |-> {t, id}]
    <2>1a. PICK w \in PostWays(cm, r, t, fields, n) : \E q : Gone(c, w, a, q)
      <3>1. Goes(c, PostWays(cm, r, t, fields, n), a)
        BY <1>7, <2>0 DEF PostGoes
      <3>. HIDE DEF a
      <3>. QED  BY <3>1, WayGone
    <2>1. PICK q : Gone(c, w, a, q)
      BY <2>1a
    <2>2. /\ Resolves(r, params) /\ id \notin DOMAIN cm.objMap
          /\ UNCHANGED <<resourceList, location>>
          /\ gone' = IF request'[c].code = 201 THEN gone \cup ({id} \ Ids(cm')) ELSE gone
      BY <1>7, <2>0 DEF PostGoes, Refused, IsUniqueObjID
    <2>3. /\ r \in Resources /\ Creates(r) /\ Range(resourceList) = Resources
          /\ url \in URLs /\ params \in Parameters(url)
          /\ Accepts(r, "POST", url)
      BY <1>7, <2>0, ReadyRequest DEF PostList, Creates, PostGoes
    <2>4. t \in DOMAIN cm.objMap
      BY <2>2, <2>3, TerminalThere DEF LocationInv
    <2>5. PostRelates(cm, r, t, n, w)
      <3>. HIDE DEF t
      <3>. QED  BY <1>0, PostWaysRelate
    <2>6. request'[c] = q
      BY <2>1 DEF RestInv, RequestInv, Gone
    <2>7. cm.edges \subseteq cm'.edges
      BY <2>1, <2>5 DEF PostRelates, Gone
    <2>. HIDE DEF t, id
    <2>8. CASE w.failed \in {"none", "NULL"}
      <3>1. q.code = 201 /\ q.loc = u /\ q.phase = "answered"
        <4>1. q = a
          BY <2>1, <2>8 DEF Gone
        <4>. HIDE DEF u
        <4>. QED  BY <4>1 DEF AnswerRecord
      <3>2. gone' = gone \cup ({id} \ Ids(cm'))
        BY <2>2, <2>6, <3>1
      <3>3. id \notin gone' => cm'.edges = cm.edges \cup {new}
        <4>1. CASE w.failed = "none"
          BY <2>1, <2>4, <2>5, <4>1 DEF PostRelates, Gone, id
        <4>2. CASE w.failed = "NULL"
          <5>1. id \notin Ids(cm')
            BY <2>1, <2>2, <2>5, <4>2 DEF PostRelates, Gone, Ids, id
          <5>. QED  BY <3>2, <5>1
        <4>. QED  BY <2>8, <4>1, <4>2
      <3>4. Placed(u)'
        <4>1. UNCHANGED resourceList
          BY <2>2
        <4>2. IDString(r.prefix, n) \notin gone' =>
                cm'.edges = cm.edges \cup
                    {[rel |-> r.list, ends |-> {TerminalID(r, params), IDString(r.prefix, n)}]}
          BY <3>3 DEF t, id
        <4>3. Resolves(r, params)
          BY <2>2
        <4>4. Placed(Append(url, IDString(r.prefix, n)))'
          BY <2>3, <4>1, <4>2, <4>3, CreatedIsPlaced
        <4>. QED  BY <4>4 DEF id
      <3>5. \A d \in Conns : \A v \in Held(d)' : v = u \/ v \in Held(d)
        BY <2>1, <2>2, <3>1 DEF Held, Gone, RestInv, RequestInv
      <3>6. location' = [d \in Conns |-> location'[d]]
        BY <1>0, <2>2 DEF HeldInv
      <3>7. \A d \in Conns : \A v \in Held(d)' :
                v # <<>> => Placed(v)' \/ \E x \in Conns : v \in Held(x)
        BY <3>4, <3>5
      <3>. QED  BY <1>0, <2>2, <2>7, <3>2, <3>6, <3>7, HeldKept
    <2>9. CASE w.failed \notin {"none", "NULL"}
      <3>1. q.code = 400 /\ q.loc = <<>>
        BY <2>1, <2>9, RefusalsReply DEF Gone
      <3>2. gone' = gone
        BY <2>2, <2>6, <3>1
      <3>3. request' = [request EXCEPT ![c] = q] /\ UNCHANGED <<location, resourceList>>
        BY <2>1, <2>2 DEF Gone
      <3>. QED  BY <1>0, <2>7, <3>1, <3>2, <3>3, HeldQuiet
    <2>. QED  BY <2>8, <2>9
  <1>8. ASSUME NEW c \in Conns, NEW id, NEW f, UNCHANGED <<location, resourceList, gone>>,
               Goes(c, PutWays(cm, id, f), AnswerRecord(200, <<>>, Rep!EmptyRepresentation))
        PROVE  HeldInv'
    <2>1. PICK a : a = AnswerRecord(200, <<>>, Rep!EmptyRepresentation)
      OBVIOUS
    <2>2. Goes(c, PutWays(cm, id, f), a)
      BY <1>8, <2>1
    <2>3a. PICK w \in PutWays(cm, id, f) : \E q : Gone(c, w, a, q)
      BY <2>2, WayGone
    <2>3. PICK q : Gone(c, w, a, q)
      BY <2>3a
    <2>4. a.loc = <<>>
      BY <2>1 DEF AnswerRecord
    <2>5. q.loc = <<>>
      BY <2>3, <2>4, RefusalsReply DEF Gone
    <2>6. cm'.edges = cm.edges
      BY <1>0, <2>3, PutWaysRelate DEF Gone
    <2>. QED  BY <1>0, <1>8, <2>3, <2>5, <2>6, HeldQuiet DEF Gone
  <1>9. ASSUME NEW c \in Conns, DeleteObject(c), ~ErrorResponse(c)
        PROVE  HeldInv'
    <2> DEFINE r == request[c].link[1]
               t == TerminalID(r, request[c].params)
    <2>0. PICK a : a = AnswerRecord(200, <<>>, Rep!EmptyRepresentation)
      OBVIOUS
    <2>1. /\ Goes(c, DeleteWays(cm, t), a)
          /\ gone' = gone \cup {t} /\ UNCHANGED <<location, resourceList>>
          /\ Resolves(r, request[c].params)
      BY <1>9, <2>0 DEF DeleteObject
    <2>2a. PICK w \in DeleteWays(cm, t) : \E q : Gone(c, w, a, q)
      BY <2>1, WayGone
    <2>2. PICK q : Gone(c, w, a, q)
      BY <2>2a
    <2>3. r \in Resources /\ r.kind = "object" /\ "DELETE" \in r.methods
      BY <1>9, ReadyRequest DEF DeleteObject
    <2>4. t # Root
      <3>1. NoWayToRoot(r) /\ r.rels # <<>>
        BY <2>3 DEF ResourcesFit
      <3>. HIDE DEF r
      <3>. QED  BY <2>1, <2>3, <3>1, TerminalThere DEF LocationInv
    <2>. HIDE DEF t
    <2>5. cm' = deleteObjByID(cm, t)
      BY <1>0, <2>2, DeleteWaysJoin DEF Gone
    <2>6. q.loc = <<>>
      <3>1. a.loc = <<>>
        BY <2>0 DEF AnswerRecord
      <3>. QED  BY <2>2, <3>1, RefusalsReply DEF Gone
    <2>7. ASSUME NEW url, Range(url) \cap gone' = {},
                 NEW e \in cm.edges, e.ends \subseteq {Root} \cup Range(url)
          PROVE  e \in cm'.edges
      <3>1. t \notin e.ends
        BY <2>1, <2>4, <2>7
      <3>. QED  BY <1>0, <2>5, <3>1, DeletionRelates
    <2>. QED  BY <1>0, <2>1, <2>2, <2>6, <2>7, HeldQuiet DEF Gone
  <1>10. ASSUME NEW c \in Conns, Execute(c)
         PROVE  HeldInv'
    <2>1. ASSUME NEW code, NEW rep, Answer(c, code, rep),
                 UNCHANGED <<location, resourceList, gone, cm>>
          PROVE  HeldInv'
      BY <1>0, <2>1, AnswerUnplaced, HeldUnmoved
    <2>2. CASE GetList(c) \/ GetStatus(c) \/ NotImplemented(c)
      BY <1>6, <2>1, <2>2 DEF GetList, GetStatus, NotImplemented
    <2>3. CASE GetObject(c)
      <3>1. CASE request' = [d \in Conns |-> NoRequest]
        BY <1>0, <1>6, <2>1, <2>3, <3>1, HeldUnmoved DEF GetObject
      <3>. QED  BY <1>6, <2>1, <2>3, <3>1 DEF GetObject
    <2>4. CASE PostList(c)
      BY <1>6, <1>7, <2>4, PostCases
    <2>5. CASE PutObject(c)
      <3> DEFINE a == AnswerRecord(200, <<>>, Rep!EmptyRepresentation)
      <3>1. CASE \E id, f : /\ Goes(c, PutWays(cm, id, f), a)
                            /\ UNCHANGED <<location, resourceList, gone>>
        BY <1>8, <3>1
      <3>2. \/ ErrorResponse(c) \/ Throws(c, "getContentTemplateForType")
            \/ \E id, f : /\ Goes(c, PutWays(cm, id, f), a)
                          /\ UNCHANGED <<location, resourceList, gone>>
        BY <2>5, Zenon DEF PutObject
      <3>. HIDE DEF a
      <3>. QED  BY <1>6, <3>1, <3>2
    <2>. QED  BY <1>6, <1>9, <1>10, <2>2, <2>3, <2>4, <2>5 DEF Execute
  <1>11. ASSUME NEW c \in Conns, Complete(c)
         PROVE  HeldInv'
    <2>1. /\ request[c].phase = "answered" /\ UNCHANGED <<resourceList, cm, gone>>
          /\ location' = [location EXCEPT ![c] = IF location[c] = <<>> THEN request[c].loc
                                                                   ELSE location[c]]
          /\ request' = [request EXCEPT ![c] = NoRequest]
      BY <1>11 DEF Complete
    <2>2. \A d \in Conns : \A url \in Held(d)' : url \in Held(d)
      BY <1>0, <2>1 DEF Held, HeldInv, RestInv, RequestInv, NoRequest
    <2>3. location' = [d \in Conns |-> location'[d]]
      BY <1>0, <2>1 DEF HeldInv
    <2>. QED  BY <1>0, <2>1, <2>2, <2>3, HeldKept
  <1>12. ASSUME NEW c \in Conns, Abort(c)
         PROVE  HeldInv'
    <2>1. request' = [request EXCEPT ![c] = NoRequest] /\ NoRequest.phase # "answered"
      BY <1>12 DEF Abort, NoRequest
    <2>2. UNCHANGED <<location, resourceList, gone, cm>>
      BY <1>12 DEF Abort
    <2>. QED  BY <1>0, <2>1, <2>2, HeldUnmoved
  <1>13. ASSUME NEW c \in Conns, ClearRepresentation(c)
         PROVE  HeldInv'
    <2>1. /\ location' = [location EXCEPT ![c] = <<>>]
          /\ UNCHANGED <<resourceList, cm, gone, request>>
      BY <1>13 DEF ClearRepresentation
    <2>2. \A d \in Conns : \A url \in Held(d)' : url # <<>> => url \in Held(d)
      BY <1>0, <2>1 DEF Held, HeldInv
    <2>3. location' = [d \in Conns |-> location'[d]]
      BY <1>0, <2>1 DEF HeldInv
    <2>. QED  BY <1>0, <2>1, <2>2, <2>3, HeldKept
  <1>. QED  BY <1>1, <1>2, <1>3, <1>4, <1>5, <1>10, <1>11, <1>12, <1>13 DEF Next

\* A Location leads to its object as long as nothing it names was deleted, in an
\* application whose resources fit: each object resource continues the pattern and the
\* relationships of its list and is told apart from the others.
THEOREM LocationsLead ==
    ASSUME ResourcesFit
    PROVE  Spec => []LocationLeads
  <1>1. Init => LocationInv
    BY InitLocationInv
  <1>2. RestInv /\ LocationInv /\ [Next]_vars => LocationInv'
    BY StepWayInv, StepRootInv, StepHeldInv DEF LocationInv
  <1>3. RestInv /\ LocationInv => LocationLeads
    <2> SUFFICES ASSUME RestInv, LocationInv, NEW c \in Conns, daemon = "running",
                        location[c] # <<>>, Range(location[c]) \cap gone = {}
                 PROVE  Leads(location[c])
      BY DEF LocationLeads
    <2> DEFINE url == location[c]
    <2>1. Placed(url)
      BY DEF LocationInv, HeldInv, Held
    <2>. HIDE DEF url
    <2>2. PICK l \in Resources, o \in Resources :
            /\ Creates(l) /\ Serves(l, o)
            /\ Len(url) = Len(o.elems) /\ Mismatches(o, url) = {}
            /\ Stands(cm, o, url)
      BY <2>1 DEF Placed, url
    <2>3. url \in URLs /\ Range(resourceList) = Resources
      BY <2>1 DEF Placed
    <2>4. resourceList \in Seq(Resources) /\ Sorted(resourceList)
      BY DEF RestInv, ListInv
    <2>5. PICK s : s = Scan(resourceList, "GET", url)
      OBVIOUS
    <2>6. s.found /\ s.link[1] = o
      BY <2>2, <2>3, <2>4, <2>5, ScanLeads
    <2>7. /\ s.params \in Parameters(url)
          /\ \A i \in Params(o) : i <= Len(url) => o.elems[i].name \in DOMAIN s.params
      BY <2>3, <2>4, <2>5, <2>6, ScanParameters
    <2>8. ASSUME NEW i \in 1..Len(o.rels)
          PROVE  /\ o.rels[i].param \in DOMAIN s.params
                 /\ s.params[o.rels[i].param] = IdAt(o, url, i)
      <3>1. Position(o, i) \in Params(o) /\ o.elems[Position(o, i)] = Param(o.rels[i].param)
        BY <2>2, Positions
      <3>2. Len(o.elems) \in Nat /\ DOMAIN o.elems = 1..Len(o.elems)
        BY PatternElements
      <3>3. Position(o, i) <= Len(url) /\ Len(url) <= Len(o.elems)
        BY <2>2, <3>1, <3>2 DEF Params
      <3>4. o.rels[i].param \in DOMAIN s.params
        BY <2>7, <3>1, <3>3 DEF Param
      <3>. QED  BY <2>2, <2>3, <2>7, <3>3, <3>4, ParametersAreIds
    <2>9. DOMAIN o.rels = 1..Len(o.rels) /\ Len(o.rels) \in 1..Len(o.rels)
      BY <2>2, ServesExtends
    <2>10. Resolves(o, s.params)
      <3> DEFINE y(i) == IF i = 0 THEN Root ELSE s.params[o.rels[i].param]
      <3>1. ASSUME NEW i \in 1..Len(o.rels)
            PROVE  hasRelationship(cm, y(i - 1), y(i), o.rels[i].list)
        <4>1. i - 1 = 0 \/ i - 1 \in 1..Len(o.rels)
          BY <2>9
        <4>2. y(i - 1) = IdAt(o, url, i - 1)
          BY <2>8, <4>1 DEF IdAt
        <4>3. y(i) = IdAt(o, url, i)
          BY <2>8, <2>9
        <4> DEFINE e == [rel |-> o.rels[i].list, ends |-> {y(i - 1), y(i)}]
        <4>4. e \in cm.edges
          BY <2>2, <2>9, <4>2, <4>3 DEF Stands
        <4>5. y(i - 1) \in DOMAIN cm.objMap
          BY <4>4 DEF RestInv, ContentInv, Joined
        <4>. HIDE DEF y
        <4>. QED  BY <4>4, <4>5 DEF hasRelationship
      <3>2. \A i \in 1..Len(o.rels) : y(i) = s.params[o.rels[i].param]
        BY <2>9
      <3>. QED  BY <2>8, <2>9, <3>1, <3>2 DEF Resolves
    <2>11. TerminalID(o, s.params) = Last(url)
      <3>1. s.params[o.rels[Len(o.rels)].param] = IdAt(o, url, Len(o.rels))
        BY <2>8, <2>9
      <3>2. IdAt(o, url, Len(o.rels)) = Last(url)
        BY <2>2, <2>3, <2>9, StandsInside
      <3>3. o.rels # <<>>
        BY <2>2 DEF Serves
      <3>. QED  BY <3>1, <3>2, <3>3 DEF TerminalID, Last
    <2>12. o.kind = "object"
      BY <2>2 DEF Serves
    <2>. QED  BY <2>5, <2>6, <2>10, <2>11, <2>12 DEF Leads, url
  <1>. QED  BY <1>1, <1>2, <1>3, RestInvariant, PTL DEF Spec
================================================================================
