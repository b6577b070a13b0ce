------------------------------ MODULE RestContent ------------------------------
(***************************************************************************)
(* The content manager of the REST server (RESTContentManager): objects by *)
(* id, and a graph of named relationships between them.  The manager is a  *)
(* record with the fields                                                  *)
(*   objMap   from ids to objects [type, fields]                           *)
(*   edges    the relationships, a set of [rel, ends]; the graph is        *)
(*            undirected (boost::undirectedS), ends are two ids            *)
(*   nextID   the last number used for an id                               *)
(* Each operator is a method and returns the record after it.  The methods *)
(* add edges only to objects just created, so no edge is there twice.      *)
(***************************************************************************)
EXTENDS Integers, FiniteSets, Functions

CONSTANT IDString(_, _)    \* what sprintf makes of "%s%d", a prefix and a number

Root == "root"

NoFields == "nofields"

RootObject == [type |-> "root", fields |-> NoFields]

ManagerInit ==
    [objMap |-> [id \in {Root} |-> RootObject], edges |-> {}, nextID |-> 0]

\* Slip: clear starts over, the numbers of the ids included.
ClearRestartsIDs(cm) == ManagerInit

\* clear frees every object and sets up the root again; nextID goes on.
clear(cm) == [ManagerInit EXCEPT !.nextID = cm.nextID]

\* getUniqueObjID leaves its loop with the first number after nextID whose id
\* names no object.
IsUniqueObjID(cm, prefix, n) ==
    /\ n > cm.nextID
    /\ IDString(prefix, n) \notin DOMAIN cm.objMap
    /\ \A m \in (cm.nextID + 1)..(n - 1) : IDString(prefix, m) \in DOMAIN cm.objMap

\* What newObject, the application's, gives for a type: an object, or NULL, of which
\* the callers of addObj are not told.
NewObjects == {"object", "NULL"}

addObj(cm, type, id, newObject) ==
    IF newObject = "NULL" THEN cm
    ELSE [cm EXCEPT !.objMap = [x \in DOMAIN cm.objMap \cup {id} |->
            IF x \in DOMAIN cm.objMap THEN cm.objMap[x]
            ELSE [type |-> type, fields |-> NoFields]]]

\* createObj with the number its loop found.
createObj(cm, type, prefix, n, newObject) ==
    addObj([cm EXCEPT !.nextID = n], type, IDString(prefix, n), newObject)

\* setFieldsFromContentNode of the application's object takes over the fields.
updateObj(cm, id, fields) ==
    IF id \in DOMAIN cm.objMap THEN [cm EXCEPT !.objMap[id].fields = fields] ELSE cm

EdgesOf(cm, id) == {e \in cm.edges : id \in e.ends}

\* Slip: the vertex goes, its edges stay.
DeleteKeepsEdges(cm, id) ==
    IF id \in DOMAIN cm.objMap
    THEN [cm EXCEPT !.objMap = Restrict(@, DOMAIN @ \ {id})] ELSE cm

\* clear_vertex, remove_vertex, erase.
deleteObjByID(cm, id) ==
    IF id \in DOMAIN cm.objMap
    THEN [cm EXCEPT !.edges  = @ \ EdgesOf(cm, id),
                    !.objMap = Restrict(@, DOMAIN @ \ {id})]
    ELSE cm

\* Slip: every relationship hangs from the root.
RelateToRoot(cm, rel, parent, child) ==
    IF {parent, child} \subseteq DOMAIN cm.objMap
    THEN [cm EXCEPT !.edges = @ \cup {[rel |-> rel, ends |-> {Root, child}]}]
    ELSE cm

addRelationship(cm, rel, parent, child) ==
    IF {parent, child} \subseteq DOMAIN cm.objMap
    THEN [cm EXCEPT !.edges = @ \cup {[rel |-> rel, ends |-> {parent, child}]}]
    ELSE cm

\* The out edges of an undirected graph are seen from both of their ends.
hasRelationship(cm, parent, child, rel) ==
    /\ parent \in DOMAIN cm.objMap
    /\ [rel |-> rel, ends |-> {parent, child}] \in cm.edges

getIDListForRelationship(cm, parent, rel) ==
    {id \in DOMAIN cm.objMap : hasRelationship(cm, parent, id, rel)}

getIDVectorByType(cm, type) == {id \in DOMAIN cm.objMap : cm.objMap[id].type = type}

getEdgeRepresentationList(cm) == cm.edges

Ids(cm) == DOMAIN cm.objMap
================================================================================
