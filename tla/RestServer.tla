------------------------------- MODULE RestServer ------------------------------
(***************************************************************************)
(* The REST daemon, its requests and its content resources, with the HTTP  *)
(* clients that call it.  libmicrohttpd runs one thread                    *)
(* (MHD_USE_SELECT_INTERNALLY) and calls the daemon once when the headers  *)
(* of a request are in, once for each piece of its body and once when it   *)
(* is complete; the calls of different connections interleave.             *)
(***************************************************************************)
EXTENDS RestRouting, RestContent

CONSTANTS
    Conns,          \* connections, each with one HTTP client behind it
    Resources,      \* the resources the application registers
    Loaded,         \* objects it adds before it starts, below the root: [type, id, rel]
    Bodies,         \* the request bodies; a body is the sequence of the pieces it
                    \* arrives in, and a piece is a sequence
    FormBodies,     \* those that are url-encoded forms
    ParsedAs(_),    \* "node": the parser finds the root element the template
                    \* asks for, "other": another root, "junk": no document
    Failures,       \* which of the application's methods may fail, see Fallible
    Asked(_),       \* what clients ask for, given the ids they may know:
                    \* records [method, url, body]
    Growth,         \* see RestRepresentation
    MaxID           \* bound: the largest number an id may get

Rep == INSTANCE RestRepresentation

ASSUME BoundsAssumption == MaxID \in Nat /\ Growth \in Nat \ {0}

\* The application's methods that a handler calls, each of which may throw;
\* "NULL": newObject makes no object and says so.
Fallible == {"getContentTemplateForType", "newObject", "NULL", "setFieldsFromContentNode",
             "notifyCfgChange", "setContentNodeFromFields", "populateContentNode"}

ASSUME FailuresAssumption == Failures \subseteq Fallible

ASSUME BodiesAssumption == FormBodies \subseteq Bodies /\ Bodies \subseteq Seq(Seq(STRING))

ASSUME ResourcesAssumption ==
    \A r \in Resources :
        /\ r.elems \in Seq([match : {"STRING", "PARAM", "WILDCARD"}, name : Names])
        /\ r.prefix \in STRING

\* An id is a text, ends with a number, and tells the numbers of one prefix apart.
ASSUME IDStringAssumption ==
    \A r \in Resources : \A m, n \in 1..MaxID :
        /\ IDString(r.prefix, n) \in Names \ {Root}
        /\ IDString(r.prefix, m) = IDString(r.prefix, n) => m = n

VARIABLES
    resourceList,   \* registered resources, in the order they are tried
    daemon,         \* "stopped", "running", or "dead": an exception left a callback
    cm,             \* the content manager
    request,        \* per connection: the RESTRequest, see NoRequest
    location,       \* per connection: the Location header its client holds, or <<>>
    issued,         \* history: the ids createObj chose, in order
    gone            \* history: the ids of objects deleted, or answered but not made

vars == <<resourceList, daemon, cm, request, location, issued, gone>>

NoRequest == [phase |-> "none"]

\* A request: what was asked, what was received, and the resource it is linked to
\* (a sequence of at most one).
NewRequestRecord(method, url, body, scan) ==
    [phase  |-> IF body = <<>> THEN "ready" ELSE "upload",
     method |-> method, url |-> url, todo |-> body, form |-> body \in FormBodies,
     link   |-> scan.link, params |-> scan.params, wild |-> scan.wild,
     inRep  |-> Rep!EmptyRepresentation]

\* What is left of interest when it is answered: the code, the Location header, the
\* representation sent, and (history) the method of the application that threw.
AnswerRecord(code, loc, outRep) ==
    [phase |-> "answered", code |-> code, loc |-> loc, outRep |-> outRep, threw |-> "none"]

Init ==
    /\ resourceList = <<>>
    /\ daemon = "stopped"
    /\ cm = [ManagerInit EXCEPT !.objMap = [x \in {Root} \cup {o.id : o \in Loaded} |->
                IF x = Root THEN RootObject
                ELSE [type |-> (CHOOSE o \in Loaded : o.id = x).type, fields |-> NoFields]],
             !.edges = {[rel |-> o.rel, ends |-> {Root, o.id}] : o \in Loaded}]
    /\ request = [c \in Conns |-> NoRequest]
    /\ location = [c \in Conns |-> <<>>]
    /\ issued = <<>>
    /\ gone = {}

--------------------------------------------------------------------------------
(* Relationships: each step of the stack asks that the URL parameter names a *)
(* member of the list of the object before it.                             *)

Resolves(r, params) ==
    LET Id(i) == IF i = 0 THEN Root ELSE params[r.rels[i].param]
    IN  \A i \in DOMAIN r.rels :
            /\ r.rels[i].param \in DOMAIN params
            /\ hasRelationship(cm, Id(i - 1), params[r.rels[i].param], r.rels[i].list)

TerminalID(r, params) ==
    IF r.rels = <<>> THEN Root ELSE params[Last(r.rels).param]

--------------------------------------------------------------------------------
(* The daemon's life.                                                      *)

RegisterResource(r) ==
    /\ daemon = "stopped"
    /\ \A i \in DOMAIN resourceList : resourceList[i] # r
    /\ resourceList' = registerResource(resourceList, r)
    /\ UNCHANGED <<daemon, cm, request, location, issued, gone>>

\* The application starts the daemon when its resources are registered.
Start ==
    /\ daemon = "stopped"
    /\ Range(resourceList) = Resources
    /\ daemon' = "running"
    /\ UNCHANGED <<resourceList, cm, request, location, issued, gone>>

\* MHD_stop_daemon closes the connections, which completes their requests.
Stop ==
    /\ daemon = "running"
    /\ daemon' = "stopped"
    /\ request' = [c \in Conns |-> NoRequest]
    /\ UNCHANGED <<resourceList, cm, location, issued, gone>>

\* The application may reset its configuration between two callbacks.
ClearContent ==
    /\ daemon = "running"
    /\ cm' = clear(cm)
    /\ gone' = gone \cup (Ids(cm) \ {Root})
    /\ UNCHANGED <<resourceList, daemon, request, location, issued>>

--------------------------------------------------------------------------------
(* Receiving a request.                                                    *)

\* connection_request with no request yet: newRequest links it.  If no resource
\* accepts it, the callback returns MHD_NO, which closes the connection.
NewRequest(c, method, url, body) ==
    /\ daemon = "running"
    /\ request[c].phase = "none"
    /\ LET scan == Scan(resourceList, method, url)
       IN  request' = [request EXCEPT ![c] =
                IF scan.found THEN NewRequestRecord(method, url, body, scan)
                              ELSE NoRequest]
    /\ UNCHANGED <<resourceList, daemon, cm, location, issued, gone>>

\* processUploadData: the pieces of a form go to the post processor, the others
\* are collected as they are.
processUploadData(q, data, off) ==
    IF q.form
    THEN [q EXCEPT !.inRep = Rep!processDataIteration(@, "key", off, data)]
    ELSE IF Rep!hasSimpleContent(q.inRep)
         THEN [q EXCEPT !.inRep = Rep!appendSimpleContent(@, data)]
         ELSE [q EXCEPT !.inRep = Rep!setSimpleContent(@, data)]

\* continueRequest takes one piece of the body.
ContinueRequest(c) ==
    /\ daemon = "running"
    /\ request[c].phase = "upload"
    /\ LET q   == request[c]
           off == Len(Rep!getSimpleContent(q.inRep)) +
                  (IF "key" \in DOMAIN q.inRep.encoded THEN Len(q.inRep.encoded["key"].data) ELSE 0)
           q2  == processUploadData(q, Head(q.todo), off)
       IN  request' = [request EXCEPT ![c] =
                [q2 EXCEPT !.todo  = Tail(@),
                           !.phase = IF Tail(q.todo) = <<>> THEN "ready" ELSE "upload"]]
    /\ UNCHANGED <<resourceList, daemon, cm, location, issued, gone>>

--------------------------------------------------------------------------------
(* Executing a request: requestReady, execute, and the resource's handler. *)

Ready(c, kinds, methods) ==
    /\ daemon = "running"
    /\ request[c].phase = "ready"
    /\ request[c].link[1].kind \in kinds
    /\ request[c].method \in methods

\* sendResponse: the code, the headers and the simple content of outRep.
Answer(c, code, outRep) ==
    request' = [request EXCEPT ![c] = AnswerRecord(code, <<>>, outRep)]

\* sendErrorResponse appends the text to a representation without content.
ErrorRecord == AnswerRecord(400, <<>>,
                            Rep!appendSimpleContent(Rep!EmptyRepresentation, <<"error">>))

ErrorResponse(c) ==
    /\ request' = [request EXCEPT ![c] = ErrorRecord]
    /\ UNCHANGED <<resourceList, daemon, cm, location, issued, gone>>

\* A handler catches what the application's method throws, and answers it so.
ThrownRecord(method) == [ErrorRecord EXCEPT !.threw = method]

\* The method throws before anything is changed.
Throws(c, method) ==
    /\ method \in Failures
    /\ request' = [request EXCEPT ![c] = ThrownRecord(method)]
    /\ UNCHANGED <<resourceList, daemon, cm, location, issued, gone>>

\* generateContentRepresentation.
Content(data) ==
    Rep!appendSimpleContent(Rep!setSimpleContentType(Rep!EmptyRepresentation,
                                                     "application/xml"), data)

GetList(c) ==
    /\ Ready(c, {"list"}, {"GET"})
    /\ LET q == request[c]
           r == q.link[1]
       IN  IF Resolves(r, q.params)
           THEN LET ids == getIDListForRelationship(cm, TerminalID(r, q.params), r.list)
                IN  /\ Answer(c, 200, Content(<<"array", ids>>))
                    /\ UNCHANGED <<resourceList, daemon, cm, location, issued, gone>>
           ELSE ErrorResponse(c)

\* parseWithTemplate: another root element throws; a body that is no document,
\* or none at all, leaves an empty node and is not reported.
Parsed(q) == ParsedAs(Rep!getSimpleContent(q.inRep))

FieldsOf(q) == IF Parsed(q) = "node" THEN "fields" ELSE NoFields

Refused(q) == Parsed(q) = "other" \/ ~Resolves(q.link[1], q.params)

\* The object is created, takes over the fields, and joins its parent's list.
CreateIn(m, r, parent, fields, n, newObject) ==
    addRelationship(updateObj(createObj(m, r.objType, r.prefix, n, newObject),
                              IDString(r.prefix, n), fields),
                    r.list, parent, IDString(r.prefix, n))

\* How setFieldsFromContentNode leaves the object when it throws: the fields are the
\* old ones, or the new ones.
Half(m, id, fields) == {m, updateObj(m, id, fields)}

\* The ways through a handler, by the first method of the application that fails:
\* the manager then, and the method.
Way(m, failed) == [cm |-> m, failed |-> failed]

PostWays(m, r, parent, fields, n) ==
    LET Created(o) == createObj(m, r.objType, r.prefix, n, o)
        Whole(o)   == CreateIn(m, r, parent, fields, n, o)
    IN  {Way(Whole("object"), "none"), Way(Whole("NULL"), "NULL"),
         Way(Created("NULL"), "newObject")}
        \cup {Way(h, "setFieldsFromContentNode") :
                  h \in Half(Created("object"), IDString(r.prefix, n), fields)}
        \cup {Way(Whole(o), "notifyCfgChange") : o \in NewObjects}

PutWays(m, id, fields) ==
    {Way(updateObj(m, id, fields), "none"), Way(updateObj(m, id, fields), "notifyCfgChange")}
    \cup {Way(h, "setFieldsFromContentNode") : h \in Half(m, id, fields)}

DeleteWays(m, id) ==
    {Way(deleteObjByID(m, id), "none"), Way(deleteObjByID(m, id), "notifyCfgChange")}

\* The handler goes one of the ways; what threw is answered 400, and the change stays.
Goes(c, ways, answer) ==
    \E w \in ways :
        /\ w.failed \in Failures \cup {"none"}
        /\ cm' = w.cm
        /\ request' = [request EXCEPT ![c] =
                IF w.failed \in {"none", "NULL"} THEN answer ELSE ThrownRecord(w.failed)]

\* Slip: the relationships are checked after the object was created.
PostListChecksLast(c) ==
    /\ Ready(c, {"list"}, {"POST"})
    /\ LET q == request[c]
           r == q.link[1]
       IN  \E n \in 1..MaxID :
              /\ IsUniqueObjID(cm, r.prefix, n)
              /\ cm' = createObj(cm, r.objType, r.prefix, n, "object")
              /\ Answer(c, IF Refused(q) THEN 400 ELSE 201, Rep!EmptyRepresentation)
    /\ UNCHANGED <<resourceList, daemon, location, issued, gone>>

PostList(c) ==
    /\ Ready(c, {"list"}, {"POST"})
    /\ LET q == request[c]
           r == q.link[1]
       IN  \/ Refused(q) /\ ErrorResponse(c)
           \/ Throws(c, "getContentTemplateForType")
           \/ /\ ~Refused(q)
              /\ \E n \in 1..MaxID :
                    LET id == IDString(r.prefix, n)
                    IN  /\ IsUniqueObjID(cm, r.prefix, n)
                        /\ Goes(c, PostWays(cm, r, TerminalID(r, q.params), FieldsOf(q), n),
                                AnswerRecord(201, Append(q.url, id), Rep!EmptyRepresentation))
                        /\ issued' = Append(issued, id)
                        /\ gone' = IF request'[c].code = 201 THEN gone \cup ({id} \ Ids(cm'))
                                                             ELSE gone
              /\ UNCHANGED <<resourceList, daemon, location>>

\* The relationships of a GET are checked outside the try block: what
\* checkObjectRelationships throws leaves the callback and ends the process.
GetObject(c) ==
    /\ Ready(c, {"object"}, {"GET"})
    /\ LET q == request[c]
       IN  \/ /\ Resolves(q.link[1], q.params)
              /\ Answer(c, 200, Content(<<"object">>))
              /\ UNCHANGED <<resourceList, daemon, cm, location, issued, gone>>
           \/ Resolves(q.link[1], q.params) /\ Throws(c, "setContentNodeFromFields")
           \/ /\ ~Resolves(q.link[1], q.params)
              /\ daemon' = "dead"
              /\ request' = [x \in Conns |-> NoRequest]
              /\ UNCHANGED <<resourceList, cm, location, issued, gone>>

PutObject(c) ==
    /\ Ready(c, {"object"}, {"PUT"})
    /\ LET q == request[c]
       IN  \/ Refused(q) /\ ErrorResponse(c)
           \/ Resolves(q.link[1], q.params) /\ Throws(c, "getContentTemplateForType")
           \/ /\ ~Refused(q)
              /\ Goes(c, PutWays(cm, TerminalID(q.link[1], q.params), FieldsOf(q)),
                      AnswerRecord(200, <<>>, Rep!EmptyRepresentation))
              /\ UNCHANGED <<resourceList, daemon, location, issued, gone>>

DeleteObject(c) ==
    /\ Ready(c, {"object"}, {"DELETE"})
    /\ LET q  == request[c]
           id == TerminalID(q.link[1], q.params)
       IN  \/ ~Resolves(q.link[1], q.params) /\ ErrorResponse(c)
           \/ /\ Resolves(q.link[1], q.params)
              /\ Goes(c, DeleteWays(cm, id), AnswerRecord(200, <<>>, Rep!EmptyRepresentation))
              /\ gone' = gone \cup {id}
              /\ UNCHANGED <<resourceList, daemon, location, issued>>

\* The status provider's data are the application's.
GetStatus(c) ==
    /\ Ready(c, {"status"}, {"GET"})
    /\ \/ /\ Answer(c, 200, Content(<<"status">>))
          /\ UNCHANGED <<resourceList, daemon, cm, location, issued, gone>>
       \/ Throws(c, "populateContentNode")

\* The handlers of RESTResource and RESTContentManagerResource that no class
\* overrides.
NotImplemented(c) ==
    /\ \/ Ready(c, {"status"}, {"PUT", "DELETE"})
       \/ Ready(c, {"base"}, Methods)
    /\ Answer(c, 501, Rep!EmptyRepresentation)
    /\ UNCHANGED <<resourceList, daemon, cm, location, issued, gone>>

--------------------------------------------------------------------------------
(* The end of a request.                                                   *)

\* The answer reaches the client, whose representation keeps a Location header
\* it already holds, and request_completed deletes the request.
Complete(c) ==
    /\ request[c].phase = "answered"
    /\ location' = [location EXCEPT ![c] = IF @ = <<>> THEN request[c].loc ELSE @]
    /\ request' = [request EXCEPT ![c] = NoRequest]
    /\ UNCHANGED <<resourceList, daemon, cm, issued, gone>>

\* The client gives up (its timeout is 30 s) or the connection breaks.
Abort(c) ==
    /\ request[c].phase # "none"
    /\ request' = [request EXCEPT ![c] = NoRequest]
    /\ UNCHANGED <<resourceList, daemon, cm, location, issued, gone>>

\* clearRepresentation of the client, between two requests.
ClearRepresentation(c) ==
    /\ request[c].phase = "none"
    /\ location[c] # <<>>
    /\ location' = [location EXCEPT ![c] = <<>>]
    /\ UNCHANGED <<resourceList, daemon, cm, request, issued, gone>>

--------------------------------------------------------------------------------
Execute(c) == \/ GetList(c) \/ PostList(c)
              \/ GetObject(c) \/ PutObject(c) \/ DeleteObject(c)
              \/ GetStatus(c) \/ NotImplemented(c)

Next ==
    \/ \E r \in Resources : RegisterResource(r)
    \/ Start \/ Stop \/ ClearContent
    \/ \E c \in Conns :
        \/ \E a \in Asked(Ids(cm) \cup gone) :
                /\ a.url \in URLs /\ a.body \in Bodies
                /\ NewRequest(c, a.method, a.url, a.body)
        \/ ContinueRequest(c)
        \/ Execute(c)
        \/ Complete(c) \/ Abort(c) \/ ClearRepresentation(c)

Spec == Init /\ [][Next]_vars

--------------------------------------------------------------------------------
(* What an application's resources must be for a Location to lead anywhere: *)
(* nothing in the server sees to it.                                       *)

\* The first k elements of two patterns tell their URLs apart.
Differ(r, s, k) ==
    \E i \in (1..k) \cap (DOMAIN r.elems) \cap (DOMAIN s.elems) :
        /\ r.elems[i].match = "STRING" /\ s.elems[i].match = "STRING"
        /\ r.elems[i].name # s.elems[i].name

Params(r) == {i \in DOMAIN r.elems : r.elems[i].match = "PARAM"}

\* No attempt to link another resource leaves one of o's parameters behind with an
\* element from elsewhere.
ParamsApart(o) ==
    \A r \in Resources : \A i \in Params(r), j \in Params(o) :
        (r.elems[i].name = o.elems[j].name /\ i <= Len(o.elems))
            => i = j \/ Differ(r, o, i - 1)

\* No resource tried before o takes its requests.
Unrivalled(o) ==
    \A r \in Resources \ {o} :
        (/\ "GET" \in r.methods
         /\ getMatchCount(r) = getMatchCount(o) + (IF hasWildcardMatch(r) THEN 1 ELSE 0))
            => Differ(r, o, Len(o.elems))

\* o serves the members of l's list.
Serves(l, o) ==
    /\ o.kind = "object" /\ "GET" \in o.methods /\ o.rels # <<>>
    /\ o.rels = Append(l.rels, [list |-> l.list, param |-> Last(o.rels).param])
    /\ o.elems = Append(l.elems, Param(Last(o.rels).param))
    /\ Unrivalled(o) /\ ParamsApart(o)

\* The lists that hang from the root.
RootLists == {l.list : l \in {r \in Resources : r.rels = <<>>}} \cup {x.rel : x \in Loaded}

\* The graph is undirected: a relationship is no way back to the root.
NoWayToRoot(r) == Len(r.rels) >= 2 => Last(r.rels).list \notin RootLists

Creates(r) == r.kind = "list" /\ "POST" \in r.methods

\* The prefixes are such that ids with different numbers differ: "g" and "g1" are not,
\* which would give g11 for the numbers 11 and 1.
PrefixesApart ==
    \A r, s \in Resources : \A m, n \in 1..MaxID :
        IDString(r.prefix, m) = IDString(s.prefix, n) => m = n

ResourcesFit ==
    /\ \A r \in Resources :
        /\ r.rels \in Seq([list : STRING, param : STRING])
        /\ Creates(r) =>
            /\ NoWayToRoot(r)
            /\ \A i \in DOMAIN r.elems : r.elems[i].match # "WILDCARD"
            /\ \A i \in DOMAIN r.rels : \E j \in DOMAIN r.elems :
                    r.elems[j] = Param(r.rels[i].param)
            /\ \E o \in Resources : Serves(r, o)
        /\ (r.kind = "object" /\ "DELETE" \in r.methods) => NoWayToRoot(r) /\ r.rels # <<>>
    /\ \A x \in Loaded : x.id # Root

--------------------------------------------------------------------------------
(* Properties.                                                             *)

\* Where a GET for a URL would lead: the object resource it links to, and the
\* relationships it asks for.
Leads(url) ==
    LET s == Scan(resourceList, "GET", url)
    IN  /\ s.found
        /\ s.link[1].kind = "object"
        /\ Resolves(s.link[1], s.params)
        /\ TerminalID(s.link[1], s.params) = Last(url)

\* No id is given by the counter twice, whatever is deleted, cleared or refused in
\* between: an object made by a POST never gets the id of an earlier one, which a
\* client may have kept.  (HNRESTContent.cpp, getUniqueObjID and clear)
IssuedOnce == \A i, j \in DOMAIN issued : issued[i] = issued[j] => i = j

\* The Location a client holds leads to its object as long as neither the object
\* nor one above it has been deleted, whatever the other clients do meanwhile and
\* whatever else the application fails to do; unless newObject made no object, of
\* which a POST knows nothing.
\* (HNRESTRequest.cpp, sendResourceCreatedResponse; HNRESTResource.cpp, restPost)
LocationLeads ==
    \A c \in Conns :
        (daemon = "running" /\ location[c] # <<>> /\ Range(location[c]) \cap gone = {})
            => Leads(location[c])

\* A refusal that is the server's own has changed nothing, since it comes before the
\* first change.  A method of the application may throw after it; but unless that is
\* the last one, the notification, no list has changed that a client can ask for, and
\* no object is lost.
\* (HNRESTResource.cpp, restPost, restPut, restDelete)
RefusedChangesNothing ==
    [][\A c \in Conns :
        (request[c].phase = "ready" /\ request'[c].phase = "answered" /\ request'[c].code = 400) =>
            /\ request'[c].threw = "none" => cm' = cm
            /\ request'[c].threw # "notifyCfgChange" =>
                    cm'.edges = cm.edges /\ Ids(cm) \subseteq Ids(cm')]_vars

\* The map of objects and the graph agree: every relationship joins two objects
\* that exist, so no vertex of a freed object is followed.
\* (HNRESTContent.cpp, deleteObjByID, clear and addRelationship)
RelationshipsJoinObjects == \A e \in cm.edges : e.ends \subseteq Ids(cm)

\* Whatever the order of registration, a request goes to a resource with a
\* pattern of the greatest length that accepts it, and to a wildcard only when no
\* pattern of that length without one accepts it.
\* (HNRESTDeamon.cpp, registerResource and newRequest)
MostSpecificLinked ==
    \A c \in Conns :
        (request[c].phase \in {"upload", "ready"}) =>
            \A r \in Resources :
                Accepts(r, request[c].method, request[c].url)
                    => LET l == request[c].link[1]
                       IN  /\ getMatchCount(r) <= getMatchCount(l)
                           /\ (getMatchCount(r) = getMatchCount(l) /\ hasWildcardMatch(l))
                                => hasWildcardMatch(r)

\* The memory a representation allocated holds the data it copied there.
\* (HNRESTRepresentation.cpp, appendDataToBuffer)
BufferHoldsData ==
    \A c \in Conns :
        LET q == request[c]
            rep == IF q.phase = "answered" THEN q.outRep ELSE q.inRep
        IN  q.phase # "none" => \A b \in Rep!Buffers(rep) : Len(b.data) <= b.capacity
================================================================================
