--------------------------------- MODULE MCRest --------------------------------
(* An application with groups, their members, a status and a catch-all.    *)
EXTENDS RestServer

CONSTANTS c1, c2

ConnsDef == {c1, c2}

ConnSymmetry == Permutations(ConnsDef)

Resource(elems, methods, kind) ==
    [elems |-> setURLPattern(elems), methods |-> methods, kind |-> kind,
     objType |-> "none", list |-> "none", prefix |-> "none", rels |-> <<>>]

ListMethods   == {"GET", "POST"}
ObjectMethods == {"GET", "PUT", "DELETE"}

InGroups  == <<[list |-> "groups", param |-> "gid"]>>
InMembers == Append(InGroups, [list |-> "members", param |-> "mid"])

Groups  == [Resource(<<Str("groups")>>, ListMethods, "list") EXCEPT
                !.objType = "group", !.list = "groups", !.prefix = "g"]
Group   == [Resource(<<Str("groups"), Param("gid")>>, ObjectMethods, "object") EXCEPT
                !.objType = "group", !.rels = InGroups]
Members == [Resource(<<Str("groups"), Param("gid"), Str("members")>>, ListMethods, "list") EXCEPT
                !.objType = "member", !.list = "members", !.prefix = "m", !.rels = InGroups]
Member  == [Resource(<<Str("groups"), Param("gid"), Str("members"), Param("mid")>>,
                     ObjectMethods, "object") EXCEPT
                !.objType = "member", !.rels = InMembers]
Status  == Resource(<<Str("status")>>, ObjectMethods, "status")
CatchAll == Resource(<<Star, Str("ignored")>>, {"GET", "POST"}, "base")

ResourcesDef == {Groups, Group, Members, Member, Status, CatchAll}

\* The application keeps to what its clients' Locations and the ids need.
ASSUME ApplicationFits == ResourcesFit /\ PrefixesApart

IDStringDef(prefix, n) == prefix \o ToString(n)

LoadedDef == {[type |-> "group", id |-> "g1", rel |-> "groups"]}

Document == <<<<"<group>">>, <<"<name>", "</group>">>>>
Stranger == <<<<"<zone/>">>>>
Form     == <<<<"a">>, <<"b">>>>

BodiesDef == {<<>>, Document, Stranger, Form}

FormBodiesDef == {Form}

Flat(body) == IF body = <<>> THEN <<>> ELSE FoldLeft(LAMBDA s, p : s \o p, <<>>, body)

ParsedAsDef(content) == CASE content = Flat(Document) -> "node"
                          [] content = Flat(Stranger) -> "other"
                          [] OTHER -> "junk"

Ask(methods, urls, bodies) == [method : methods, url : urls, body : bodies]

AskedDef(ids) ==
    LET With(prefix) == {IDString(prefix, n) : n \in 1..MaxID}
        gs == ids \cap With("g")
        ms == ids \cap With("m")
        groups  == {<<"groups">>}
        members == {<<"groups", g, "members">> : g \in gs}
        objects == {<<"groups", g>> : g \in gs}
                   \cup {<<"groups", g, "members", m>> : g \in gs, m \in ms}
    IN  Ask({"GET"}, {<<"groups">>, <<"status">>} \cup members \cup objects, {<<>>})
        \cup Ask({"DELETE"}, {<<"groups">>, <<"status">>} \cup objects, {<<>>})
        \cup Ask({"PUT"}, objects, {<<>>})
        \cup Ask({"PUT"}, {<<"groups", g>> : g \in gs}, {Stranger})
        \cup Ask({"POST"}, groups, {Document, Stranger, Form})
        \cup Ask({"POST"}, members, {<<>>})
        \cup Ask({"POST"}, {<<"status">>}, {<<>>})
================================================================================
