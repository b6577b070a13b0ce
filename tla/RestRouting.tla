------------------------------ MODULE RestRouting ------------------------------
(***************************************************************************)
(* How the REST server finds the resource of a request.                    *)
(*                                                                         *)
(* A name is one element of a URL or of a pattern, and a URL the sequence  *)
(* of its non-empty elements.  A resource is a record with the fields      *)
(*   elems     its pattern, a sequence of [match, name] (RESTResourcePE)   *)
(*   methods   the methods it was registered for                           *)
(*   kind      the class that handles it: "list", "object", "status", or   *)
(*             "base" (RESTResource itself, which answers 501)             *)
(*   objType, list, prefix, rels   the members of the content resources    *)
(***************************************************************************)
EXTENDS Integers, Sequences, SequencesExt

Methods == {"GET", "PUT", "POST", "DELETE"}

Names == STRING

URLs == Seq(Names)

Str(text)   == [match |-> "STRING",   name |-> text]
Param(text) == [match |-> "PARAM",    name |-> text]
Star        == [match |-> "WILDCARD", name |-> "*"]

NoEntries == [k \in {} |-> k]

--------------------------------------------------------------------------------
(* Patterns.                                                               *)

\* A wildcard ends the pattern: what follows it is not looked at.
setURLPattern(tokens) ==
    LET stars == {i \in DOMAIN tokens : tokens[i].match = "WILDCARD"}
    IN  IF stars = {} THEN tokens ELSE SubSeq(tokens, 1, Min(stars))

getMatchCount(r) == Len(r.elems)

hasWildcardMatch(r) == Len(r.elems) > 0 /\ Last(r.elems).match = "WILDCARD"

\* Where the walk over the URL would leave the pattern.
Mismatches(r, url) ==
    {i \in (DOMAIN url) \cap (DOMAIN r.elems) :
        r.elems[i].match = "STRING" /\ r.elems[i].name # url[i]}

\* linkRequest: all elements match, and as many as the pattern has; a
\* wildcard takes any number of elements, none included.
Accepts(r, method, url) ==
    /\ method \in r.methods
    /\ Mismatches(r, url) = {}
    /\ IF hasWildcardMatch(r) THEN Len(url) >= getMatchCount(r) - 1
                              ELSE Len(url) = getMatchCount(r)

\* The number of elements the walk takes before it leaves the loop.
Walked(r, method, url) ==
    IF method \notin r.methods THEN 0
    ELSE Min({Len(url), Len(r.elems)} \cup {i - 1 : i \in Mismatches(r, url)})

\* The parameters after an attempt to link: every parameter element walked over
\* is inserted, whether the attempt succeeds or not, and an entry that is
\* there already stays.
LinkParameters(params, r, method, url) ==
    LET taken == {i \in 1..Walked(r, method, url) : r.elems[i].match = "PARAM"}
        First(n) == Min({i \in taken : r.elems[i].name = n})
        fresh == {r.elems[i].name : i \in taken} \ DOMAIN params
    IN  [n \in fresh \cup DOMAIN params |->
            IF n \in DOMAIN params THEN params[n] ELSE url[First(n)]]

\* The elements of the URL a wildcard collects.
WildcardElements(r, url) ==
    IF hasWildcardMatch(r) THEN SubSeq(url, getMatchCount(r), Len(url)) ELSE <<>>

--------------------------------------------------------------------------------
(* The list of resources.                                                  *)

\* Slip: the length of the patterns alone decides.
SortByCountOnly(a, b) == getMatchCount(a) > getMatchCount(b)

\* Longer patterns first; of equal length, those without a wildcard first.
resourceSortFunc(a, b) ==
    \/ getMatchCount(a) > getMatchCount(b)
    \/ /\ getMatchCount(a) = getMatchCount(b)
       /\ ~hasWildcardMatch(a)
       /\ hasWildcardMatch(b)

\* The new resource goes to the end and the list is sorted; std::list::sort is
\* stable, so it ends up behind those it does not precede.
registerResource(list, r) ==
    LET before == {i \in DOMAIN list : ~resourceSortFunc(r, list[i])}
    IN  InsertAt(list, IF before = {} THEN 1 ELSE Max(before) + 1, r)

Linkable(list, method, url) == {i \in DOMAIN list : Accepts(list[i], method, url)}

\* newRequest's scan: the resources are tried in order until one links.
Scan(list, method, url) ==
    LET hits  == Linkable(list, method, url)
        tried == IF hits = {} THEN list ELSE SubSeq(list, 1, Min(hits))
        Try(params, r) == LinkParameters(params, r, method, url)
    IN  [found  |-> hits # {},
         link   |-> IF hits = {} THEN <<>> ELSE <<list[Min(hits)]>>,
         params |-> FoldLeft(Try, NoEntries, tried),
         wild   |-> IF hits = {} THEN <<>> ELSE WildcardElements(list[Min(hits)], url)]
================================================================================
