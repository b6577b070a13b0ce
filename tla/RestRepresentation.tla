--------------------------- MODULE RestRepresentation --------------------------
(***************************************************************************)
(* What a request carries and what an answer carries (RESTRepresentation), *)
(* and the data items it is made of (RESTRepDataItem).  A map of items is  *)
(* a function from names.  Data are sequences; a buffer is a record with   *)
(* the data and the capacity of the allocation.                            *)
(***************************************************************************)
EXTENDS Integers, Sequences

CONSTANT Growth     \* the step by which a buffer grows: 1024 in the code

EmptyItem == [data |-> <<>>, capacity |-> 0]

\* needed & ~Growth, for a Growth that is a power of two: one bit is cleared,
\* not all the lower ones.
ClearBit(needed) == IF (needed \div Growth) % 2 = 1 THEN needed - Growth ELSE needed

\* Slip: the size is rounded down to whole steps.
RoundedDownCapacity(needed) == (needed \div Growth) * Growth

GrownCapacity(needed) == ClearBit(needed) + Growth

appendDataToBuffer(item, data) ==
    LET needed == Len(item.data) + Len(data)
    IN  [data     |-> item.data \o data,
         capacity |-> IF needed > item.capacity THEN GrownCapacity(needed)
                                                ELSE item.capacity]

\* map.insert: a name that is there keeps its item.
InsertItem(items, name, value) ==
    [n \in DOMAIN items \cup {name} |-> IF n \in DOMAIN items THEN items[n] ELSE value]

--------------------------------------------------------------------------------
(* A representation; content is a sequence of at most one item.            *)

EmptyRepresentation ==
    [header |-> [n \in {} |-> n], encoded |-> [n \in {} |-> n], content |-> <<>>]

hasSimpleContent(rep) == rep.content # <<>>

addHTTPHeader(rep, name, value) ==
    [rep EXCEPT !.header = InsertItem(@, name, value)]

\* setSimpleContent(contentType) keeps the item that is there.
setSimpleContentType(rep, type) ==
    addHTTPHeader([rep EXCEPT !.content = IF @ = <<>> THEN <<EmptyItem>> ELSE @],
                  "Content-Type", type)

\* setSimpleContent(data) takes the type from the header; a new item replaces
\* the one there was.
setSimpleContent(rep, data) ==
    LET type == IF "Content-Type" \in DOMAIN rep.header THEN rep.header["Content-Type"] ELSE ""
    IN  addHTTPHeader([rep EXCEPT !.content = <<appendDataToBuffer(EmptyItem, data)>>],
                      "Content-Type", type)

\* Without an item there is nothing to append to, and the data are dropped.
appendSimpleContent(rep, data) ==
    [rep EXCEPT !.content = IF @ = <<>> THEN <<>>
                            ELSE <<appendDataToBuffer(@[1], data)>>]

getSimpleContent(rep) == IF rep.content = <<>> THEN <<>> ELSE rep.content[1].data

\* The post processor reports a form value piece by piece: offset 0 adds the
\* item, a later offset appends to it.
addEncodedParameter(rep, key, data) ==
    [rep EXCEPT !.encoded = InsertItem(@, key, appendDataToBuffer(EmptyItem, data))]

updateEncodedData(rep, key, data) ==
    IF key \in DOMAIN rep.encoded
    THEN [rep EXCEPT !.encoded[key] = appendDataToBuffer(@, data)] ELSE rep

processDataIteration(rep, key, off, data) ==
    IF off # 0 THEN updateEncodedData(rep, key, data)
               ELSE addEncodedParameter(rep, key, data)

\* Every buffer of a representation, for the property that none overflows.
Buffers(rep) ==
    {rep.content[i] : i \in DOMAIN rep.content} \cup
    {rep.encoded[k] : k \in DOMAIN rep.encoded}
================================================================================
