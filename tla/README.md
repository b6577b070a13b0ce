# HNode verification project

TLA+ modules, TLC configurations and TLAPS proofs for HNode: a set of C
libraries and programs (GLib, GObject, Avahi) with which *nodes* on a local
network are discovered by a *management server* and reported to *browsers*, and
a small REST server in C++.  Paths below are relative to the repository; module
comments name the C functions they model.

## The system

    node (hnode-nodeobj.c)  <--- UDP --->  management server (hnode-srvobj.c)  <--- TCP --->  browser
      publishes _hnode._udp                 one GHNodeProvider per node found                (hnode-browser*.c,
      answers PINFO, EPINFO,                one GHNodeClient per browser                      hmcfg.c)
      SYSINFO requests                      publishes _hmnode._tcp

All C programs are single threaded: one GLib main loop runs callbacks to
completion.  Interleaving comes from the order of callbacks, from packets on
the network, and from processes that stop and start.

| Component | State it keeps | Operations | Hard behaviour | What makes it correct |
|---|---|---|---|---|
| Packet source, `hnode-pktsrc.c` | queue of packets to send, the packet being sent and how far, the poll events | `send_packet`, the dispatch of a poll result, callbacks `rx_packet`, `tx_packet`, `state_change`, `new_source` | short sends, callbacks that queue packets while the dispatch goes on, the peer going away | FIFO, every byte once, no lost wake-up |
| Management session, `hnode-srvobj-client.c` | node records with their report state, counters, enable flags | `client_rx`, `client_tx`, `add_node`, `start`, `forward_debug_packet`, `client_state` | reports are driven by completions of any packet | each node told once, in order, and never a stall |
| Management server, `hnode-srvobj.c` | provider list, client list, next object id | resolver, provider and client callbacks, `newsrc`, `debugrx`, `hnoderx` | clients and providers that arrive in any order, shared objects | sessions agree with the provider list; nothing is freed while in use |
| Provider record, `hnode-provider.c` | transaction state, request tag, end point array | `start`, `process_rx_reply`, `generate_tx_request`, `claim` | lost, duplicated and late datagrams; several records of one address; restarts at another port | claimed only with complete information, each address ready once, ready means claimed |
| Node, `hnode-nodeobj.c` | end points, the server it was claimed by | `hnoderx`, debug, event and configuration frames, Avahi callbacks | restarts, late claims | holds the id the server gave it |
| Avahi publication (node and server) | service group, service name | client and entry group callbacks | name collisions and host name changes, signalled in any order; names taken on the same host | published while the daemon runs, dropped while it does not, aborted only for a name another node took |
| Browser, `hnode-browser*.c`, `hmcfg.c` | servers and nodes found, resolvers at work | resolver callbacks, management packets | enumeration behind asynchronous callbacks, ids that each server gives on its own | records are the nodes' own data, frames go to their node, the end comes after every server |
| Packet buffer, `hnode-packet.c` | bytes, cursor, lengths, capacity | get, set, skip, reset | growth, fields across a block | what is set is what is read, nothing past the capacity |
| Daemon, `hnode-srvobj.c`, `hnode-signal-source.c`, `hmsrv.c` | PID file, pipe, parents and children, signal queue | start as daemon, stop, check, signals | several start-ups in two processes each, a timeout, signals at any step | one copy, a true exit status, a stop that takes effect |
| Example node, `hnode.c` | memory regions, their segments | configuration requests | indices and ranges from the wire, hand-written offsets | a request changes its own region only |
| REST server, `src/REST` | resources, content objects and their relationships, requests | GET, POST, PUT, DELETE on a URL tree | requests of several connections in pieces, exceptions between two changes, deletions, resets | the server's refusals change nothing, ids once, a Location leads to its object |
| Representations and HTTP client, `src/REST` | data items, headers, the answer | append, form data, transfer of an answer | data that arrive in pieces of any size | what arrives is what is kept |

The packet source calls into the session and the server through GObject
signals, synchronously; they call back `send_packet`.  Provider records ask the
server to send for them (`tx_request`) and report to it (`state_change`); the
server notifies its sessions.  Nodes and the server meet only on the network.
The REST library is used by none of the C programs; invocations of `hmsrv` meet
at the PID file.

## Modules

| Module | Models |
|---|---|
| `ClientSession` | the session object and each of its handlers, as operators |
| `HNodeClient` | one session under every interleaving of the server, the client and its packet source |
| `NodeFeed` | what a session promises: nodes told once each, in order; `HNodeClient` implements it |
| `SessionTypes`, `SessionProofs` | the types of a session; what the operators of `ClientSession` keep, for any session |
| `HNodeClientProofs` | the inductive invariant of one session, its theorems, and that it implements `NodeFeed` |
| `HNodeServer` | provider list, client list, sessions built from `ClientSession`, reference counts |
| `ServerProofs` | the inductive invariant of the server with all its sessions, and its theorems |
| `Discovery`, `MCDiscovery` | provider records, nodes, and the UDP network between them |
| `NodeRegistry` | what discovery promises: an address is ready at most once, and only after a node was found there; `Discovery` implements it |
| `PktSrc`, `MCPktSrc` | the transmit side of a packet source, the main loop's poll, and the peer |
| `TxChannel` | what a packet source promises: a FIFO channel; `PktSrc` implements it |
| `WireProofs` | the inductive invariants of discovery and of a packet source, their theorems, and that they implement `NodeRegistry` and `TxChannel` |
| `AvahiService`, `MCService` | publication of the services of nodes and servers, with the Avahi daemons of their hosts |
| `Packet` | the packet buffer: cursor, data, capacity, integers of each width |
| `NodeRecord` | addresses, the provider's record, and its conversions: node to server, server to browser |
| `Browser`, `MCBrowser` | a browser, its management points and what is behind them: sessions from `ClientSession`, bytes from `Packet` and `NodeRecord` |
| `BrowserProofs` | what is read of packets that were written, that records pass through them unchanged, the streams between sessions and browsers, and the theorems of all four invariants of `browser` |
| `FoldProofs` | folds over sequences and induction, which `BrowserProofs` and `RestProofs` rest on |
| `RestRouting` | URL patterns, the sorted resource list, which resource a request is linked to |
| `RestContent` | the content manager: objects, the graph of relationships, ids |
| `RestRepresentation` | data items and their growth, simple content, headers, form data |
| `RestServer`, `MCRest` | the REST daemon with its connections, every resource handler, and what a client keeps |
| `RestProofs` | the inductive invariants of the REST server and its theorems |
| `Daemon` | invocations of `hmsrv`: parents, children, PID file, signals |
| `NodeConfig` | the configuration memory of the example node and its requests |
| `MCPrograms` | `Daemon` and `NodeConfig`, each alone |
| `ProgramProofs` | the inductive invariants and theorems of `Daemon`, `AvahiService` and `NodeConfig` |

How state and actions correspond to the code:

- `ClientSession` keeps the fields of `GHNodeClientPrivate` under their names.
  `EnableFlags` is one Boolean per bit; a pointer to a node record is its
  position in `NodeList`; a packet is its type, tag and the record or frame it
  is about.  The queue of the packet source below is `TxPackets`.  That a
  session may see its packet source as a FIFO queue with completions is what
  `ImplementsChannel` of `PktSrc` shows.
- An action of `HNodeClient`, `HNodeServer` or `Discovery` is one main loop
  callback with everything it calls.  For example `TxComplete` is the whole of
  `g_hnode_client_client_tx`, the record it goes on with included, and
  `RxEPointReply` includes the claim that the server makes from the
  `state_change` signal and the request that the claim sends.
- `Discovery` keeps datagrams in a set: they are reordered at will, lost or
  duplicated where `Faults` says so.  Equal datagrams are told apart by the
  record they belong to, which is not on the wire and which no guard reads.
  An address is a host and a port, as `g_hnode_address_is_equal` compares them.  A
  node binds port 0 (`hnode-pktsrc.c:443`): restarted, it is at any port, the old
  one included.  At another port it is a new provider to the server, claimed and
  reported ready once more, while the record of the old port stays ready; requests
  to the old port are lost (`NodeGone`).
- `PktSrc` takes a poll and the dispatch of its result as two steps.
  `send_packet` removes the descriptor from the poll set and adds it again,
  which clears the poll result: that is in `SendPacket`, which callbacks of other
  sources make.  In its own dispatch a source is blocked, and GLib leaves the poll
  result alone; so `DispatchIO` first hands what arrived to `rx_packet`, which may
  answer it, and then serves `G_IO_OUT` in the same dispatch.  One step may answer,
  complete a packet and queue the next from the callback, and `TxChannel` has it.
  When the next packet is selected the dispatch function returns without a
  value (`hnode-pktsrc.c:830`); the compiled function then returns the pointer
  it tested, which is not zero, so the source stays attached.
- `AvahiService` has the same actions for nodes and servers, except for the
  collision handler, in which a server calls `g_error`.  A callback is one action.
  What a daemon signals waits in a queue for each publisher, so that a collision may
  be delivered after the services were reset; `group` is the daemon's own view.
  `CreateServices` has both outcomes of `avahi_entry_group_add_service` and `_commit`:
  accepted, or refused, on which the publisher aborts (`hnode-nodeobj.c:492`).  The
  daemons are external: one accepts a service unless the group is in use or another
  group of its host has the name, and finds the users of a name on other hosts by
  probing.  Node and server services are of different types and never collide.

- In `Browser` packets are bytes.  A node's own record goes through six functions
  before a browser shows it: the node's answers, the provider that parses them,
  the provider's client update and the browser node that parses that one
  (`NodeRecord`).  A report of the browser's Avahi client, a resolved service, an
  accepted connection, a packet read at either end, a node's frame and a broken
  connection are an action each.  The session at the server's end is the
  operators of `ClientSession`; its packet source is a FIFO of bytes.
- `RestServer` takes a call of libmicrohttpd into the library as one action: the
  first call with the headers (`NewRequest`), one for each piece of the body,
  the last one, and the end of the connection.  A handler runs whole in the call
  that makes the request complete.  An exception is an error answer where the
  handler catches it, and the end of the process where nothing does.  The methods of
  the application that a handler calls (`Fallible`) may throw, before the first change
  or after it, and `newObject` may return NULL: `PostWays`, `PutWays` and `DeleteWays`
  list the ways through a handler, with the manager as each leaves it.  An id is the
  text that `%s%d` makes of a prefix and a number (`IDString`).  A request that no
  resource takes is answered with `MHD_NO`, which closes the connection: its client
  gets nothing.
- `Daemon` takes a step of a child per call that can fail or that others see.  A
  parent, the children of other invocations, `--check`, `--stop` and aborts are
  interleaved with them at will.
- `NodeConfig` keeps the memory as one value per cell and takes a request packet
  as one action, with the reply it sends.

Definitions whose comment begins with "Slip:" are not the code.  Each is a
plausible mistake in the definition that follows it; with it in place of that
definition, TLC finds a property violated.

## Runs

| Run | Question | Bounds and why they are enough |
|---|---|---|
| `client` | does a session keep its books, never stall, implement `NodeFeed` and report every record? | 3 records, so that one is established, one exposed and one new; up to 3 packets queued when requests or 2 frames arrive, so that an acknowledgement and a frame are before and after a record |
| `discovery` | is a claimed provider complete, do node and server agree on the object id, and does discovery implement `NodeRegistry`, under loss, duplication and a restart? | one node of 2 end points (a first and a last), found twice, restarted once at either of 2 ports: both records at one address, or one at each; the ports are symmetric |
| `discovery_live` | do object ids of different nodes stay apart, and does a found node that stays where it is become ready when nothing is lost? | two nodes of 2 and 1 end points, one of them found twice, one restart at either of 2 ports |
| `discovery_twice` | has the node of a ready provider accepted the claim? (no) | the same, without the restart |
| `pktsrc` | FIFO, every byte once, no lost wake-up, every packet sent | 3 packets of 3, 2 and 1 bytes: a send can be cut twice, once, never; and one dispatch can complete the first, with an answer before and a packet from the callback after |
| `server` | do sessions agree with the provider list, is nothing freed early, is every subscribed client told of every ready provider? | 2 providers, 2 clients, 2 connections (two clients at once, or one that reconnects), 1 frame; 2 packets queued, so that an acknowledgement completes while a record is queued |
| `server_refs` | are a session's references given back when it ends? (no) | 2 providers, 1 connection |
| `service` | does what was dropped with the host name stay dropped, does only a name taken on the host abort a node, and do nodes that start with one name all get published otherwise? | 3 nodes that start with one name, two of them on one host, and apart from them 2 servers: an alternative name may collide again, and may be taken on the host; each host's name changes once, so that a collision comes before, between and after the changes |
| `service_host` | are services registered again after a host name change? (no) | the same, without fairness |
| `browser` | are the records a browser builds the nodes' own data, do frames go to the node that sent them, does the end of the enumeration come after the servers found before it, does nothing write past a packet? | 2 services of one server or two, 2 nodes that either server may discover, 1 frame, 1 broken connection; blocks of 16 bytes instead of 512, so that fields cross a block; a server knows 1 node, so that one id names two nodes |
| `programs` | can a second daemon start, is the parent's status true, does a stop take effect? does a configuration request change other regions? | 3 invocations, since one has to win, one to lose and one to come later; 2 changes of the memory, so that a second one may spoil the first; cells of 256 bytes, the greatest step that still tells all regions apart |
| `rest` | what may a refused request change, is an id given once, does a Location lead to the object, is the most specific resource served? | 2 connections, 2 new objects besides one the application loads, whose id is one the counter may give; any method of the application may throw at any call, and `newObject` may return NULL; 6 resources registered in any order, two of which accept the same URLs; buffers grow by 2 instead of 1024, so that pieces of 1 and 2 fall on both sides of a step |

The runs marked "(no)" check what a comment says and end in a counterexample:

- `discovery_twice`: any packet from the node's address is taken for the
  acknowledgement of a claim (`hnode-provider.c:730`), so that with two records
  of one node a late reply to the second makes the first ready.
- `server_refs`: disposal of a session refs its providers where the comment says
  unref (`hnode-srvobj-client.c:142`).
- `service_host`: services are created only when there is no group yet, and a
  reset leaves the group in place (`hnode-nodeobj.c:531`, `hnode-srvobj.c:810`).

Three more limits of the code are modelled as they are and have no run of their
own.  A session relays debug frames only while a node record is in transit
(`hnode-srvobj-client.c:702`); a failed send calls `exit(-1)`
(`hnode-pktsrc.c:926`), which is `TransmitFails`; the message of a name
collision at a server is a `g_error` (`hnode-srvobj.c:571`), which is
`ServerGroupCollision`.

What the three larger runs showed of the code, besides the properties that hold:

- A child that loses the race for the PID file removes the winner's file in its
  clean-up (`hnode-srvobj.c:1514`), and the next invocation may start a second
  daemon.  `OnlyCopy` says that this is the only way to one.
- The parent is told of success before the server is started.  After 20 seconds
  it exits with 255 whatever the child does; the child may serve, or die of
  `SIGPIPE`.  The PID file is not removed on a normal exit, and a later call
  finds it stale.  A SIGTERM between the fork and `daemon_signal_init` acts by
  default.
- A GET resolves its relationships before its `try` block: for an object that has
  just been deleted, the exception leaves libmicrohttpd's callback and the process
  ends (`GetObject`).
- `/a/*` also takes `/a`; resources whose patterns have the same length are in the
  order of registration; parameters stay in a request from resources that did not
  match.  A request body that cannot be parsed creates an object without fields,
  the bodies of errors are dropped, and exceptions thrown as pointers answer with
  code 10000.
- Members of a deleted group stay in `objMap` out of reach.  An id the application
  loads may be given again by the counter after its object is deleted or the content
  reset, and a client that kept it then finds another object; `IssuedOnce` is about
  the ids of the counter, which a reset does not set back.  Prefixes such as `g` and
  `g1` make the same id of different numbers (`HNRESTContent.cpp:662`); that an
  application's do not is `PrefixesApart`, and without it `IssuedOnce` is false.
- When `newObject` returns NULL, `addObj` returns without an object and nobody is told
  (`HNRESTContent.cpp:719`): the POST is answered 201 with a Location that leads
  nowhere, and a GET there ends the process.  `LocationLeads` excepts that POST, as if
  its object had been deleted at once, and shows that no other Location suffers.
- An exception of the application after the first change is answered 400 and the
  change stays (`HNRESTResource.cpp:563`): an object without a parent when
  `setFieldsFromContentNode` throws in a POST, and the whole change when
  `notifyCfgChange` does.  `RefusedChangesNothing` says that it is never more: what the
  server itself refuses is unchanged, and up to the notification no list has changed
  and no object is gone.
- A node whose name another node of its host has is refused by the daemon and aborts
  (`hnode-nodeobj.c:492`), although its Avahi callback has a case for collisions: that
  is for names on other hosts.  `EveryNodePublished` allows for it, and
  `OnlyNeighboursAbort` says that a node is refused for no other reason.
- A collision that was signalled before the services were reset is delivered after it,
  and the node registers under its new name while the daemon does not run; the comment
  at `hnode-nodeobj.c:555` would have it wait.  `DroppedStaysDropped` allows for it.
- A node that restarts at another port is ready once more under a new object id, and
  its old record stays ready for ever; at its old port it is never claimed again.
- The client's header expression does not match names with a hyphen, and a
  representation that is used again keeps an old `Location`.
- A browser gets one report per interface, so a server on two has two points and
  its nodes are listed twice.  `AVAHI_BROWSER_REMOVE` and lost connections leave the
  lists alone.  `enum-cmplt` may come more than once, says nothing of nodes, and
  `hmcfg` does not use it.  A resolver that fails aborts the program.
- `RegMapReq` compares an index with the count by `>`: the count itself reads one
  entry past the table.  `g_hnode_erased_check` is not called.

Deadlock checking is off where the system may come to rest: all bounded inputs
used, or the connection closed.

### Fairness

- `HNodeClient`, `HNodeServer`: weak fairness of the completion of a queued
  packet.  The main loop dispatches a source whose socket takes data; the peer
  is assumed to go on reading.
- `Discovery`: weak fairness of the two main loops taking some datagram that
  has arrived.  `discovery_live` has no network faults, since the code has no
  retry: a datagram that is lost is never sent again.
- `PktSrc`: weak fairness of poll and dispatch, and strong fairness of a poll
  that returns `G_IO_OUT`: while the peer reads, the socket takes bytes again
  and again.
- `AvahiService`: weak fairness of each node's callbacks, whose main loop runs, and of
  the daemons' probes.  Nothing is assumed of the host names.
- `Daemon`: weak fairness of the steps of each child.  The kernel schedules the
  process, and its main loop polls the descriptor of the signal queue.  Parents,
  commands and aborts get none.

## Proofs

`HNodeClientProofs` proves, for any number of providers, records, tags, frames
and queued packets, from `BoundsAssumption` alone:

- `SessionTypes`, `BookkeepingHolds`, `ReportsGoOn`, `OrderHolds`: the four
  invariants of `client`, each a consequence of
- `SessionInvariant`: `Spec => []SessionInv`.

None of the four is inductive.  Whether `client_tx` counts right depends on
which record it marks; which record it marks depends on the queue; and the
queue holds packets that are not records.  `SessionInv` says of a connected
session that

1. NodeIDs are positions in the list, the records split into established,
   exposed (at most one, exactly when `UPDATING`) and new, in this order, and
   `UpdateNodeCount` is the number of the last two (`Bookkept`);
2. a packet is queued while a record is being exposed, and while a subscribed
   client has unreported records; a session not started is not subscribed
   (`Driven`);
3. the records that left `NEW` are those announced and then those queued, in
   order, without a gap (`SentInOrder`).

The lemmas follow the code and are about `ClientSession` alone, so that they serve
the server too; they are in `SessionProofs`.  `BuildUpdateExposes` shows that the scan
of the list finds the oldest record not established, `ExposeKeepsBooks`,
`FinishKeepsBooks` and `AddedKeepsBooks` that each handler keeps (1), the lemmas on
queues (`OtherQueued`, `NodeQueued`, `OtherSent`, `NodeSent`) that queueing or
completing one packet keeps (3).  Note that (3) does not tie the record a
completion marks as established to the packet completed: the code does not,
and order does not depend on it.

`SessionIsFeed` is the refinement: `Spec => ImplementsFeed`.  Handlers change the
state of records and never their nodes (`BuildKeepsNodes`, `FinishKeepsNodes`), so
what is known only grows at its end (`AddLearns`).  By (3) what was told is the
beginning of what is known (`ToldIsPrefix`), so that a completed record is the next
one of the feed (`TellStep`).  It takes one fact more than `SessionInv`: no record is
queued before the client asked (`AskedFirst`).

`ServerProofs` proves all five invariants of `server`, for any providers, clients,
connections, frames and bounds: `ServerTypes`, `EverySessionComplete`, `ToldOnce`,
`ProvidersHeld` and `FramesHeld`.  Each follows from `ServerInvariant`:
`Spec => []ServerInv`.  Of each connected session `ServerInv` says that it *serves*:

- it is sound in the sense of `SessionProofs`, (1) and (3) above;
- it lists the ready providers and no other, once each (`ListsOnce`);
- its client was told a prefix of what it lists, which with the previous line makes
  `ToldEachOnce` inductive;
- no debug frame is twice in its queue, and only frames the server received.

Of the counts it says that a provider in the list has a reference for the list and,
once it is ready, one for each client; and that a debug frame has one for each
client in whose queue it waits.  They are bounds from below: disposal of a session
takes a reference more where it should give one back (`server_refs`), so equality is
false.  That a session's list of ready providers is right when it starts takes an
induction over the scan of `HNodeList` (`NewServes`); the induction rule for a set of
numbers is a lemma of `FoldProofs` (`Induction`), proved from the well-foundedness of
subsets of a finite set.

`WireProofs` proves, for any packets and lengths, `NoLostWakeUp` and `SendsTheHead`,
that is `OutWhileQueued` and `CurTxIsHead`, and `SourceIsChannel`:
`SourceSpec => ImplementsChannel`; `WireInOrder` proves `WireIsPackets`.  All rest on `SourceInv`, which adds that what was
handed over is what was completed followed by the queue (`InOrder`), and that a
poll result with `G_IO_OUT` is dispatched to a source that has work (`OutHasWork`).
The second is needed because the poll and its dispatch are two steps, and callbacks
of other sources may run between them.  A dispatch is taken apart along the code: the
answer keeps the queue in order (`EnqueueKeeps`), and what is then sent is a step of the
channel from there (`TransmitStep`).  For the bytes, the lemmas on `FlattenSeq` say
by induction over its recursion that it is defined, and that appending a sequence
appends its bytes (`FlattenAppend`).  A send that is cut then continues the packet's
bytes where they ended, and one that completes it turns the beginning of the current
packet into the last whole one.

`WireProofs` also proves, for any nodes, numbers of end points, times a node is found,
restarts, and with or without faults, `DiscoveryTypes`, `ClaimedComplete`,
`FirstRecordOnly`, `IdsAgree` (the four invariants of `discovery`) and
`DiscoveryIsRegistry`: `Spec => ImplementsRegistry`.  A record may receive any datagram
of its address that is or was in flight, so `DiscoveryInv` has to say what each of them
means: the end points it tells of are its node's own, and a claim carries an id that
the server gave to a record of its node (`WireSays`).  Of the records it says which slots are filled at each stage
(`RecordsFilled`), that the ids given are below `NextProviderID` and differ (`IdsGiven`),
what a node holds at the address it is at (`NodesHold`), and that an address reported
ready has a record that made it so (`ExposedReady`).  That a claim acknowledgement belongs to the claim is nowhere in it:
the code does not see to that, as `discovery_twice` shows.

`RestProofs` proves, for any resources, connections, bodies and bounds:

- `GraphStaysJoined`, `MostSpecificServed` and `BuffersSuffice`, that is
  `RelationshipsJoinObjects`, `MostSpecificLinked` and `BufferHoldsData`, each a
  consequence of `RestInvariant`: `Spec => []RestInv`.
- `IdsIssuedOnce`, that is `IssuedOnce`, under the hypothesis `PrefixesApart`: ids are
  texts, and the server does not see to it that two prefixes with two numbers give two.
- `RefusalsChangeNothing`, that is `RefusedChangesNothing`, whichever methods of the
  application throw and wherever.
- `GrowthSuffices`: the masked growth of a buffer is at least what is needed, for
  every step and length, on which `BuffersSuffice` rests.

`RestInv` has four parts.  `ListInv`: the resource list is sorted, and complete
while the daemon runs; `RegisterKeepsSorted` shows that an insertion at the place
the sort gives keeps it so, and `ScanFindsBest` that the first match in a sorted
list is a most specific one.  `RequestInv`: a request under way stays linked to a
best resource, through the pieces of its body; it is needed because the list is
read when a request begins and its properties are asked for later.  `ContentInv`:
every edge joins objects of the map, and `nextID` is within its bound.  `MethodsJoin` and
`MethodsCount` show both of each method of the content manager, `PostWaysJoin`,
`PutWaysJoin` and `DeleteWaysJoin` of every way through a handler, an exception between
two changes included.  `IssuedInv` adds for `IdsIssuedOnce` that the ids given are those
of numbers up to `nextID`, so that the next number, which is greater, gives none of
them where `PrefixesApart` holds.  `BufferInv`: the items of every request and answer hold
sequences no longer than their capacity (`Buffered`), and what is still to come of a
body are sequences (`Carries`), through form data, appended pieces and the answers.
`BodiesAssumption` says that a body is a sequence of pieces, and a piece a sequence;
`ResourcesAssumption` that a resource's pattern is a sequence of elements and its prefix a string.

`LocationsLead` proves `LocationLeads` for every application whose resources fit
together.  The server does not see to that, so `ResourcesFit` is a hypothesis of the
theorem and not an assumption of the model, and `MCRest` asserts it of the application
that TLC checks.  It says what someone who writes resources for this server has to keep to:

- each list that objects can be added to has an object resource with its pattern and
  its relationships and one more of each (`Serves`);
- no resource that is tried before that one accepts its URLs (`Unrivalled`);
- no attempt to link another resource leaves a parameter of the same name behind with an
  element from another place (`ParamsApart`), because `linkRequest` inserts parameters
  as it walks, keeps those of attempts that fail, and the first of a name stays;
- a list below another does not have the name of a list of the root (`NoWayToRoot`):
  the graph is undirected, so the root would be found in it as a child, and a DELETE
  there would delete the root.

`LocationInv` is inductive together with `RestInv`.  A request under way has
parameters from its own URL (`WayInv`): `ScanParameters` shows it of the fold of
`newRequest`'s scan, whose result `FoldPrefixes` takes apart resource by resource, and
`ParametersAreIds` that they are then the ids at their places.  The root is never
deleted and is below nothing (`RootInv`).  And of each Location on its way or held
(`HeldInv`): it has the pattern of an object resource, and unless something it names was
deleted, or never made, every relationship along it is in the graph (`Placed`).

`ProgramProofs` is about the three parts that stand alone.  It proves, for any number of invocations, `OneCopy` and `StatusIsTrue`,
that is `OnlyCopy` and `ParentTells`, from `DaemonInvariant`: `DaemonSpec => []DaemonInv`.
That no two children work at once is not inductive without saying which of them
the file names (`FileNamesCopy`), and the parent's status is true because the code
in the pipe already was when it was sent, and stays so: `PipeTells` says both, and
that a child that can still fail has sent nothing (`NothingSaid`).

It proves `NothingLeftRegistered`, that is `DroppedStaysDropped`, for any
publishers, hosts, collisions and host name changes; with the types and the fact that a
dropped name is never newer than the one in use (`DroppedIsOld`) it is inductive.  And it
proves `NodesAbortForNeighbours`, that is `OnlyNeighboursAbort`.  A node creates its
services when it has no group yet or after a collision, and neither is refused for
services of its own: at most one collision waits among the signals of a publisher, and
while one waits the group has no services (`CollisionsWait`), so the order in which
collisions and changes of the host name are delivered does not matter.

And it proves `MemoryKeepsData`, that is `RegionsKeepTheirData`, for every size of
a cell that divides a sector and any addresses, lengths and bytes in requests, where
`programs` checks one size and seven addresses.  Offsets that are multiples of the cell
size stand for cells (`CellInRange`), which leaves a claim about the tables alone:
segments are whole sectors, no two overlap in the array, and no two of one store have
an address in common (`SegmentsApart`).  From it `RangeOfStore` says which addresses a
granted range can touch, and `Granted` that `hnode_check_memory_access` grants ranges
within one segment only.  `CellAssumption` says that addresses and lengths are not
negative (they are unsigned in the code) and that lengths are whole cells.

`BrowserProofs` proves `EnumerationComplete`, that is `EnumerationCovers`, for any
servers, services, nodes and faults.  Whether the end may be signalled is decided by a
counter of resolvers, and the end is about sets of servers; `EnumInv` says that
`ResolveCount` is the number of resolvers at work, that those awaited are at work, and
that each was reported before.

It also proves, for every node, that what is told of it on the wire is what its record
says (`RecordAssumption`: the parts of a node are byte sequences and lists of end points):

- `DiscoveredTells`: of a provider the server discovers, the records it keeps are the
  node's, when UID and number of end points, and each end point and address, fit the
  buffers the provider fills (`NodeFits`, `AddressFits`);
- `UpdateTells`: a client that parses an update packet has the provider's records and
  the id it was told by, when the id fits its four bytes.

The hypotheses are what the code leaves unchecked: a field is written modulo its width.
The argument goes over what a packet is used for: what the setters of a layout write, the
getters read again after `g_hnode_packet_reset` (`WriteFields`, `ResetReads`, `FieldsRead`), and the data
stays within the capacity.  Layouts, end points and MIME strings are folds, each
inside another; a fold over a sequence is the last of a trace of its prefixes
(`FoldPrefixes`, in `FoldProofs` with `Induction`), and each fold has a lemma that
says what holds along its trace.

On these rest the three invariants of the composition: `RecordsTell` proves
`RecordsAgree`, `FramesFromTheirNodes` proves `DebugFromItsNode`, and `PacketsHeld` proves
`PacketsFit`, each from `BrowserInvariant`: `Spec => []BrowserInv`.  None of them is
inductive: what a browser shows depends on bytes that were queued long before.  Of each
management point `BrowserInv` says (`PointIs`) that

1. its session follows the providers of its server, numbered from one, in the sense of
   `SessionProofs`: what it told its client, what it has queued and what it still has to
   tell are the providers in order (`SP!Follows`; the module is an instance with numbers
   for providers and the packets themselves for frames, and `SameHandlers` shows that its
   handlers are those of `Browser`);
2. while the connection is up the stream is a flight of whole messages (`Flight`): cut at
   the boundaries each is the acknowledgement, the update of the next provider or the
   frame of a provider already in the list, so that the updates read and those on
   their way are the ones the session told (`FlightGrows`, `FlightLands`);
3. the records are those of the server's first nodes, in order, each as `Claimed` makes it
   of the node's own data (`Entries`);
4. what the browser sent and the server has not read is a subset of its two requests, in
   the order it sends them (`Asking`).

Of the nodes it says that an owner's server knows the node by the id of its last claim
(`OwnersOK`), which makes every frame on its way one `FromNode` at that id.  One step is
proved per action; a broken or ended connection keeps only what is still looked at
(`Linked`).  A provider that becomes ready is a step of every session of its server at once;
the other steps change one point.

`NodesAssumption` is what the fields can hold: nodes are numbers, which is what their
frames carry in the model; the nodes' data fit their fields; and the ids of
`MaxKnown` providers and the length of an update fit four bytes.  The code checks none of
it and writes modulo the width; an id or a length of 2^32 cannot arise where the list and
the buffer are in memory, and a version has these widths in the parameters of
`g_hnode_set_version` (`guint16`, `guint8`).

What stays with TLC: liveness under fairness, which TLAPS cannot prove.  Every invariant
and every safety property of the passing runs is a theorem.  `BrowserInv` itself is not
run: it says of unbounded sequences that they exist.  TLC checks the four consequences.

## Not modelled

- Texts, log messages and option parsing; UIDs beyond a sequence of bytes; the
  grammar of address strings; build files.
- The receive side of a packet source on UDP, its listening socket and its start.
  A TCP read that returns part of a packet is not modelled: the code has no loop,
  and reads on in the middle (`hnode-pktsrc.c:789`).
- A node without end points: `hnode-provider.c:710` asks for end point 0 before it
  compares it with the count, and a client update of none is not in `Browser`.
- In `NodeConfig`, address and length that wrap at 2^32 together, and a write
  longer than the data its packet carries.
- In the browser library, device filters and the `get_info` functions; of `hmcfg`
  its printing.  Event frames, which the server drops.
- In the REST library, cookies, queries, files, curl's options, and the methods of
  the content manager that no code calls: `removeAllObjects`, `deleteAllObjects`,
  `removeObjByID`, `parseRawData`, `parseTree`.  The fields of an object are one value.
- The Avahi daemon beyond what its callbacks report; `AVAHI_CLIENT_FAILURE` and
  `AVAHI_ENTRY_GROUP_FAILURE`, whose callbacks only abort; memory exhaustion, and the
  components listed as not modelled in `PROJECT.json`.

## Plan

Done: the core (sessions, server, discovery, packet source, publication), the
browser with packets and records, the daemon, the configuration memory, the REST
server, the proofs of the invariants above, and of the three refinements.
Left, in order:

1. Start and accept of a packet source.
2. An abstract specification of the REST content: a map from URLs to objects,
   and the server shown to implement it.
