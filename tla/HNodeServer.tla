---------------------------- MODULE HNodeServer ----------------------------
(***************************************************************************)
(* The management server between node discovery and its clients: the      *)
(* provider list, the client list, and what ties them together             *)
(* (hnode-srvobj.c).  Each session is a GHNodeClient of ClientSession; how  *)
(* providers become ready is Discovery, which shows that each does so at   *)
(* most once.  Providers and debug packets are GObjects shared by the      *)
(* sessions, so their reference counts are part of the state.  Event       *)
(* reports are left out: no code reads the flag a client sets for them.    *)
(* A definition commented "Slip:" is not the code but a plausible mistake  *)
(* in it, kept to see that the properties notice it.                       *)
(***************************************************************************)
EXTENDS SessionTypes, FiniteSets, SequencesExt

CONSTANTS
    Clients,      \* the browsers, each with at most one connection at a time
    MaxConnects,  \* bound: connections accepted
    MaxFrames,    \* bound: debug frames received from nodes
    MaxQueue      \* bound: packets queued when a request arrives

ASSUME BoundsAssumption ==
    MaxConnects \in Nat /\ MaxFrames \in Nat /\ MaxQueue \in Nat

VARIABLES
    HNodeList,    \* the providers found, oldest first
    ready,        \* those of them that are GHPROVIDER_TXS_READY
    ClientList,   \* the connected clients, oldest connection first
    session,      \* the GHNodeClient of each connected client
    refs,         \* the references held on each provider
    frameRefs,    \* the references held on the packet of each debug frame
    told,         \* history: the providers told to each connected client
    connects      \* the number of connections accepted

vars == <<HNodeList, ready, ClientList, session, refs, frameRefs, told, connects>>

Connected == {ClientList[i] : i \in DOMAIN ClientList}

Init ==
    /\ HNodeList = <<>> /\ ready = {}
    /\ ClientList = <<>>
    /\ session = [c \in Clients |-> NewClient]
    /\ refs = [p \in Providers |-> 0]
    /\ frameRefs = <<>>
    /\ told = [c \in Clients |-> <<>>]
    /\ connects = 0

InHNodeList(p) == \E i \in DOMAIN HNodeList : HNodeList[i] = p

\* AVAHI_RESOLVER_FOUND: the list owns the reference g_hnode_provider_new made.
ProviderFound(p) ==
    /\ ~InHNodeList(p)
    /\ HNodeList' = Append(HNodeList, p)
    /\ refs' = [refs EXCEPT ![p] = 1]
    /\ UNCHANGED <<ready, ClientList, session, frameRefs, told, connects>>

\* Slip: g_hnode_client_add_node takes no reference.
HeldUncounted(n, k) == n

\* n references on a provider after k sessions listed it.
Held(n, k) == n + k

\* GHNP_STATE_READY: every session gets the provider, and a reference on it.
ProviderReady(p) ==
    /\ InHNodeList(p) /\ p \notin ready
    /\ ready' = ready \cup {p}
    /\ session' = [c \in Clients |-> IF c \in Connected THEN AddNode(session[c], p)
                                                        ELSE session[c]]
    /\ refs' = [refs EXCEPT ![p] = Held(@, Len(ClientList))]
    /\ UNCHANGED <<HNodeList, ClientList, frameRefs, told, connects>>

\* Slip: a new session gets every provider found, ready or not.
IsFound(p) == TRUE

\* g_hnode_provider_is_ready.
IsReady(p) == p \in ready

\* A session after the scan of HNodeList that gives it each provider that is
\* ready; it is started when the scan is through.
NewSession ==
    LET given[n \in 0..Len(HNodeList)] ==
            IF n = 0 THEN NewClient
            ELSE IF IsReady(HNodeList[n]) THEN AddNode(given[n - 1], HNodeList[n])
            ELSE given[n - 1]
    IN  StartClient(given[Len(HNodeList)])

\* g_hnode_server_newsrc.
ServerNewsrc(c) ==
    /\ c \notin Connected /\ connects < MaxConnects
    /\ ClientList' = Append(ClientList, c)
    /\ session' = [session EXCEPT ![c] = NewSession]
    /\ refs' = [p \in Providers |-> Held(refs[p], IF IsReady(p) THEN 1 ELSE 0)]
    /\ told' = [told EXCEPT ![c] = <<>>]
    /\ connects' = connects + 1
    /\ UNCHANGED <<HNodeList, ready, frameRefs>>

----------------------------------------------------------------------------
ClientRequest(c) ==
    /\ c \in Connected
    /\ Len(session[c].TxPackets) < MaxQueue
    /\ \/ session' = [session EXCEPT ![c] = RxReqPInfo(@, 0)]
       \/ session' = [session EXCEPT ![c] = RxDebugCtrl(@)]
    /\ UNCHANGED <<HNodeList, ready, ClientList, refs, frameRefs, told, connects>>

\* Slip: the packet is handed on without a reference.
TakesUnshared(c) == FALSE

\* The sessions that queue the frame take a reference on its packet.
Takes(c) == ForwardDebugPacket(session[c], 0) # session[c]

\* A node's debug frame: one packet for all sessions, and the reference of its
\* maker given up.
ServerDebugrx ==
    /\ Len(frameRefs) < MaxFrames
    /\ session' = [c \in Clients |->
                     IF c \in Connected
                     THEN ForwardDebugPacket(session[c], Len(frameRefs) + 1)
                     ELSE session[c]]
    /\ frameRefs' = Append(frameRefs, Cardinality({c \in Connected : Takes(c)}))
    /\ UNCHANGED <<HNodeList, ready, ClientList, refs, told, connects>>

\* The session's source sent a packet to the last byte; client_tx gives up its
\* reference on it.
ClientTxComplete(c) ==
    LET pkt == Head(session[c].TxPackets)
    IN  /\ c \in Connected /\ session[c].TxPackets # <<>>
        /\ session' = [session EXCEPT ![c] = TxComplete(@)]
        /\ frameRefs' = IF pkt.type = "DEBUG"
                        THEN [frameRefs EXCEPT ![pkt.body] = @ - 1]
                        ELSE frameRefs
        /\ told' = IF pkt.type = "NODE"
                   THEN [told EXCEPT ![c] =
                           Append(@, session[c].NodeList[pkt.body + 1].Node)]
                   ELSE told
        /\ UNCHANGED <<HNodeList, ready, ClientList, refs, connects>>

\* The records of the session that list the provider, and how many they are.
Listings(c, p) == {i \in DOMAIN session[c].NodeList : session[c].NodeList[i].Node = p}
Uses(c, p) == Cardinality(Listings(c, p))

PositionOf(c) == CHOOSE i \in DOMAIN ClientList : ClientList[i] = c

\* g_hnode_server_client_state: the client leaves the list and is disposed of,
\* which takes one more reference on the provider of each of its records and
\* gives up none of the packets still queued in its source.
ClientState(c) ==
    /\ c \in Connected
    /\ ClientList' = RemoveAt(ClientList, PositionOf(c))
    /\ session' = [session EXCEPT ![c] = NewClient]
    /\ refs' = [p \in Providers |-> Held(refs[p], Uses(c, p))]
    /\ UNCHANGED <<HNodeList, ready, frameRefs, told, connects>>

Next ==
    \/ \E p \in Providers : ProviderFound(p) \/ ProviderReady(p)
    \/ \E c \in Clients : \/ ServerNewsrc(c) \/ ClientRequest(c)
                          \/ ClientTxComplete(c) \/ ClientState(c)
    \/ ServerDebugrx

Spec == Init /\ [][Next]_vars

\* Each client goes on reading its connection.
FairSpec == Spec /\ \A c \in Clients : WF_vars(ClientTxComplete(c))

----------------------------------------------------------------------------
\* The type invariant of the server, its sessions and the reference counts.
TypeOK ==
    /\ HNodeList \in Seq(Providers) /\ ready \subseteq Providers
    /\ ClientList \in Seq(Clients)
    /\ session \in [Clients -> Sessions]
    /\ refs \in [Providers -> Nat] /\ frameRefs \in Seq(Nat)
    /\ told \in [Clients -> Seq(Providers)]
    /\ connects \in Nat

\* Whether a client connects before, between or after the providers become
\* ready, its session lists each ready provider once, under its own NodeID,
\* and no other.
SessionsComplete ==
    \A c \in Connected :
        LET list == session[c].NodeList
        IN  /\ {list[i].Node : i \in DOMAIN list} = ready
            /\ Len(list) = Cardinality(ready)
            /\ \A i \in DOMAIN list : list[i].NodeID = i - 1

\* A client is told of a provider only when it is ready, and once.
ToldEachOnce ==
    \A c \in Connected :
        /\ IsInjective(told[c])
        /\ Range(told[c]) \subseteq ready

\* The number of records, of all sessions, that list the provider.
Users(p) == Cardinality(UNION {{c} \X Listings(c, p) : c \in Connected})

\* A provider that the list or a session uses is not finalized under it.
NoProviderFreedEarly ==
    \A p \in Providers : InHNodeList(p) => refs[p] >= 1 + Users(p)

Queues(f) == {c \in Connected : \E i \in DOMAIN session[c].TxPackets :
                  /\ session[c].TxPackets[i].type = "DEBUG"
                  /\ session[c].TxPackets[i].body = f}

\* A debug packet that is queued for several clients lives until the slowest of
\* them has sent it, whatever the others do, including to disconnect.
NoFrameFreedEarly ==
    \A f \in DOMAIN frameRefs : frameRefs[f] >= Cardinality(Queues(f))

\* hnode-srvobj-client.c:141, "Un reference the provider record": a provider is
\* held by the list and by the sessions that are there, and by nothing else.
ProviderRefsReturned ==
    \A p \in Providers : InHNodeList(p) => refs[p] = 1 + Users(p)

\* A connected client that asked for reports is told of every ready provider.
EveryReadyTold ==
    \A c \in Clients, p \in Providers :
        (c \in Connected /\ session[c].Report /\ p \in ready)
            ~> (c \notin Connected \/ p \in Range(told[c]))
=============================================================================
