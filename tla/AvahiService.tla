---------------------------- MODULE AvahiService ----------------------------
(***************************************************************************)
(* How nodes and management servers publish their service through the     *)
(* Avahi daemons of their hosts: the client and entry group callbacks of    *)
(* hnode-nodeobj.c and hnode-srvobj.c, which differ in one call.  Their    *)
(* calls of the daemon are answered at once, but what the daemon signals   *)
(* waits in a queue, so that a collision may be delivered after the        *)
(* services were reset.  The daemons are external: each has one user of a  *)
(* name, and finds out by probing who uses it on other hosts.  A           *)
(* definition commented "Slip:" is not the code but a plausible mistake in *)
(* it, kept to see that the properties notice it.                          *)
(***************************************************************************)
EXTENDS Integers, Sequences

CONSTANTS
    Nodes,           \* publishers that run hnode-nodeobj.c: _hnode._udp
    Servers,         \* publishers that run hnode-srvobj.c: _hmnode._tcp
    Hosts,           \* the hosts, with a daemon each
    HostOf,          \* the host of each publisher
    MaxHostChanges   \* bound: times a daemon starts anew on its host name

Publishers == Nodes \cup Servers

ASSUME PublishersAssumption ==
    /\ Nodes \cap Servers = {}
    /\ HostOf \in [Publishers -> Hosts]
    /\ MaxHostChanges \in Nat

VARIABLES
    daemon,       \* the state of each host's daemon
    signals,      \* what it has signalled each publisher, oldest first
    client,       \* the state of each publisher's AvahiClient, as last reported
    group,        \* the state the daemon has its ServiceGroup in, NULL for none
    name,         \* how often its service name was changed
    process,      \* running, or aborted by g_error
    droppedAs,    \* history: the name when the daemon last was not running
    hostChanges   \* the number of changes of each host's name so far

serviceVars == <<daemon, signals, client, group, name, process, droppedAs, hostChanges>>

DaemonStates == {"REGISTERING", "COLLISION", "RUNNING"}
GroupStates  == {"NULL", "UNCOMMITED", "REGISTERING", "ESTABLISHED", "COLLISION"}

ServiceInit ==
    /\ daemon \in [Hosts -> {"REGISTERING", "RUNNING"}]
    /\ signals = [p \in Publishers |-> <<>>]
    /\ client = [p \in Publishers |-> "CONNECTING"]
    /\ group = [p \in Publishers |-> "NULL"]
    /\ name = [p \in Publishers |-> 0]
    /\ process = [p \in Publishers |-> "running"]
    /\ droppedAs = [p \in Publishers |-> 0]
    /\ hostChanges = [h \in Hosts |-> 0]

InUse == {"REGISTERING", "ESTABLISHED"}

\* Who else has a service of that type and name.
Rivals(p, n) == {q \in Publishers \ {p} :
                    (q \in Nodes <=> p \in Nodes) /\ name[q] = n /\ group[q] \in InUse}

OnHostOf(p) == {q \in Publishers : HostOf[q] = HostOf[p]}

----------------------------------------------------------------------------
(* The daemons.                                                            *)

Connected(h) == {p \in Publishers :
                    HostOf[p] = h /\ process[p] = "running" /\ client[p] # "CONNECTING"}

\* A new daemon state is signalled to the publishers on the host.
Enter(h, s) ==
    /\ daemon' = [daemon EXCEPT ![h] = s]
    /\ signals' = [p \in Publishers |->
                     IF p \in Connected(h) THEN Append(signals[p], s) ELSE signals[p]]
    /\ UNCHANGED <<client, group, name, process, droppedAs>>

\* The host name is changed, or found to be in use.
HostChanges(h) ==
    /\ hostChanges[h] < MaxHostChanges
    /\ \E s \in {"REGISTERING", "COLLISION"} : daemon[h] # "COLLISION" /\ daemon[h] # s
                                               /\ Enter(h, s)
    /\ hostChanges' = [hostChanges EXCEPT ![h] = @ + 1]

\* Another host name is tried.
HostRenamed(h) ==
    /\ daemon[h] = "COLLISION"
    /\ Enter(h, "REGISTERING")
    /\ UNCHANGED hostChanges

HostEstablished(h) ==
    /\ daemon[h] = "REGISTERING"
    /\ Enter(h, "RUNNING")
    /\ UNCHANGED hostChanges

\* The probe found no other user of the name.
GroupEstablished(p) ==
    /\ group[p] = "REGISTERING"
    /\ \A q \in Rivals(p, name[p]) : group[q] # "ESTABLISHED"
    /\ group' = [group EXCEPT ![p] = "ESTABLISHED"]
    /\ UNCHANGED <<daemon, signals, client, name, process, droppedAs, hostChanges>>

\* The probe found one: the services are withdrawn, and the publisher is told.
GroupCollides(p) ==
    /\ group[p] = "REGISTERING"
    /\ Rivals(p, name[p]) # {}
    /\ group' = [group EXCEPT ![p] = "COLLISION"]
    /\ signals' = [signals EXCEPT ![p] = Append(@, "GROUP_COLLISION")]
    /\ UNCHANGED <<daemon, client, name, process, droppedAs, hostChanges>>

----------------------------------------------------------------------------
(* The publishers.                                                         *)

\* The main loop takes the oldest signal.
Takes(p, s) ==
    /\ process[p] = "running" /\ signals[p] # <<>>
    /\ s = Head(signals[p])
    /\ signals' = [signals EXCEPT ![p] = Tail(@)]

\* The client callback is called with the daemon's state once connected, and then
\* with each state that is signalled.
Reported(p, s) ==
    /\ \/ process[p] = "running" /\ client[p] = "CONNECTING"
          /\ s = daemon[HostOf[p]] /\ UNCHANGED signals
       \/ Takes(p, s)
    /\ client' = [client EXCEPT ![p] = s]
    /\ UNCHANGED <<daemon, hostChanges>>

\* g_error: the bus connection goes, and the group with it.
Aborts(p) ==
    /\ process' = [process EXCEPT ![p] = "aborted"]
    /\ group' = [group EXCEPT ![p] = "NULL"]

\* avahi_entry_group_add_service and avahi_entry_group_commit: the daemon refuses a
\* group that is in use already, and a name that another group on the host has.
Accepts(p, n) == group[p] \notin InUse /\ Rivals(p, n) \cap OnHostOf(p) = {}

\* g_hnode_create_service and g_hnode_server_create_services: the group is made
\* if there is none, the service is added under the name n, and the group is
\* committed; a call that fails is a g_error.
CreateServices(p, n) ==
    \/ /\ Accepts(p, n)
       /\ group' = [group EXCEPT ![p] = "REGISTERING"]
       /\ UNCHANGED process
    \/ ~Accepts(p, n) /\ Aborts(p)

\* Slip: the services are created whenever the daemon runs.
ClientRunningAlways(p) ==
    /\ Reported(p, "RUNNING")
    /\ CreateServices(p, name[p])
    /\ UNCHANGED <<name, droppedAs>>

\* AVAHI_CLIENT_S_RUNNING: services are created only if there is no group yet.
ClientRunning(p) ==
    /\ Reported(p, "RUNNING")
    /\ \/ group[p] = "NULL" /\ CreateServices(p, name[p])
       \/ group[p] # "NULL" /\ UNCHANGED <<group, process>>
    /\ UNCHANGED <<name, droppedAs>>

\* Slip: the services are left in place.
ResetServicesNot(p) == group

\* avahi_entry_group_reset: the group stays, without services.
ResetServices(p) ==
    IF group[p] = "NULL" THEN group ELSE [group EXCEPT ![p] = "UNCOMMITED"]

\* AVAHI_CLIENT_S_COLLISION and AVAHI_CLIENT_S_REGISTERING: the services
\* are dropped.
ClientRegistering(p) ==
    /\ Reported(p, "REGISTERING") \/ Reported(p, "COLLISION")
    /\ group' = ResetServices(p)
    /\ droppedAs' = [droppedAs EXCEPT ![p] = name[p]]
    /\ UNCHANGED <<name, process>>

\* Slip: the service is recreated under the name that collided.
AlternativeNameSame(n) == n

\* avahi_alternative_service_name.
AlternativeName(n) == n + 1

\* AVAHI_ENTRY_GROUP_COLLISION: another name.
Renames(p) ==
    /\ Takes(p, "GROUP_COLLISION")
    /\ name' = [name EXCEPT ![p] = AlternativeName(@)]
    /\ UNCHANGED <<daemon, client, droppedAs, hostChanges>>

\* At a node the services are created again, whatever the daemon does meanwhile.
NodeGroupCollision(p) ==
    /\ p \in Nodes
    /\ Renames(p)
    /\ CreateServices(p, name'[p])

\* At a server the message is a g_error, before the services are created again.
ServerGroupCollision(p) ==
    /\ p \in Servers
    /\ Renames(p)
    /\ Aborts(p)

HostStep(h) == HostChanges(h) \/ HostRenamed(h) \/ HostEstablished(h)

\* A callback of the publisher.
Callback(p) ==
    \/ ClientRunning(p) \/ ClientRegistering(p)
    \/ NodeGroupCollision(p) \/ ServerGroupCollision(p)

Probed(p) == GroupEstablished(p) \/ GroupCollides(p)

\* The steps of some publishers and of the daemons.
PublishersNext(ps) ==
    \/ \E h \in Hosts : HostStep(h)
    \/ \E p \in ps : Callback(p) \/ Probed(p)

ServiceNext == PublishersNext(Publishers)

ServiceSpec == ServiceInit /\ [][ServiceNext]_serviceVars

\* The main loops of the publishers run, and the daemons finish the probes they
\* start; nothing is assumed of the host names.
ServiceFairness(ps) ==
    \A p \in ps : WF_serviceVars(Callback(p)) /\ WF_serviceVars(Probed(p))

----------------------------------------------------------------------------
\* hnode-nodeobj.c:548 and hnode-srvobj.c:827, "When the server is back in
\* AVAHI_SERVER_RUNNING state we will register them again": a publisher whose
\* daemon runs has its service registered, or on the way to be.
RegisteredWhileRunning ==
    \A p \in Publishers :
        process[p] = "running" /\ client[p] = "RUNNING"
            => group[p] \in {"REGISTERING", "ESTABLISHED", "COLLISION"}

\* A name that was dropped when the host name went stays dropped until the daemon
\* runs again, whether signals of collisions come before, between or after the
\* changes of its state.  What is registered meanwhile is a node's, under a name it
\* took since, after a collision that was signalled before the reset and delivered
\* after it: hnode-nodeobj.c:555 would have it wait for the host name too.
DroppedStaysDropped ==
    \A p \in Publishers :
        process[p] = "running" /\ client[p] # "RUNNING"
            => \/ group[p] \in {"NULL", "UNCOMMITED"}
               \/ p \in Nodes /\ name[p] # droppedAs[p]

\* The daemon refuses a node's services, which aborts the node, only for a name that
\* another node of the host may have: never for a service that is there already,
\* whatever order collisions and changes of the host name are signalled in.
OnlyNeighboursAbort ==
    \A p \in Nodes :
        process[p] = "aborted" => \E q \in Nodes \ {p} : q \in OnHostOf(p)

\* However many publishers start with one name, and whatever happens on other hosts,
\* each node is eventually published if its own host name does not change, or finds
\* the name taken on its host and aborts.
EveryNodePublished ==
    \A p \in Nodes :
        client[p] = "RUNNING" ~> \/ group[p] = "ESTABLISHED" \/ process[p] = "aborted"
                                 \/ hostChanges[HostOf[p]] > 0
=============================================================================
