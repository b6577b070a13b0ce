------------------------------ MODULE ProgramProofs -----------------------------
(***************************************************************************)
(* Proofs about the parts that stand alone: the daemon's start, for any    *)
(* number of invocations; the publication of services, for any nodes and   *)
(* servers, any number of host name changes and of name collisions; and    *)
(* the configuration memory, for every size of a cell and any addresses,   *)
(* lengths and bytes in requests.                                          *)
(***************************************************************************)
EXTENDS Daemon, AvahiService, NodeConfig, FiniteSetTheorems, TLAPS

--------------------------------------------------------------------------------
(* The daemon's start.                                                     *)

\* What may be in the pipe.
Codes == {<<>>, <<0>>, <<1>>, <<2>>, <<3>>}

DaemonTypes ==
    /\ parent \in [Invocations -> {"none", "waiting", "exited"}]
    /\ exitCode \in [Invocations -> {0, 1, 2, 3, 255}]
    /\ child \in [Invocations -> ChildStates]
    /\ retval \in [Invocations -> Codes]
    /\ pidFile \in Invocations \cup {NoFile}

\* As long as no file was taken away, a child at work is the one in the PID file.
FileNamesCopy == ~usurped => \A p \in Copies : pidFile = p

\* What a code says of the child that sent it.
Says(code, state) ==
    /\ code = 0 => state \in {"told", "serving", "dead"}
    /\ code \in 1..3 => state \in {"none", "failing", "dead"}

\* A code in the pipe is already true of the child, and so is the parent's.
PipeTells ==
    \A p \in Invocations :
        /\ parent[p] = "none" => child[p] = "none"
        /\ retval[p] # <<>> => Says(Head(retval[p]), child[p]) /\ child[p] # "none"
        /\ parent[p] = "exited" => Says(exitCode[p], child[p])

DaemonInv == DaemonTypes /\ FileNamesCopy /\ PipeTells

LEMMA InitDaemonInv == DaemonInit => DaemonInv
  <1> SUFFICES ASSUME DaemonInit PROVE DaemonInv
    OBVIOUS
  <1>1. DaemonTypes
    BY DEF DaemonInit, DaemonTypes, ChildStates, Codes
  <1>2. FileNamesCopy
    BY DEF DaemonInit, FileNamesCopy, Copies
  <1>3. PipeTells
    BY DEF DaemonInit, PipeTells
  <1>. QED  BY <1>1, <1>2, <1>3 DEF DaemonInv

\* What the child of p may send: the first code only.
LEMMA SendTells ==
    ASSUME DaemonTypes, NEW p \in Invocations, NEW code \in 0..3, Send(p, code)
    PROVE  /\ retval' \in [Invocations -> Codes]
           /\ \A q \in Invocations \ {p} : retval'[q] = retval[q]
           /\ retval'[p] = retval[p] \/ retval'[p] = <<code>>
  <1>1. <<code>> \in Codes
    BY DEF Codes
  <1> DEFINE new == IF parent[p] = "waiting" /\ retval[p] = <<>> THEN <<code>> ELSE retval[p]
  <1>3. new \in Codes /\ (new = retval[p] \/ new = <<code>>)
    BY <1>1 DEF DaemonTypes
  <1>4. retval' = [retval EXCEPT ![p] = new]
    BY DEF Send
  <1> HIDE DEF new
  <1>. QED  BY <1>3, <1>4 DEF DaemonTypes

\* A child that can still fail has sent nothing, and its parent waits or gave up.
LEMMA NothingSaid ==
    ASSUME DaemonTypes, PipeTells, NEW p \in Invocations,
           child[p] \in {"forked", "closed", "filed", "signals"}
    PROVE  /\ retval[p] = <<>>
           /\ parent[p] # "none"
           /\ parent[p] = "exited" => exitCode[p] = 255
  <1>1. retval[p] \in Codes /\ exitCode[p] \in {0, 1, 2, 3, 255}
    BY DEF DaemonTypes
  <1>2. retval[p] # <<>> => Head(retval[p]) \in 0..3
    BY <1>1 DEF Codes
  <1>. QED  BY <1>1, <1>2 DEF PipeTells, Says

\* A move of one child keeps the three parts of the invariant when ...
LEMMA TypesKept ==
    ASSUME DaemonTypes, NEW p \in Invocations, NEW s \in ChildStates, ChildIs(p, s),
           UNCHANGED <<parent, exitCode>>, retval' \in [Invocations -> Codes],
           pidFile' \in Invocations \cup {NoFile}
    PROVE  DaemonTypes'
  BY DEF DaemonTypes, ChildIs

\* ... the file stays and it does not become a copy,
LEMMA FileKept ==
    ASSUME DaemonTypes, FileNamesCopy, NEW p \in Invocations, NEW s \in ChildStates,
           ChildIs(p, s), UNCHANGED <<pidFile, usurped>>,
           s \in {"filed", "signals", "told", "serving"} => p \in Copies
    PROVE  FileNamesCopy'
  BY DEF DaemonTypes, FileNamesCopy, ChildIs, Copies

\* ... and the codes remain true of where it goes.
LEMMA TellsKept ==
    ASSUME DaemonTypes, PipeTells, NEW p \in Invocations, NEW s \in ChildStates \ {"none"},
           ChildIs(p, s), UNCHANGED <<parent, exitCode>>, parent[p] # "none",
           \A q \in Invocations \ {p} : retval'[q] = retval[q],
           retval'[p] # <<>> => Says(Head(retval'[p]), s),
           parent[p] = "exited" => Says(exitCode[p], s)
    PROVE  PipeTells'
  <1>1. child'[p] = s /\ \A q \in Invocations \ {p} : child'[q] = child[q]
    BY DEF DaemonTypes, ChildIs
  <1>. QED  BY <1>1 DEF PipeTells

\* A child that can still fail goes on without a word, fails, or dies of the pipe.
LEMMA EarlyStep ==
    ASSUME DaemonInv, NEW p \in Invocations, NEW s \in ChildStates \ {"none"},
           child[p] \in {"forked", "closed", "filed", "signals"},
           UNCHANGED <<parent, exitCode, usurped, pidFile>>,
           \/ ChildIs(p, s) /\ UNCHANGED retval
              /\ (s \in {"filed", "signals", "told", "serving"} => p \in Copies)
           \/ \E code \in 1..3 : Fail(p, code)
           \/ Send(p, 0) /\ ChildIs(p, "told") /\ p \in Copies
    PROVE  DaemonInv'
  <1> USE DEF DaemonInv
  <1>0. /\ retval[p] = <<>> /\ parent[p] # "none"
        /\ parent[p] = "exited" => exitCode[p] = 255
        /\ pidFile' \in Invocations \cup {NoFile} /\ retval \in [Invocations -> Codes]
    BY NothingSaid DEF DaemonTypes
  <1>1. ASSUME NEW t \in ChildStates \ {"none"}, ChildIs(p, t), UNCHANGED retval,
               t \in {"filed", "signals", "told", "serving"} => p \in Copies
        PROVE  DaemonInv'
    <2>1. DaemonTypes'
      BY <1>0, <1>1, TypesKept
    <2>2. FileNamesCopy'
      BY <1>1, FileKept
    <2>3. parent[p] = "exited" => Says(exitCode[p], t)
      BY <1>0 DEF Says
    <2>4. PipeTells'
      BY <1>0, <1>1, <2>3, TellsKept
    <2>. QED  BY <2>1, <2>2, <2>4
  <1>2. ASSUME NEW code \in 0..3, NEW t \in ChildStates \ {"none"}, Send(p, code),
               ChildIs(p, t), Says(code, t),
               t \in {"filed", "signals", "told", "serving"} => p \in Copies
        PROVE  DaemonInv'
    <2>0. /\ retval' \in [Invocations -> Codes]
          /\ \A q \in Invocations \ {p} : retval'[q] = retval[q]
          /\ retval'[p] = retval[p] \/ retval'[p] = <<code>>
      BY <1>2, SendTells
    <2>1. DaemonTypes'
      BY <1>0, <1>2, <2>0, TypesKept
    <2>2. FileNamesCopy'
      BY <1>2, FileKept
    <2>3. /\ retval'[p] # <<>> => Says(Head(retval'[p]), t)
          /\ parent[p] = "exited" => Says(exitCode[p], t)
      BY <1>0, <1>2, <2>0 DEF Says
    <2>4. PipeTells'
      BY <1>0, <1>2, <2>0, <2>3, TellsKept
    <2>. QED  BY <2>1, <2>2, <2>4
  <1>3. "failing" \in ChildStates \ {"none"} /\ "dead" \in ChildStates \ {"none"}
        /\ "told" \in ChildStates \ {"none"}
    BY DEF ChildStates
  <1>4. Says(0, "told") /\ \A code \in 1..3 : Says(code, "failing")
    BY DEF Says
  <1>5. ASSUME NEW code \in 1..3, Fail(p, code)
        PROVE  DaemonInv'
    <2>1. CASE Send(p, code) /\ ChildIs(p, "failing")
      BY <1>2, <1>3, <1>4, <2>1
    <2>2. CASE BrokenPipe(p)
      BY <1>1, <1>3, <2>2 DEF BrokenPipe
    <2>. QED  BY <1>5, <2>1, <2>2 DEF Fail
  <1>6. CASE Send(p, 0) /\ ChildIs(p, "told") /\ p \in Copies
    BY <1>2, <1>3, <1>4, <1>6
  <1>. QED  BY <1>1, <1>5, <1>6

LEMMA StepDaemonInv == DaemonInv /\ [DaemonNext]_daemonVars => DaemonInv'
  <1> SUFFICES ASSUME DaemonInv, [DaemonNext]_daemonVars PROVE DaemonInv'
    OBVIOUS
  <1>. USE DEF DaemonInv
  <1>0. {"closed", "filed", "signals", "dead", "serving"} \subseteq ChildStates \ {"none"}
    BY DEF ChildStates
  <1>1. ASSUME NEW p \in Invocations, StartAsDaemon(p)
        PROVE  DaemonInv'
    <2>1. DaemonTypes'
      <3>1. pidFile' \in Invocations \cup {NoFile} /\ retval' \in [Invocations -> Codes]
        BY <1>1 DEF StartAsDaemon, DaemonTypes
      <3>2. child' \in [Invocations -> ChildStates]
        BY <1>1 DEF StartAsDaemon, DaemonTypes, ChildStates
      <3>3. parent' \in [Invocations -> {"none", "waiting", "exited"}]
            /\ exitCode' \in [Invocations -> {0, 1, 2, 3, 255}]
        BY <1>1 DEF StartAsDaemon, Exit, DaemonTypes
      <3>. QED  BY <3>1, <3>2, <3>3 DEF DaemonTypes
    <2>2. FileNamesCopy'
      BY <1>1 DEF StartAsDaemon, Exit, DaemonTypes, FileNamesCopy, Copies, IsRunning, Alive
    <2>3. PipeTells'
      BY <1>1 DEF StartAsDaemon, Exit, DaemonTypes, PipeTells, Says
    <2>. QED  BY <2>1, <2>2, <2>3
  <1>2. ASSUME NEW p \in Invocations, ParentWait(p)
        PROVE  DaemonInv'
    <2> DEFINE code == IF retval[p] # <<>> THEN Head(retval[p]) ELSE 255
    <2>1. code \in {0, 1, 2, 3, 255}
      <3>1. retval[p] \in Codes
        BY DEF DaemonTypes
      <3>. QED  BY <3>1 DEF Codes
    <2>2. DaemonTypes'
      <3> HIDE DEF code
      <3>1. Exit(p, code) /\ UNCHANGED <<child, retval, pidFile>>
        BY <1>2 DEF ParentWait, code
      <3>. QED  BY <2>1, <3>1 DEF Exit, DaemonTypes
    <2>3. FileNamesCopy'
      BY <1>2 DEF ParentWait, FileNamesCopy, Copies
    <2>4. PipeTells'
      BY <1>2, <2>1 DEF ParentWait, Exit, DaemonTypes, PipeTells, Says
    <2>. QED  BY <2>2, <2>3, <2>4
  <1>3. ASSUME NEW p \in Invocations, CloseAll(p)
        PROVE  DaemonInv'
    BY <1>0, <1>3, EarlyStep DEF CloseAll, Fail, BrokenPipe
  <1>4. ASSUME NEW p \in Invocations, CreatePidFile(p)
        PROVE  DaemonInv'
    <2>1. CASE Fail(p, 2) /\ UNCHANGED pidFile
      BY <1>0, <1>4, <2>1, EarlyStep DEF CreatePidFile
    <2>2. CASE pidFile = NoFile /\ pidFile' = p /\ ChildIs(p, "filed") /\ UNCHANGED retval
      <3>0. retval[p] = <<>> /\ parent[p] # "none" /\ (parent[p] = "exited" => exitCode[p] = 255)
        BY <1>4, NothingSaid DEF CreatePidFile
      <3>1. DaemonTypes'
        BY <1>0, <1>4, <2>2, TypesKept DEF CreatePidFile, DaemonTypes
      <3>2. ~usurped => Copies = {}
        BY <2>2, InvocationsAssumption DEF FileNamesCopy, NoFile, Copies
      <3>3. FileNamesCopy'
        BY <1>4, <2>2, <3>2 DEF CreatePidFile, ChildIs, DaemonTypes, FileNamesCopy, Copies
      <3>4. parent[p] = "exited" => Says(exitCode[p], "filed")
        BY <3>0 DEF Says
      <3>5. PipeTells'
        BY <1>0, <1>4, <2>2, <3>0, <3>4, TellsKept DEF CreatePidFile
      <3>. QED  BY <3>1, <3>3, <3>5
    <2>. QED  BY <1>4, <2>1, <2>2 DEF CreatePidFile, Fail, BrokenPipe
  <1>5. ASSUME NEW p \in Invocations, SignalInit(p)
        PROVE  DaemonInv'
    BY <1>0, <1>5, EarlyStep DEF SignalInit, Fail, BrokenPipe, Copies
  <1>6. ASSUME NEW p \in Invocations, TellParent(p)
        PROVE  DaemonInv'
    BY <1>0, <1>6, EarlyStep DEF TellParent, BrokenPipe, Copies
  <1>7. ASSUME NEW p \in Invocations, ServerStart(p) \/ SignalDispatch(p) \/ Abort(p)
        PROVE  DaemonInv'
    <2>1. PICK s \in {"serving", "dead"} :
            ChildIs(p, s) /\ (s = "serving" => child[p] = "told")
      BY <1>7 DEF ServerStart, SignalDispatch, Abort
    <2>2. child[p] \in {"told", "serving"} /\ UNCHANGED <<parent, exitCode, retval, pidFile, usurped>>
      BY <1>7 DEF ServerStart, SignalDispatch, Abort
    <2>3. DaemonTypes'
      BY <1>0, <2>1, <2>2, TypesKept DEF DaemonTypes
    <2>4. FileNamesCopy'
      BY <1>0, <2>1, <2>2, FileKept DEF Copies
    <2>5. /\ parent[p] # "none" /\ (retval[p] # <<>> => Says(Head(retval[p]), s))
          /\ parent[p] = "exited" => Says(exitCode[p], s)
      BY <2>1, <2>2 DEF PipeTells, Says
    <2>6. PipeTells'
      BY <1>0, <2>1, <2>2, <2>5, TellsKept
    <2>. QED  BY <2>3, <2>4, <2>6
  <1>8. ASSUME NEW p \in Invocations, CleanUp(p)
        PROVE  DaemonInv'
    <2>1. DaemonTypes'
      BY <1>0, <1>8, TypesKept DEF CleanUp, DaemonTypes
    <2>2. FileNamesCopy'
      BY <1>8, ZenonT(60) DEF CleanUp, ChildIs, DaemonTypes, FileNamesCopy, Copies, IsRunning, Alive
    <2>3. PipeTells'
      BY <1>8 DEF CleanUp, ChildIs, DaemonTypes, PipeTells, Says
    <2>. QED  BY <2>1, <2>2, <2>3
  <1>9. CASE CheckDaemon
    <2>1. DaemonTypes'
      BY <1>9 DEF CheckDaemon, DaemonTypes
    <2>2. FileNamesCopy'
      BY <1>9 DEF CheckDaemon, DaemonTypes, FileNamesCopy, Copies, IsRunning, Alive
    <2>3. PipeTells'
      BY <1>9 DEF CheckDaemon, PipeTells
    <2>. QED  BY <2>1, <2>2, <2>3
  <1>10. CASE StopDaemon
    <2>0. pidFile \in Invocations /\ UNCHANGED <<parent, exitCode, retval, pidFile, usurped>>
      BY <1>10 DEF StopDaemon, IsRunning, DaemonTypes
    <2>1. CASE child[pidFile] \in {"filed", "failing"} /\ ChildIs(pidFile, "dead")
      <3>1. DaemonTypes'
        BY <1>0, <2>0, <2>1, TypesKept DEF DaemonTypes
      <3>2. FileNamesCopy'
        BY <1>0, <2>0, <2>1, FileKept
      <3>3. /\ parent[pidFile] # "none"
            /\ retval[pidFile] # <<>> => Says(Head(retval[pidFile]), "dead")
            /\ parent[pidFile] = "exited" => Says(exitCode[pidFile], "dead")
        BY <2>0, <2>1 DEF PipeTells, Says
      <3>4. PipeTells'
        BY <1>0, <2>0, <2>1, <3>3, TellsKept
      <3>. QED  BY <3>1, <3>2, <3>4
    <2>2. CASE UNCHANGED child
      BY <2>0, <2>2 DEF DaemonTypes, FileNamesCopy, PipeTells, Copies
    <2>. QED  BY <1>10, <2>1, <2>2 DEF StopDaemon
  <1>11. CASE UNCHANGED daemonVars
    BY <1>11 DEF daemonVars, DaemonTypes, FileNamesCopy, PipeTells, Copies
  <1>. QED  BY <1>1, <1>2, <1>3, <1>4, <1>5, <1>6, <1>7, <1>8, <1>9, <1>10, <1>11
            DEF DaemonNext, ChildStep

\* The strengthening is an invariant of the daemon's specification.
THEOREM DaemonInvariant == DaemonSpec => []DaemonInv
  BY InitDaemonInv, StepDaemonInv, PTL DEF DaemonSpec

\* However many invocations race, a second copy needs a file that was taken away.
THEOREM OneCopy == DaemonSpec => []OnlyCopy
  <1>1. DaemonInv => OnlyCopy
    <2> SUFFICES ASSUME DaemonInv, ~usurped PROVE Cardinality(Copies) <= 1
      BY DEF OnlyCopy
    <2>1. Copies \subseteq {pidFile}
      BY DEF DaemonInv, FileNamesCopy
    <2>2. Cardinality(Copies) <= Cardinality({pidFile}) /\ Cardinality({pidFile}) = 1
      BY <2>1, FS_Subset, FS_Singleton
    <2>. QED  BY <2>2
  <1>. QED  BY <1>1, DaemonInvariant, PTL

\* The exit status of the parent is true of the child.
THEOREM StatusIsTrue == DaemonSpec => []ParentTells
  <1>1. DaemonInv => ParentTells
    BY DEF DaemonInv, PipeTells, Says, ParentTells
  <1>. QED  BY <1>1, DaemonInvariant, PTL

--------------------------------------------------------------------------------
(* The publication of services.                                            *)

PublicationTypes ==
    /\ client \in [Publishers -> DaemonStates \cup {"CONNECTING"}]
    /\ group \in [Publishers -> GroupStates]
    /\ process \in [Publishers -> {"running", "aborted"}]
    /\ name \in [Publishers -> Nat]
    /\ droppedAs \in [Publishers -> Nat]

\* A name that was dropped is not newer than the one in use.
DroppedIsOld == \A p \in Publishers : droppedAs[p] <= name[p]

PublicationInv == PublicationTypes /\ DroppedIsOld /\ DroppedStaysDropped

LEMMA InitPublicationInv == ServiceInit => PublicationInv
  BY DEF ServiceInit, PublicationInv, PublicationTypes, DroppedIsOld, DroppedStaysDropped,
         DaemonStates, GroupStates

\* What a report or a group does that leaves the names alone.
LEMMA CreateTypes ==
    ASSUME PublicationTypes, NEW p \in Publishers, NEW n \in Nat, CreateServices(p, n)
    PROVE  /\ group' \in [Publishers -> GroupStates]
           /\ process' \in [Publishers -> {"running", "aborted"}]
           /\ \A q \in Publishers \ {p} : group'[q] = group[q] /\ process'[q] = process[q]
           /\ \/ group'[p] = "REGISTERING" /\ process'[p] = process[p]
              \/ group'[p] = "NULL" /\ process'[p] = "aborted"
  BY DEF PublicationTypes, CreateServices, Aborts, GroupStates

LEMMA StepPublicationInv == PublicationInv /\ [ServiceNext]_serviceVars => PublicationInv'
  <1> SUFFICES ASSUME PublicationInv, [ServiceNext]_serviceVars PROVE PublicationInv'
    OBVIOUS
  <1>0. PublicationTypes
    BY DEF PublicationInv
  <1>. USE DEF PublicationInv, PublicationTypes, DroppedIsOld, DroppedStaysDropped,
               DaemonStates, GroupStates
  <1>1. CASE UNCHANGED serviceVars
    BY <1>1 DEF serviceVars
  <1>2. ASSUME NEW h \in Hosts, HostStep(h) PROVE PublicationInv'
    BY <1>2 DEF HostStep, HostChanges, HostRenamed, HostEstablished, Enter
  <1>3. ASSUME NEW p \in Publishers, ClientRunning(p) PROVE PublicationInv'
    <2>1. /\ client' = [client EXCEPT ![p] = "RUNNING"]
          /\ name' = name /\ droppedAs' = droppedAs
      BY <1>3 DEF ClientRunning, Reported
    <2>2. CASE group[p] = "NULL" /\ CreateServices(p, name[p])
      BY <1>0, <2>1, <2>2, CreateTypes
    <2>3. CASE UNCHANGED <<group, process>>
      BY <2>1, <2>3
    <2>. QED  BY <1>3, <2>2, <2>3 DEF ClientRunning
  <1>4. ASSUME NEW p \in Publishers, ClientRegistering(p) PROVE PublicationInv'
    <2>1. PICK s \in {"REGISTERING", "COLLISION"} : client' = [client EXCEPT ![p] = s]
      BY <1>4 DEF ClientRegistering, Reported
    <2>2. /\ group' = ResetServices(p)
          /\ droppedAs' = [droppedAs EXCEPT ![p] = name[p]]
          /\ name' = name /\ process' = process
      BY <1>4 DEF ClientRegistering
    <2>3. /\ group' \in [Publishers -> GroupStates]
          /\ group'[p] \in {"NULL", "UNCOMMITED"}
          /\ \A q \in Publishers \ {p} : group'[q] = group[q]
      <3>1. CASE group[p] = "NULL"
        BY <2>2, <3>1 DEF ResetServices
      <3>2. CASE group[p] # "NULL"
        <4>1. group' = [group EXCEPT ![p] = "UNCOMMITED"]
          BY <2>2, <3>2 DEF ResetServices
        <4>. QED  BY <4>1
      <3>. QED  BY <3>1, <3>2
    <2>4. /\ droppedAs' \in [Publishers -> Nat] /\ droppedAs'[p] = name'[p]
          /\ \A q \in Publishers \ {p} : droppedAs'[q] = droppedAs[q] /\ client'[q] = client[q]
          /\ client' \in [Publishers -> DaemonStates \cup {"CONNECTING"}]
          /\ name' = name /\ process' = process
      BY <2>1, <2>2
    <2>. HIDE DEF DaemonStates, GroupStates
    <2>5. PublicationTypes'
      BY <2>3, <2>4
    <2>6. DroppedIsOld'
      BY <2>4
    <2>7. DroppedStaysDropped'
      BY <2>3, <2>4
    <2>. QED  BY <2>5, <2>6, <2>7
  <1>5. ASSUME NEW p \in Publishers, Probed(p) PROVE PublicationInv'
    <2>1. /\ group[p] = "REGISTERING"
          /\ \E g \in {"ESTABLISHED", "COLLISION"} : group' = [group EXCEPT ![p] = g]
          /\ UNCHANGED <<client, name, process, droppedAs>>
      BY <1>5 DEF Probed, GroupEstablished, GroupCollides
    <2>. QED  BY <2>1
  <1>6. ASSUME NEW p \in Publishers, NodeGroupCollision(p) PROVE PublicationInv'
    <2>1. /\ name' = [name EXCEPT ![p] = name[p] + 1]
          /\ UNCHANGED <<client, droppedAs>>
          /\ p \in Nodes
      BY <1>6 DEF NodeGroupCollision, Renames, AlternativeName
    <2>2. name'[p] \in Nat /\ name'[p] # droppedAs[p] /\ CreateServices(p, name'[p])
      BY <1>6, <2>1 DEF NodeGroupCollision
    <2>. QED  BY <1>0, <2>1, <2>2, CreateTypes
  <1>7. ASSUME NEW p \in Publishers, ServerGroupCollision(p) PROVE PublicationInv'
    <2>1. /\ name' = [name EXCEPT ![p] = name[p] + 1]
          /\ UNCHANGED <<client, droppedAs>>
          /\ process' = [process EXCEPT ![p] = "aborted"]
          /\ group' = [group EXCEPT ![p] = "NULL"]
      BY <1>7 DEF ServerGroupCollision, Renames, AlternativeName, Aborts
    <2>. QED  BY <2>1
  <1>. QED
    BY <1>1, <1>2, <1>3, <1>4, <1>5, <1>6, <1>7 DEF ServiceNext, PublishersNext, Callback

LEMMA PublicationInvariant == ServiceSpec => []PublicationInv
  BY InitPublicationInv, StepPublicationInv, PTL DEF ServiceSpec

\* For any publishers, and with collisions signalled before, between and after the
\* changes of the host names: a name that was dropped stays dropped until the daemon
\* runs again, and what is registered meanwhile is a node's under a later name
\* (hnode-nodeobj.c and hnode-srvobj.c, the client and entry group callbacks).
THEOREM NothingLeftRegistered == ServiceSpec => []DroppedStaysDropped
  <1>1. PublicationInv => DroppedStaysDropped
    BY DEF PublicationInv
  <1>. QED  BY <1>1, PublicationInvariant, PTL

(***************************************************************************)
(* A node's collision is signalled once, and its group is not in use until *)
(* the node has taken the signal: so the daemon never refuses a node for   *)
(* its own service.                                                        *)
(***************************************************************************)

Signals == DaemonStates \cup {"GROUP_COLLISION"}

NoCollision(sq) == \A i \in 1..Len(sq) : sq[i] # "GROUP_COLLISION"

OneCollision(sq) ==
    \A i, j \in 1..Len(sq) : sq[i] = "GROUP_COLLISION" /\ sq[j] = "GROUP_COLLISION" => i = j

SignalTypes ==
    /\ daemon \in [Hosts -> DaemonStates]
    /\ signals \in [Publishers -> Seq(Signals)]

\* The group is not in use while a collision waits to be taken.
CollisionWaits(p) ==
    /\ OneCollision(signals[p])
    /\ NoCollision(signals[p]) \/ group[p] \in {"COLLISION", "UNCOMMITED"}

CollisionsWait == \A p \in Publishers : process[p] = "running" => CollisionWaits(p)

AbortInv == PublicationTypes /\ SignalTypes /\ CollisionsWait /\ OnlyNeighboursAbort

LEMMA AppendState ==
    ASSUME NEW sq \in Seq(Signals), NEW s \in DaemonStates
    PROVE  /\ Append(sq, s) \in Seq(Signals)
           /\ OneCollision(sq) => OneCollision(Append(sq, s))
           /\ NoCollision(sq) => NoCollision(Append(sq, s))
  <1>1. s \in Signals /\ s # "GROUP_COLLISION"
    BY DEF Signals, DaemonStates
  <1>. QED  BY <1>1 DEF OneCollision, NoCollision

LEMMA AppendCollision ==
    ASSUME NEW sq \in Seq(Signals), NoCollision(sq)
    PROVE  /\ Append(sq, "GROUP_COLLISION") \in Seq(Signals)
           /\ OneCollision(Append(sq, "GROUP_COLLISION"))
  <1>1. "GROUP_COLLISION" \in Signals
    BY DEF Signals
  <1>. QED  BY <1>1 DEF OneCollision, NoCollision

LEMMA TakeFirst ==
    ASSUME NEW sq \in Seq(Signals), sq # <<>>, OneCollision(sq)
    PROVE  /\ Tail(sq) \in Seq(Signals)
           /\ OneCollision(Tail(sq))
           /\ NoCollision(sq) => NoCollision(Tail(sq)) /\ Head(sq) # "GROUP_COLLISION"
           /\ Head(sq) = "GROUP_COLLISION" => NoCollision(Tail(sq))
  <1>1. Len(sq) \in Nat \ {0} /\ Len(Tail(sq)) = Len(sq) - 1 /\ Head(sq) = sq[1]
    OBVIOUS
  <1>2. \A i \in 1..Len(Tail(sq)) : Tail(sq)[i] = sq[i + 1] /\ i + 1 \in 1..Len(sq) /\ i + 1 # 1
    BY <1>1
  <1>3. 1 \in 1..Len(sq)
    BY <1>1
  <1>4. OneCollision(Tail(sq))
    <2>1. ASSUME NEW i \in 1..Len(Tail(sq)), NEW j \in 1..Len(Tail(sq)),
                 Tail(sq)[i] = "GROUP_COLLISION", Tail(sq)[j] = "GROUP_COLLISION"
          PROVE  i = j
      <3>1. i + 1 = j + 1
        BY <1>2, <2>1 DEF OneCollision
      <3>. QED  BY <3>1
    <2>. QED  BY <2>1 DEF OneCollision
  <1>5. NoCollision(sq) => NoCollision(Tail(sq)) /\ Head(sq) # "GROUP_COLLISION"
    BY <1>1, <1>2, <1>3 DEF NoCollision
  <1>6. Head(sq) = "GROUP_COLLISION" => NoCollision(Tail(sq))
    BY <1>1, <1>2, <1>3 DEF NoCollision, OneCollision
  <1>7. Tail(sq) \in Seq(Signals)
    OBVIOUS
  <1>. QED  BY <1>4, <1>5, <1>6, <1>7

\* What the daemon refuses to a publisher without a service is a neighbour's name.
LEMMA RefusalHasNeighbour ==
    ASSUME NEW p \in Nodes, NEW n, group[p] \notin InUse, ~Accepts(p, n)
    PROVE  \E q \in Nodes \ {p} : q \in OnHostOf(p)
  BY DEF Accepts, Rivals, OnHostOf, Publishers

LEMMA InitAbortInv == ServiceInit => AbortInv
  <1> SUFFICES ASSUME ServiceInit PROVE AbortInv
    OBVIOUS
  <1>1. PublicationTypes
    BY InitPublicationInv DEF PublicationInv
  <1>2. SignalTypes
    BY DEF ServiceInit, SignalTypes, DaemonStates
  <1>3. CollisionsWait
    <2>1. NoCollision(<<>>) /\ OneCollision(<<>>)
      BY DEF NoCollision, OneCollision
    <2>. QED  BY <2>1 DEF ServiceInit, CollisionsWait, CollisionWaits
  <1>4. OnlyNeighboursAbort
    BY DEF ServiceInit, OnlyNeighboursAbort, Publishers
  <1>. QED  BY <1>1, <1>2, <1>3, <1>4 DEF AbortInv

\* A report of the daemon's state, taken from the queue or when the client connects.
LEMMA ReportKeeps ==
    ASSUME PublicationTypes, SignalTypes, CollisionsWait,
           NEW p \in Publishers, NEW s \in DaemonStates, Reported(p, s)
    PROVE  /\ SignalTypes'
           /\ OneCollision(signals'[p])
           /\ NoCollision(signals[p]) => NoCollision(signals'[p])
           /\ \A q \in Publishers \ {p} : signals'[q] = signals[q]
           /\ process[p] = "running"
  <1>1. daemon' = daemon /\ process[p] = "running"
    BY DEF Reported, Takes
  <1>2. OneCollision(signals[p])
    BY <1>1 DEF CollisionsWait, CollisionWaits
  <1>3. CASE signals' = signals
    BY <1>1, <1>2, <1>3 DEF SignalTypes
  <1>4. CASE Takes(p, s)
    <2>1. /\ Tail(signals[p]) \in Seq(Signals)
          /\ OneCollision(Tail(signals[p]))
          /\ NoCollision(signals[p]) => NoCollision(Tail(signals[p]))
      BY <1>2, <1>4, TakeFirst DEF Takes, SignalTypes
    <2>2. signals' = [signals EXCEPT ![p] = Tail(signals[p])]
      BY <1>4 DEF Takes
    <2>3. signals'[p] = Tail(signals[p]) /\ signals' \in [Publishers -> Seq(Signals)]
      BY <2>1, <2>2 DEF SignalTypes
    <2>. QED  BY <1>1, <2>1, <2>2, <2>3 DEF SignalTypes
  <1>. QED  BY <1>3, <1>4 DEF Reported

LEMMA StepAbortInv == AbortInv /\ PublicationTypes' /\ [ServiceNext]_serviceVars => AbortInv'
  <1> SUFFICES ASSUME AbortInv, PublicationTypes', [ServiceNext]_serviceVars PROVE AbortInv'
    OBVIOUS
  <1>0. PublicationTypes /\ SignalTypes /\ CollisionsWait /\ OnlyNeighboursAbort
    BY DEF AbortInv
  <1>. USE <1>0
  <1>1. CASE UNCHANGED serviceVars
    BY <1>1 DEF serviceVars, AbortInv, PublicationTypes, SignalTypes, CollisionsWait,
                CollisionWaits, OnlyNeighboursAbort, OnHostOf
  <1>2. ASSUME NEW h \in Hosts, HostStep(h) PROVE AbortInv'
    <2>1. PICK s \in DaemonStates : Enter(h, s)
      BY <1>2 DEF HostStep, HostChanges, HostRenamed, HostEstablished, DaemonStates
    <2>2. /\ daemon' = [daemon EXCEPT ![h] = s]
          /\ signals' = [p \in Publishers |->
                            IF p \in Connected(h) THEN Append(signals[p], s) ELSE signals[p]]
          /\ group' = group /\ process' = process
      BY <2>1 DEF Enter
    <2>3. \A p \in Publishers : signals'[p] \in {signals[p], Append(signals[p], s)}
      BY <2>2
    <2>4. \A p \in Publishers :
             /\ signals'[p] \in Seq(Signals)
             /\ OneCollision(signals[p]) => OneCollision(signals'[p])
             /\ NoCollision(signals[p]) => NoCollision(signals'[p])
      BY <2>3, AppendState DEF SignalTypes
    <2>5. SignalTypes'
      BY <2>2, <2>4 DEF SignalTypes
    <2>6. CollisionsWait'
      BY <2>2, <2>4 DEF CollisionsWait, CollisionWaits
    <2>. QED  BY <2>2, <2>5, <2>6 DEF AbortInv, OnlyNeighboursAbort, OnHostOf
  <1>3. ASSUME NEW p \in Publishers, ClientRunning(p) PROVE AbortInv'
    <2>1. Reported(p, "RUNNING") /\ "RUNNING" \in DaemonStates
      BY <1>3 DEF ClientRunning, DaemonStates
    <2>2. /\ SignalTypes'
          /\ OneCollision(signals'[p])
          /\ NoCollision(signals[p]) => NoCollision(signals'[p])
          /\ \A q \in Publishers \ {p} : signals'[q] = signals[q]
          /\ process[p] = "running"
      BY <2>1, ReportKeeps
    <2>3. CollisionWaits(p)
      BY <2>2 DEF CollisionsWait
    <2>4. CASE UNCHANGED <<group, process>>
      <3>1. CollisionsWait'
        BY <2>2, <2>3, <2>4 DEF CollisionsWait, CollisionWaits
      <3>. QED  BY <2>2, <2>4, <3>1 DEF AbortInv, OnlyNeighboursAbort, OnHostOf
    <2>5. CASE group[p] = "NULL" /\ CreateServices(p, name[p])
      <3>1. NoCollision(signals'[p])
        BY <2>2, <2>3, <2>5 DEF CollisionWaits
      <3>2. name[p] \in Nat
        BY DEF PublicationTypes
      <3>3. \A q \in Publishers \ {p} : group'[q] = group[q] /\ process'[q] = process[q]
        BY <2>5, <3>2, CreateTypes
      <3>4. CollisionsWait'
        BY <2>2, <3>1, <3>3 DEF CollisionsWait, CollisionWaits
      <3>5. CASE Accepts(p, name[p]) /\ process' = process
        BY <2>2, <3>4, <3>5 DEF AbortInv, OnlyNeighboursAbort, OnHostOf
      <3>6. CASE ~Accepts(p, name[p])
        <4>1. p \in Nodes => \E q \in Nodes \ {p} : q \in OnHostOf(p)
          BY <2>5, <3>6, RefusalHasNeighbour DEF InUse
        <4>2. OnlyNeighboursAbort'
          BY <3>3, <4>1 DEF OnlyNeighboursAbort, OnHostOf, Publishers
        <4>. QED  BY <2>2, <3>4, <4>2 DEF AbortInv
      <3>. QED  BY <2>5, <3>5, <3>6 DEF CreateServices
    <2>. QED  BY <1>3, <2>4, <2>5 DEF ClientRunning
  <1>4. ASSUME NEW p \in Publishers, ClientRegistering(p) PROVE AbortInv'
    <2>1. PICK s \in DaemonStates : Reported(p, s)
      BY <1>4 DEF ClientRegistering, DaemonStates
    <2>2. /\ SignalTypes'
          /\ OneCollision(signals'[p])
          /\ NoCollision(signals[p]) => NoCollision(signals'[p])
          /\ \A q \in Publishers \ {p} : signals'[q] = signals[q]
          /\ process[p] = "running"
      BY <2>1, ReportKeeps
    <2>3. CollisionWaits(p)
      BY <2>2 DEF CollisionsWait
    <2>4. process' = process /\ group' = ResetServices(p)
      BY <1>4 DEF ClientRegistering
    <2>5. /\ \A q \in Publishers \ {p} : group'[q] = group[q]
          /\ group[p] \in {"COLLISION", "UNCOMMITED"} => group'[p] = "UNCOMMITED"
      BY <2>4 DEF ResetServices, PublicationTypes
    <2>6. CollisionsWait'
      BY <2>2, <2>3, <2>4, <2>5 DEF CollisionsWait, CollisionWaits
    <2>. QED  BY <2>2, <2>4, <2>6 DEF AbortInv, OnlyNeighboursAbort, OnHostOf
  <1>5. ASSUME NEW p \in Publishers, GroupEstablished(p) PROVE AbortInv'
    <2>1. /\ group' = [group EXCEPT ![p] = "ESTABLISHED"] /\ group[p] = "REGISTERING"
          /\ UNCHANGED <<daemon, signals, process>>
      BY <1>5 DEF GroupEstablished
    <2>2. CollisionsWait'
      BY <2>1 DEF CollisionsWait, CollisionWaits, PublicationTypes
    <2>. QED  BY <2>1, <2>2 DEF AbortInv, SignalTypes, OnlyNeighboursAbort, OnHostOf
  <1>6. ASSUME NEW p \in Publishers, GroupCollides(p) PROVE AbortInv'
    <2>1. /\ group' = [group EXCEPT ![p] = "COLLISION"] /\ group[p] = "REGISTERING"
          /\ signals' = [signals EXCEPT ![p] = Append(signals[p], "GROUP_COLLISION")]
          /\ UNCHANGED <<daemon, process>>
      BY <1>6 DEF GroupCollides
    <2>2. CASE process[p] = "running"
      <3>1. NoCollision(signals[p])
        BY <2>1, <2>2 DEF CollisionsWait, CollisionWaits
      <3>2. Append(signals[p], "GROUP_COLLISION") \in Seq(Signals)
              /\ OneCollision(Append(signals[p], "GROUP_COLLISION"))
        BY <3>1, AppendCollision DEF SignalTypes
      <3>3. SignalTypes'
        BY <2>1, <3>2 DEF SignalTypes
      <3>4. CollisionsWait'
        BY <2>1, <3>2 DEF CollisionsWait, CollisionWaits, SignalTypes, PublicationTypes
      <3>. QED  BY <2>1, <3>3, <3>4 DEF AbortInv, OnlyNeighboursAbort, OnHostOf
    <2>3. CASE process[p] # "running"
      <3>1. "GROUP_COLLISION" \in Signals
        BY DEF Signals
      <3>2. Append(signals[p], "GROUP_COLLISION") \in Seq(Signals)
        BY <3>1 DEF SignalTypes
      <3>3. SignalTypes'
        BY <2>1, <3>2 DEF SignalTypes
      <3>4. CollisionsWait'
        BY <2>1, <2>3 DEF CollisionsWait, CollisionWaits, SignalTypes, PublicationTypes
      <3>. QED  BY <2>1, <3>3, <3>4 DEF AbortInv, OnlyNeighboursAbort, OnHostOf
    <2>. QED  BY <2>2, <2>3
  <1>7. ASSUME NEW p \in Publishers, NodeGroupCollision(p) \/ ServerGroupCollision(p)
        PROVE  AbortInv'
    <2>1. Takes(p, "GROUP_COLLISION") /\ name' = [name EXCEPT ![p] = name[p] + 1] /\ daemon' = daemon
      BY <1>7 DEF NodeGroupCollision, ServerGroupCollision, Renames, AlternativeName
    <2>2. /\ process[p] = "running" /\ signals[p] # <<>> /\ Head(signals[p]) = "GROUP_COLLISION"
          /\ signals' = [signals EXCEPT ![p] = Tail(signals[p])]
      BY <2>1 DEF Takes
    <2>3. OneCollision(signals[p]) /\ (NoCollision(signals[p]) \/ group[p] \in {"COLLISION", "UNCOMMITED"})
      BY <2>2 DEF CollisionsWait, CollisionWaits
    <2>4. /\ Tail(signals[p]) \in Seq(Signals)
          /\ OneCollision(Tail(signals[p])) /\ NoCollision(Tail(signals[p]))
          /\ group[p] \in {"COLLISION", "UNCOMMITED"}
      BY <2>2, <2>3, TakeFirst DEF SignalTypes
    <2>5. SignalTypes' /\ signals'[p] = Tail(signals[p])
            /\ \A q \in Publishers \ {p} : signals'[q] = signals[q]
      BY <2>1, <2>2, <2>4 DEF SignalTypes
    <2>6. CASE NodeGroupCollision(p)
      <3>1. p \in Nodes /\ CreateServices(p, name'[p]) /\ name'[p] \in Nat
        BY <2>1, <2>6 DEF NodeGroupCollision, PublicationTypes
      <3>2. \A q \in Publishers \ {p} : group'[q] = group[q] /\ process'[q] = process[q]
        BY <3>1, CreateTypes
      <3>3. CollisionsWait'
        BY <2>4, <2>5, <3>2 DEF CollisionsWait, CollisionWaits
      <3>4. process'[p] = "aborted" => \E q \in Nodes \ {p} : q \in OnHostOf(p)
        <4>1. CASE ~Accepts(p, name'[p])
          BY <2>4, <3>1, <4>1, RefusalHasNeighbour DEF InUse
        <4>2. CASE process' = process
          BY <2>2, <4>2
        <4>. QED  BY <3>1, <4>1, <4>2 DEF CreateServices
      <3>5. OnlyNeighboursAbort'
        BY <3>2, <3>4 DEF OnlyNeighboursAbort, OnHostOf, Publishers
      <3>. QED  BY <2>5, <3>3, <3>5 DEF AbortInv
    <2>7. CASE ServerGroupCollision(p)
      <3>1. /\ process' = [process EXCEPT ![p] = "aborted"] /\ group' = [group EXCEPT ![p] = "NULL"]
            /\ p \in Servers
        BY <2>7 DEF ServerGroupCollision, Aborts
      <3>2. CollisionsWait'
        BY <2>5, <3>1 DEF CollisionsWait, CollisionWaits, PublicationTypes
      <3>3. OnlyNeighboursAbort'
        BY <3>1, PublishersAssumption DEF OnlyNeighboursAbort, OnHostOf, PublicationTypes, Publishers
      <3>. QED  BY <2>5, <3>2, <3>3 DEF AbortInv
    <2>. QED  BY <1>7, <2>6, <2>7
  <1>. QED
    BY <1>1, <1>2, <1>3, <1>4, <1>5, <1>6, <1>7
    DEF ServiceNext, PublishersNext, Callback, Probed

\* For any publishers on any hosts, and signals of collisions and of host name changes
\* in any order: a node is never aborted for a service of its own that is there
\* already, but only where another node of its host may have its name
\* (hnode-nodeobj.c:483, where the daemon's refusal is a g_error).
THEOREM NodesAbortForNeighbours == ServiceSpec => []OnlyNeighboursAbort
  <1>1. PublicationInv => PublicationTypes
    BY DEF PublicationInv
  <1>2. AbortInv => OnlyNeighboursAbort
    BY DEF AbortInv
  <1>. QED  BY <1>1, <1>2, PublicationInvariant, InitAbortInv, StepAbortInv, PTL DEF ServiceSpec

--------------------------------------------------------------------------------
(***************************************************************************)
(* The configuration memory.  Offsets into the array that are multiples of *)
(* the cell size stand for cells; with these the claim is about the tables *)
(* alone: no two segments of the array overlap, and no two of one store    *)
(* have an address in common.                                              *)
(***************************************************************************)

Whole(n) == n \in Nat /\ n % CellSize = 0

LEMMA WholeIsMultiple ==
    ASSUME NEW n, Whole(n)
    PROVE  n \div CellSize \in Nat /\ n = (n \div CellSize) * CellSize
  BY CellAssumption DEF Whole

LEMMA MultipleIsWhole ==
    ASSUME NEW i \in Nat
    PROVE  Whole(i * CellSize) /\ (i * CellSize) \div CellSize = i
  BY CellAssumption DEF Whole

LEMMA MultiplesOrdered ==
    ASSUME NEW i \in Nat, NEW j \in Nat
    PROVE  i * CellSize < j * CellSize <=> i < j
  BY CellAssumption

\* Cells count on from a cell as addresses do.
LEMMA CellsAdd ==
    ASSUME NEW n, Whole(n), NEW i \in Nat
    PROVE  Whole(n + i * CellSize) /\ (n + i * CellSize) \div CellSize = (n \div CellSize) + i
  <1>. DEFINE k == n \div CellSize
  <1>1. k \in Nat /\ n = k * CellSize
    BY WholeIsMultiple
  <1>. HIDE DEF k
  <1>2. n + i * CellSize = (k + i) * CellSize /\ k + i \in Nat
    BY <1>1, CellAssumption
  <1>3. (k + i) * CellSize \in Nat
    BY <1>2, MultipleIsWhole DEF Whole
  <1>. QED  BY <1>1, <1>2, MultipleIsWhole DEF k

\* A range of whole cells holds the cells of its addresses and no other.
LEMMA CellInRange ==
    ASSUME NEW x, NEW y, NEW n, Whole(x), Whole(y), Whole(n)
    PROVE  x \div CellSize \in {(y \div CellSize) + i : i \in 0..(n \div CellSize - 1)}
              <=> y <= x /\ x < y + n
  <1>. DEFINE a == x \div CellSize
              b == y \div CellSize
              m == n \div CellSize
  <1>1. /\ a \in Nat /\ b \in Nat /\ m \in Nat
        /\ x = a * CellSize /\ y = b * CellSize /\ n = m * CellSize
    BY WholeIsMultiple
  <1>. HIDE DEF a, b, m
  <1>2. y + n = (b + m) * CellSize
    BY <1>1, CellAssumption
  <1>3. x < y + n <=> a < b + m
    BY <1>1, <1>2, MultiplesOrdered
  <1>4. x < y <=> a < b
    BY <1>1, MultiplesOrdered
  <1>5. y <= x <=> b <= a
    BY <1>1, <1>4 DEF Whole
  <1>6. a \in {b + i : i \in 0..(m - 1)} <=> b <= a /\ a < b + m
    <2>1. ASSUME b <= a, a < b + m
          PROVE  a \in {b + i : i \in 0..(m - 1)}
      <3>1. a - b \in 0..(m - 1) /\ a = b + (a - b)
        BY <1>1, <2>1
      <3>. QED  BY <3>1
    <2>. QED  BY <1>1, <2>1
  <1>. QED  BY <1>3, <1>5, <1>6 DEF a, b, m

\* The cells of a range of whole cells are those below its length.
LEMMA OffsetsBelow ==
    ASSUME NEW n, Whole(n), NEW i \in Nat
    PROVE  i \in 0..(n \div CellSize - 1) <=> i * CellSize < n
  <1>1. n \div CellSize \in Nat /\ n = (n \div CellSize) * CellSize
    BY WholeIsMultiple
  <1>2. i * CellSize < n <=> i < n \div CellSize
    BY <1>1, MultiplesOrdered
  <1>. QED  BY <1>1, <1>2

LEMMA SectorsAreWhole ==
    ASSUME NEW i \in Nat
    PROVE  Whole(i * 512)
  <1>1. Whole(512)
    BY CellAssumption DEF Whole
  <1>. DEFINE k == 512 \div CellSize
  <1>2. k \in Nat /\ 512 = k * CellSize
    BY <1>1, WholeIsMultiple
  <1>. HIDE DEF k
  <1>3. i * 512 = (i * k) * CellSize /\ i * k \in Nat
    BY <1>2, CellAssumption
  <1>. QED  BY <1>3, MultipleIsWhole

--------------------------------------------------------------------------------
(* The tables.                                                             *)

SegmentsOf(r) == {RegionSegments(r)[i] : i \in DOMAIN RegionSegments(r)}

\* Stores, and the segment tables by store.
LEMMA Tables ==
    /\ Regions = 0..4
    /\ \A r \in Regions : /\ Store(r) \in 0..3 /\ RegionSegments(r) = RegionSegments(Store(r))
                          /\ SegmentsOf(r) = SegmentsOf(Store(r))
    /\ SegmentsOf(0) = {Segment(4096, 512, 0)}
    /\ SegmentsOf(1) = {Segment(0, 512, 512)}
    /\ SegmentsOf(2) = {Segment(33280, 512, 1024), Segment(33792, 8192, 2048)}
    /\ SegmentsOf(3) = {Segment(5632, 512, 1536)}
  <1>. USE DEF HNCFG_REGNAME_BASE_PRG, HNCFG_REGNAME_BASE_CFG, HNCFG_REGNAME_APP_PRG,
               HNCFG_REGNAME_APP_CFG, HNCFG_REGNAME_DUMP, Regions
  <1>1. Regions = 0..4
    OBVIOUS
  <1>2. /\ RegionSegments(0) = <<Segment(4096, 512, 0)>>
        /\ RegionSegments(1) = <<Segment(0, 512, 512)>>
        /\ RegionSegments(2) = <<Segment(33280, 512, 1024), Segment(33792, 8192, 2048)>>
        /\ RegionSegments(3) = <<Segment(5632, 512, 1536)>>
        /\ RegionSegments(4) = RegionSegments(2)
    BY DEF RegionSegments, AppPrgSegments
  <1>3. \A s : {<<s>>[i] : i \in DOMAIN <<s>>} = {s}
    OBVIOUS
  <1>4. \A s, t : {<<s, t>>[i] : i \in DOMAIN <<s, t>>} = {s, t}
    OBVIOUS
  <1>5. /\ SegmentsOf(0) = {Segment(4096, 512, 0)}
        /\ SegmentsOf(1) = {Segment(0, 512, 512)}
        /\ SegmentsOf(3) = {Segment(5632, 512, 1536)}
    BY <1>2, <1>3 DEF SegmentsOf
  <1>6. SegmentsOf(2) = {Segment(33280, 512, 1024), Segment(33792, 8192, 2048)}
    BY <1>2, <1>4 DEF SegmentsOf
  <1>7. ASSUME NEW r \in Regions
        PROVE  /\ Store(r) \in 0..3 /\ RegionSegments(r) = RegionSegments(Store(r))
    BY <1>1, <1>2 DEF Store
  <1>. QED  BY <1>1, <1>5, <1>6, <1>7 DEF SegmentsOf

LEMMA RegionDomains ==
    ASSUME NEW r \in Regions
    PROVE  DOMAIN RegionSegments(r) \subseteq {1, 2}
  <1>1. \A s, t : DOMAIN <<s>> \subseteq {1, 2} /\ DOMAIN <<s, t>> \subseteq {1, 2}
    OBVIOUS
  <1>. QED  BY <1>1 DEF RegionSegments, AppPrgSegments, Regions, HNCFG_REGNAME_BASE_PRG,
                        HNCFG_REGNAME_BASE_CFG, HNCFG_REGNAME_APP_PRG, HNCFG_REGNAME_APP_CFG,
                        HNCFG_REGNAME_DUMP

\* The five segments, with their stores.
IsSegment(p, s) ==
    \/ p = 0 /\ s = Segment(4096, 512, 0)
    \/ p = 1 /\ s = Segment(0, 512, 512)
    \/ p = 2 /\ s = Segment(33280, 512, 1024)
    \/ p = 2 /\ s = Segment(33792, 8192, 2048)
    \/ p = 3 /\ s = Segment(5632, 512, 1536)

LEMMA Segments ==
    ASSUME NEW p \in 0..3, NEW s \in SegmentsOf(p)
    PROVE  IsSegment(p, s)
  <1>1. p \in {0, 1, 2, 3}
    OBVIOUS
  <1>. QED  BY <1>1, Tables DEF IsSegment

\* What the tables have to give: whole sectors within the array,
LEMMA SegmentSectors ==
    ASSUME NEW p \in 0..3, NEW s \in SegmentsOf(p)
    PROVE  /\ \E i \in Nat : s.Address = i * 512
           /\ \E i \in Nat : s.Length = i * 512
           /\ \E i \in Nat : s.DataPtr = i * 512
  <1>1. /\ 4096 = 8 * 512 /\ 512 = 1 * 512 /\ 0 = 0 * 512 /\ 33280 = 65 * 512
        /\ 1024 = 2 * 512 /\ 33792 = 66 * 512 /\ 8192 = 16 * 512 /\ 2048 = 4 * 512
        /\ 5632 = 11 * 512 /\ 1536 = 3 * 512
    OBVIOUS
  <1>. QED  BY <1>1, Segments DEF IsSegment, Segment

\* no two segments that overlap, and none of one store that have an address in common.
LEMMA SegmentsApart ==
    ASSUME NEW p \in 0..3, NEW q \in 0..3, NEW s \in SegmentsOf(p), NEW t \in SegmentsOf(q)
    PROVE  /\ s.DataPtr + s.Length <= 10240
           /\ \/ p = q /\ s = t
              \/ /\ s.DataPtr + s.Length <= t.DataPtr \/ t.DataPtr + t.Length <= s.DataPtr
                 /\ \/ p # q
                    \/ s.Address + s.Length <= t.Address
                    \/ t.Address + t.Length <= s.Address
  <1>1. IsSegment(p, s) /\ IsSegment(q, t)
    BY Segments
  <1>. QED  BY <1>1 DEF IsSegment, Segment

--------------------------------------------------------------------------------
(* Cells of segments.                                                      *)

\* The place of an address in the array, in bytes.
Offset(s, address) == s.DataPtr + address - s.Address

LEMMA SegmentIsWhole ==
    ASSUME NEW p \in 0..3, NEW s \in SegmentsOf(p)
    PROVE  /\ Whole(s.Address) /\ Whole(s.Length) /\ Whole(s.DataPtr)
           /\ s.DataPtr + s.Length <= 10240
  <1>1. PICK i \in Nat : s.Address = i * 512
    BY SegmentSectors
  <1>2. PICK j \in Nat : s.Length = j * 512
    BY SegmentSectors
  <1>3. PICK k \in Nat : s.DataPtr = k * 512
    BY SegmentSectors
  <1>4. Whole(i * 512) /\ Whole(j * 512) /\ Whole(k * 512)
    BY SectorsAreWhole
  <1>5. s.DataPtr + s.Length <= 10240
    BY SegmentsApart
  <1>. QED  BY <1>1, <1>2, <1>3, <1>4, <1>5

\* The addresses of a segment's cells are its whole ones.
LEMMA AddressesOfSegment ==
    ASSUME NEW p \in 0..3, NEW s \in SegmentsOf(p), NEW a
    PROVE  a \in CellAddresses(s)
              <=> Whole(a) /\ s.Address <= a /\ a < s.Address + s.Length
  <1>1. Whole(s.Address) /\ Whole(s.Length)
    BY SegmentIsWhole
  <1>2. s.Address \in Nat /\ s.Length \in Nat
    BY <1>1 DEF Whole
  <1>3. ASSUME a \in CellAddresses(s)
        PROVE  Whole(a) /\ s.Address <= a /\ a < s.Address + s.Length
    <2>1. PICK i \in 0..(s.Length \div CellSize - 1) : a = s.Address + i * CellSize
      BY <1>3 DEF CellAddresses
    <2>2. i \in Nat
      OBVIOUS
    <2>3. i * CellSize < s.Length
      BY <1>1, <2>2, OffsetsBelow
    <2>4. i * CellSize \in Nat
      BY <2>2, MultipleIsWhole DEF Whole
    <2>5. Whole(a)
      BY <1>1, <2>1, <2>2, CellsAdd
    <2>. QED  BY <1>2, <2>1, <2>3, <2>4, <2>5
  <1>4. ASSUME Whole(a), s.Address <= a, a < s.Address + s.Length
        PROVE  a \in CellAddresses(s)
    <2>. DEFINE k == a \div CellSize
                l == s.Address \div CellSize
    <2>1. /\ k \in Nat /\ a = k * CellSize
          /\ l \in Nat /\ s.Address = l * CellSize
      BY <1>1, <1>4, WholeIsMultiple
    <2>. HIDE DEF k, l
    <2>2. ~(a < s.Address)
      BY <1>2, <1>4 DEF Whole
    <2>3. l <= k
      BY <2>1, <2>2, MultiplesOrdered
    <2>4. k - l \in Nat /\ a = s.Address + (k - l) * CellSize
      BY <2>1, <2>3, CellAssumption
    <2>5. (k - l) * CellSize \in Nat
      BY <2>4, MultipleIsWhole DEF Whole
    <2>6. (k - l) * CellSize < s.Length
      BY <1>2, <1>4, <2>4, <2>5
    <2>7. k - l \in 0..(s.Length \div CellSize - 1)
      BY <1>1, <2>4, <2>6, OffsetsBelow
    <2>. QED  BY <2>4, <2>7 DEF CellAddresses
  <1>. QED  BY <1>3, <1>4

\* Where a whole address of a segment is in the array.
LEMMA CellOfAddress ==
    ASSUME NEW p \in 0..3, NEW s \in SegmentsOf(p), NEW a, Whole(a), s.Address <= a
    PROVE  Whole(Offset(s, a)) /\ CellAt(s, a) = Offset(s, a) \div CellSize
  <1>1. Whole(s.Address) /\ Whole(s.DataPtr)
    BY SegmentIsWhole
  <1>. DEFINE k == a \div CellSize
              l == s.Address \div CellSize
  <1>2. /\ k \in Nat /\ a = k * CellSize
        /\ l \in Nat /\ s.Address = l * CellSize
    BY <1>1, WholeIsMultiple
  <1>. HIDE DEF k, l
  <1>3. ~(a < s.Address)
    BY <1>1 DEF Whole
  <1>4. l <= k
    BY <1>2, <1>3, MultiplesOrdered
  <1>5. k - l \in Nat /\ a - s.Address = (k - l) * CellSize
    BY <1>2, <1>4, CellAssumption
  <1>6. Offset(s, a) = s.DataPtr + (k - l) * CellSize
    BY <1>1, <1>5 DEF Offset, Whole
  <1>. QED  BY <1>1, <1>5, <1>6, CellsAdd DEF CellAt, Offset

\* A range of one segment holds the cell of an address of its store within the range,
\* and of no other address of any store.
LEMMA RangeOfStore ==
    ASSUME NEW p \in 0..3, NEW s \in SegmentsOf(p), NEW q \in 0..3, NEW t \in SegmentsOf(q),
           NEW b, NEW n, Whole(b), Whole(n), s.Address <= b, b + n <= s.Address + s.Length,
           NEW a \in CellAddresses(t)
    PROVE  CellAt(t, a) \in Cells(s, b, n) <=> p = q /\ a \in b..(b + n - 1)
  <1>1. /\ Whole(s.Address) /\ Whole(s.Length) /\ Whole(s.DataPtr)
        /\ Whole(t.Address) /\ Whole(t.Length) /\ Whole(t.DataPtr)
    BY SegmentIsWhole
  <1>2. Whole(a) /\ t.Address <= a /\ a < t.Address + t.Length
    BY AddressesOfSegment
  <1>3. CellAt(t, a) \in Cells(s, b, n)
           <=> Offset(s, b) <= Offset(t, a) /\ Offset(t, a) < Offset(s, b) + n
    BY <1>2, CellOfAddress, CellInRange DEF Cells
  <1>4. /\ s.Address \in Nat /\ s.Length \in Nat /\ s.DataPtr \in Nat
        /\ t.Address \in Nat /\ t.Length \in Nat /\ t.DataPtr \in Nat
        /\ a \in Nat /\ b \in Nat /\ n \in Nat
    BY <1>1, <1>2 DEF Whole
  <1>5. CASE p = q /\ s = t
    BY <1>3, <1>4, <1>5 DEF Offset
  <1>6. CASE ~(p = q /\ s = t)
    <2>1. /\ s.DataPtr + s.Length <= t.DataPtr \/ t.DataPtr + t.Length <= s.DataPtr
          /\ \/ p # q
             \/ s.Address + s.Length <= t.Address
             \/ t.Address + t.Length <= s.Address
      BY <1>6, SegmentsApart
    <2>2. ~(Offset(s, b) <= Offset(t, a) /\ Offset(t, a) < Offset(s, b) + n)
      BY <1>2, <1>4, <2>1 DEF Offset
    <2>3. ~(p = q /\ a \in b..(b + n - 1))
      BY <1>2, <1>4, <2>1
    <2>. QED  BY <1>3, <2>2, <2>3
  <1>. QED  BY <1>5, <1>6

--------------------------------------------------------------------------------
(* The invariant.                                                          *)

Stores == Regions \ {HNCFG_REGNAME_DUMP}

MemTypes ==
    /\ DOMAIN gNodeMem = 0..(10240 \div CellSize - 1)
    /\ DOMAIN flash = UNION {{r} \X StoreAddresses(r) : r \in Stores}

\* Each store's cells hold what was last put at their addresses.
StoresHold ==
    \A p \in 0..3 : \A s \in SegmentsOf(p) : \A a \in CellAddresses(s) :
        gNodeMem[CellAt(s, a)] = flash[<<p, a>>]

ReplyHolds ==
    reply.type = "DATA" =>
        \A i \in DOMAIN reply.data :
            reply.data[i] = flash[<<Store(reply.region), reply.address + i * CellSize>>]

MemInv == MemTypes /\ StoresHold /\ ReplyHolds

LEMMA MemInvHolds == MemInv => RegionsKeepTheirData
  <1>. SUFFICES ASSUME MemInv, NEW r \in Regions, NEW i \in DOMAIN RegionSegments(r),
                       NEW a \in CellAddresses(RegionSegments(r)[i])
                PROVE  gNodeMem[CellAt(RegionSegments(r)[i], a)] = flash[<<Store(r), a>>]
    BY DEF MemInv, ReplyHolds, RegionsKeepTheirData
  <1>1. RegionSegments(r)[i] \in SegmentsOf(Store(r)) /\ Store(r) \in 0..3
    BY Tables DEF SegmentsOf
  <1>. QED  BY <1>1 DEF MemInv, StoresHold

LEMMA InDomains ==
    ASSUME MemTypes, NEW p \in 0..3, NEW s \in SegmentsOf(p), NEW a \in CellAddresses(s)
    PROVE  CellAt(s, a) \in DOMAIN gNodeMem /\ <<p, a>> \in DOMAIN flash
  <1>1. /\ Whole(s.Address) /\ Whole(s.Length) /\ Whole(s.DataPtr)
        /\ s.DataPtr + s.Length <= 10240
    BY SegmentIsWhole
  <1>2. Whole(a) /\ s.Address <= a /\ a < s.Address + s.Length
    BY AddressesOfSegment
  <1>3. Whole(Offset(s, a)) /\ CellAt(s, a) = Offset(s, a) \div CellSize
    BY <1>2, CellOfAddress
  <1>4. Offset(s, a) < 10240
    BY <1>1, <1>2 DEF Offset, Whole
  <1>. DEFINE k == Offset(s, a) \div CellSize
  <1>5. k \in Nat /\ Offset(s, a) = k * CellSize
    BY <1>3, WholeIsMultiple
  <1>6. Whole(10240)
    <2>1. Whole(20 * 512) /\ 20 * 512 = 10240
      BY SectorsAreWhole
    <2>. QED  BY <2>1
  <1>7. k \in 0..(10240 \div CellSize - 1)
    <2>. HIDE DEF k
    <2>. QED  BY <1>4, <1>5, <1>6, OffsetsBelow
  <1>8. p \in Stores
    BY Tables DEF Stores, HNCFG_REGNAME_DUMP
  <1>9. a \in StoreAddresses(p)
    BY DEF StoreAddresses, SegmentsOf
  <1>. QED  BY <1>3, <1>7, <1>8, <1>9 DEF MemTypes

LEMMA InitMemInv == MemInit => MemInv
  <1>. SUFFICES ASSUME MemInit PROVE MemInv
    OBVIOUS
  <1>1. MemTypes
    BY DEF MemInit, MemTypes, Stores
  <1>2. StoresHold
    <2>. SUFFICES ASSUME NEW p \in 0..3, NEW s \in SegmentsOf(p), NEW a \in CellAddresses(s)
                  PROVE  gNodeMem[CellAt(s, a)] = flash[<<p, a>>]
      BY DEF StoresHold
    <2>1. CellAt(s, a) \in DOMAIN gNodeMem /\ <<p, a>> \in DOMAIN flash
      BY <1>1, InDomains
    <2>2. \A x \in DOMAIN gNodeMem : gNodeMem[x] = Initial
      BY DEF MemInit
    <2>3. \A x \in DOMAIN flash : flash[x] = Initial
      BY DEF MemInit
    <2>. QED  BY <2>1, <2>2, <2>3
  <1>3. ReplyHolds
    BY DEF MemInit, ReplyHolds
  <1>. QED  BY <1>1, <1>2, <1>3 DEF MemInv

\* hnode_check_memory_access grants whole ranges of one segment of the region.
LEMMA Granted ==
    ASSUME NEW region \in Nat, NEW address \in Addresses, NEW length \in Lengths,
           NEW access, access = check_memory_access(region, address, length),
           access.result = "OK"
    PROVE  /\ region \in Regions
           /\ access.segment[1] \in SegmentsOf(region)
           /\ Whole(address) /\ Whole(length)
           /\ access.segment[1].Address <= address
           /\ address + length <= access.segment[1].Address + access.segment[1].Length
  <1>1. region \in Regions
    <2>1. ~(region >= HNCFG_REGNAME_FENCE)
      BY DEF check_memory_access, Denied
    <2>. QED  BY <2>1, Tables DEF HNCFG_REGNAME_FENCE
  <1>. DEFINE segs == RegionSegments(region)
              hit  == {i \in DOMAIN segs : Within(segs[i], address)}
              s    == segs[CHOOSE i \in hit : \A j \in hit : i <= j]
              checked == CASE length > AccessSize -> Denied("TOO_LONG")
                           [] length <= AccessSize /\ address % AccessAlignment # 0
                                -> Denied("MISALIGNED_ADDRESS")
                           [] length <= AccessSize /\ address % AccessAlignment = 0
                              /\ address + length > s.Address + s.Length
                                -> Denied("ACCESS_OUT_OF_BOUNDS")
                           [] OTHER -> [result |-> "OK", segment |-> <<s>>]
  <1>0. access = IF hit = {} THEN Denied("BAD_ADDRESS") ELSE checked
    <2>1. ~(region >= HNCFG_REGNAME_FENCE)
      BY DEF check_memory_access, Denied
    <2>. QED  BY <2>1, Zenon DEF check_memory_access
  <1>2. /\ hit # {}
        /\ length <= AccessSize /\ address % AccessAlignment = 0
        /\ ~(address + length > s.Address + s.Length)
        /\ access.segment = <<s>>
    <2>. HIDE DEF hit, s
    <2>1. hit # {} /\ checked.result = "OK" /\ access = checked
      BY <1>0 DEF Denied
    <2>2. length <= AccessSize
      BY <2>1, CellAssumption DEF Denied, AccessSize
    <2>3. address % AccessAlignment = 0
      BY <2>1, <2>2 DEF Denied
    <2>4. ~(address + length > s.Address + s.Length)
      BY <2>1, <2>2, <2>3 DEF Denied
    <2>5. access.segment = <<s>>
      <3>. DEFINE ok == [result |-> "OK", segment |-> <<s>>]
      <3>1. access = ok
        BY <2>1, <2>2, <2>3, <2>4 DEF Denied
      <3>. QED  BY <3>1
    <2>. QED  BY <2>1, <2>2, <2>3, <2>4, <2>5
  <1>3. \E i \in hit : s = segs[i]
    <2>1. DOMAIN segs \subseteq {1, 2}
      BY <1>1, RegionDomains
    <2>. HIDE DEF segs
    <2>2. hit \subseteq {1, 2}
      BY <2>1
    <2>. HIDE DEF hit
    <2>3. \E i \in hit : \A j \in hit : i <= j
      <3>1. \A j \in hit : j = 1 \/ j = 2
        BY <2>2
      <3>2. hit # {}
        BY <1>2
      <3>. QED  BY <3>1, <3>2
    <2>. QED  BY <2>3
  <1>4. s \in SegmentsOf(region) /\ Within(s, address)
    BY <1>3 DEF SegmentsOf
  <1>. HIDE DEF s, hit, segs
  <1>5. Whole(s.Address) /\ Whole(s.Length)
    BY <1>1, <1>4, Tables, SegmentIsWhole
  <1>6. address \in Nat /\ length \in Nat /\ Whole(length)
    BY CellAssumption DEF Whole
  <1>7. Whole(address)
    <2>1. address = (address \div 512) * 512 /\ address \div 512 \in Nat
      BY <1>2, <1>6 DEF AccessAlignment
    <2>. QED  BY <2>1, SectorsAreWhole
  <1>8. access.segment[1] = s
    BY <1>2
  <1>9. s.Address <= address
    BY <1>4 DEF Within
  <1>10. address + length <= s.Address + s.Length
    BY <1>2, <1>5, <1>6 DEF Whole
  <1>. QED  BY <1>1, <1>4, <1>6, <1>7, <1>8, <1>9, <1>10

LEMMA WriteKeeps ==
    ASSUME MemInv, NEW region \in Nat, NEW address \in Addresses, NEW length \in Lengths,
           NEW value \in Values, WriteMemReq(region, address, length, value)
    PROVE  MemInv'
  <1>. DEFINE access == check_memory_access(region, address, length)
              s == access.segment[1]
  <1>1. CASE access.result # "OK"
    <2>1. /\ UNCHANGED <<gNodeMem, flash>>
          /\ reply' = [type |-> "WRITEMEM", result |-> access.result]
      BY <1>1 DEF WriteMemReq, Reply
    <2>. HIDE DEF access
    <2>. QED  BY <2>1 DEF MemInv, MemTypes, StoresHold, ReplyHolds
  <1>2. CASE access.result = "OK"
    <2>1. /\ region \in Regions /\ s \in SegmentsOf(region)
          /\ Whole(address) /\ Whole(length)
          /\ s.Address <= address /\ address + length <= s.Address + s.Length
      BY <1>2, Granted
    <2>2. /\ gNodeMem' = [i \in DOMAIN gNodeMem |->
                 IF i \in Cells(s, address, length) THEN value ELSE gNodeMem[i]]
          /\ flash' = [x \in DOMAIN flash |->
                 IF x[1] = Store(region) /\ x[2] \in address..(address + length - 1)
                 THEN value ELSE flash[x]]
          /\ reply' = [type |-> "WRITEMEM", result |-> "OK"]
      BY <1>2 DEF WriteMemReq, Reply
    <2>. HIDE DEF access, s
    <2>3. Store(region) \in 0..3 /\ s \in SegmentsOf(Store(region))
      BY <2>1, Tables
    <2>4. MemTypes'
      BY <2>2 DEF MemInv, MemTypes
    <2>5. StoresHold'
      <3>. SUFFICES ASSUME NEW q \in 0..3, NEW t \in SegmentsOf(q), NEW a \in CellAddresses(t)
                    PROVE  gNodeMem'[CellAt(t, a)] = flash'[<<q, a>>]
        BY DEF StoresHold
      <3>1. CellAt(t, a) \in DOMAIN gNodeMem /\ <<q, a>> \in DOMAIN flash
        BY InDomains DEF MemInv
      <3>2. CellAt(t, a) \in Cells(s, address, length)
               <=> Store(region) = q /\ a \in address..(address + length - 1)
        BY <2>1, <2>3, RangeOfStore
      <3>3. gNodeMem[CellAt(t, a)] = flash[<<q, a>>]
        BY DEF MemInv, StoresHold
      <3>. QED  BY <2>2, <3>1, <3>2, <3>3
    <2>6. ReplyHolds'
      BY <2>2 DEF ReplyHolds
    <2>. QED  BY <2>4, <2>5, <2>6 DEF MemInv
  <1>. QED  BY <1>1, <1>2

LEMMA EraseKeeps ==
    ASSUME MemInv, NEW region \in Nat, EraseMemReq(region)
    PROVE  MemInv'
  <1>1. CASE region >= HNCFG_REGNAME_FENCE
    <2>1. /\ UNCHANGED <<gNodeMem, flash>>
          /\ reply' = [type |-> "ERASEMEM", result |-> "ACCESS_OUT_OF_BOUNDS"]
      BY <1>1 DEF EraseMemReq, Reply
    <2>. QED  BY <2>1 DEF MemInv, MemTypes, StoresHold, ReplyHolds
  <1>2. CASE ~(region >= HNCFG_REGNAME_FENCE)
    <2>. DEFINE segs  == RegionSegments(region)
                cells == UNION {Cells(segs[i], segs[i].Address, segs[i].Length) :
                                    i \in DOMAIN segs}
    <2>1. region \in Regions
      BY <1>2, Tables DEF HNCFG_REGNAME_FENCE
    <2>2. /\ gNodeMem' = [i \in DOMAIN gNodeMem |-> IF i \in cells THEN Erased ELSE gNodeMem[i]]
          /\ flash' = [x \in DOMAIN flash |->
                 IF x[1] = Store(region) THEN Erased ELSE flash[x]]
          /\ reply' = [type |-> "ERASEMEM", result |-> "OK"]
      BY <1>2 DEF EraseMemReq, Reply
    <2>3. \A x : x \in cells
                <=> \E s \in SegmentsOf(Store(region)) : x \in Cells(s, s.Address, s.Length)
      <3>1. segs = RegionSegments(Store(region))
        BY <2>1, Tables
      <3>. QED  BY <3>1 DEF SegmentsOf
    <2>. HIDE DEF cells, segs
    <2>4. Store(region) \in 0..3
      BY <2>1, Tables
    <2>5. MemTypes'
      BY <2>2 DEF MemInv, MemTypes
    <2>6. StoresHold'
      <3>. SUFFICES ASSUME NEW q \in 0..3, NEW t \in SegmentsOf(q), NEW a \in CellAddresses(t)
                    PROVE  gNodeMem'[CellAt(t, a)] = flash'[<<q, a>>]
        BY DEF StoresHold
      <3>1. CellAt(t, a) \in DOMAIN gNodeMem /\ <<q, a>> \in DOMAIN flash
        BY InDomains DEF MemInv
      <3>2. ASSUME NEW p \in 0..3, NEW s \in SegmentsOf(p)
            PROVE  CellAt(t, a) \in Cells(s, s.Address, s.Length)
                      <=> p = q /\ a \in s.Address..(s.Address + s.Length - 1)
        <4>1. Whole(s.Address) /\ Whole(s.Length)
          BY SegmentIsWhole
        <4>2. s.Address <= s.Address /\ s.Address + s.Length <= s.Address + s.Length
          BY <4>1 DEF Whole
        <4>. QED  BY <4>1, <4>2, RangeOfStore
      <3>3. a \in t.Address..(t.Address + t.Length - 1)
        BY AddressesOfSegment, SegmentIsWhole DEF Whole
      <3>4. CellAt(t, a) \in cells <=> q = Store(region)
        BY <2>3, <2>4, <3>2, <3>3
      <3>5. gNodeMem[CellAt(t, a)] = flash[<<q, a>>]
        BY DEF MemInv, StoresHold
      <3>. QED  BY <2>2, <3>1, <3>4, <3>5
    <2>7. ReplyHolds'
      BY <2>2 DEF ReplyHolds
    <2>. QED  BY <2>5, <2>6, <2>7 DEF MemInv
  <1>. QED  BY <1>1, <1>2

LEMMA ReadKeeps ==
    ASSUME MemInv, NEW region \in Nat, NEW address \in Addresses, NEW length \in Lengths,
           ReadMemReq(region, address, length)
    PROVE  MemInv'
  <1>. DEFINE access == check_memory_access(region, address, length)
              s == access.segment[1]
  <1>1. UNCHANGED <<gNodeMem, flash>>
    BY DEF ReadMemReq
  <1>2. CASE access.result # "OK"
    <2>1. reply' = [type |-> "READMEM", result |-> access.result]
      BY <1>2 DEF ReadMemReq, Reply
    <2>. HIDE DEF access
    <2>. QED  BY <1>1, <2>1 DEF MemInv, MemTypes, StoresHold, ReplyHolds
  <1>3. CASE access.result = "OK"
    <2>1. /\ region \in Regions /\ s \in SegmentsOf(region)
          /\ Whole(address) /\ Whole(length)
          /\ s.Address <= address /\ address + length <= s.Address + s.Length
      BY <1>3, Granted
    <2>2. reply' = [type |-> "DATA", region |-> region, address |-> address,
                    data |-> [i \in 0..(length \div CellSize - 1) |->
                                  gNodeMem[CellAt(s, address) + i]]]
      BY <1>3 DEF ReadMemReq
    <2>. HIDE DEF access, s
    <2>3. Store(region) \in 0..3 /\ s \in SegmentsOf(Store(region))
      BY <2>1, Tables
    <2>4. ASSUME NEW i \in 0..(length \div CellSize - 1)
          PROVE  gNodeMem[CellAt(s, address) + i]
                    = flash[<<Store(region), address + i * CellSize>>]
      <3>0. i \in Nat
        OBVIOUS
      <3>1. i * CellSize < length /\ i * CellSize \in Nat
        BY <2>1, <3>0, OffsetsBelow, MultipleIsWhole DEF Whole
      <3>2. Whole(address + i * CellSize)
        BY <2>1, <3>0, CellsAdd
      <3>3. Whole(s.Address) /\ Whole(s.Length) /\ Whole(s.DataPtr)
        BY <2>3, SegmentIsWhole
      <3>4. /\ s.Address <= address + i * CellSize
            /\ address + i * CellSize < s.Address + s.Length
        BY <2>1, <3>1, <3>3 DEF Whole
      <3>5. address + i * CellSize \in CellAddresses(s)
        BY <2>3, <3>2, <3>4, AddressesOfSegment
      <3>6. CellAt(s, address + i * CellSize) = CellAt(s, address) + i
        <4>1. Offset(s, address + i * CellSize) = Offset(s, address) + i * CellSize
          BY <2>1, <3>1, <3>3 DEF Offset, Whole
        <4>2. /\ Whole(Offset(s, address))
              /\ CellAt(s, address) = Offset(s, address) \div CellSize
              /\ CellAt(s, address + i * CellSize)
                     = Offset(s, address + i * CellSize) \div CellSize
          BY <2>1, <2>3, <3>2, <3>4, CellOfAddress
        <4>. QED  BY <3>0, <4>1, <4>2, CellsAdd
      <3>. QED  BY <2>3, <3>5, <3>6 DEF MemInv, StoresHold
    <2>5. ReplyHolds'
      BY <1>1, <2>2, <2>4 DEF ReplyHolds
    <2>. QED  BY <1>1, <2>5 DEF MemInv, MemTypes, StoresHold
  <1>. QED  BY <1>2, <1>3

LEMMA StepMemInv == MemInv /\ [MemNext]_memVars => MemInv'
  <1>. SUFFICES ASSUME MemInv, [MemNext]_memVars PROVE MemInv'
    OBVIOUS
  <1>1. CASE UNCHANGED memVars
    BY <1>1 DEF memVars, MemInv, MemTypes, StoresHold, ReplyHolds
  <1>2. CASE InfoReq
    <2>1. UNCHANGED <<gNodeMem, flash>> /\ reply'.type = "INFO"
      BY <1>2 DEF InfoReq
    <2>. QED  BY <2>1 DEF MemInv, MemTypes, StoresHold, ReplyHolds
  <1>3. ASSUME NEW region \in Nat, RegMapReq(region) PROVE MemInv'
    <2>1. UNCHANGED <<gNodeMem, flash>> /\ reply'.type # "DATA"
      BY <1>3 DEF RegMapReq, Reply
    <2>. QED  BY <2>1 DEF MemInv, MemTypes, StoresHold, ReplyHolds
  <1>4. 0..(HNCFG_REGNAME_FENCE + 1) \subseteq Nat
    BY DEF HNCFG_REGNAME_FENCE
  <1>. QED  BY <1>1, <1>2, <1>3, <1>4, EraseKeeps, ReadKeeps, WriteKeeps DEF MemNext

\* For every size of a cell and any requests: the regions never run into each other,
\* and a read reports what was last written or erased at its addresses
\* (hnode.c, gNodeRegionSegments, hnode_check_memory_access, hnode_config_rx).
THEOREM MemoryKeepsData == MemSpec => []RegionsKeepTheirData
  BY InitMemInv, StepMemInv, MemInvHolds, PTL DEF MemSpec
================================================================================
