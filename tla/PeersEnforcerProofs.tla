------------------------ MODULE PeersEnforcerProofs ------------------------
(***************************************************************************)
(* Proofs about Bootstrapper, for any lists of arguments: its types, the   *)
(* chain the node runs on, and that init spares a directory that was used. *)
(* Then about PeersEnforcer, for any peers and addresses: the pod's reader *)
(* behaves as Bootstrapper says, so that its theorems hold in the pod, and *)
(* the node is never told to dial itself.  None of it needs a bound on     *)
(* kills, faults, wipes or moves.                                          *)
(***************************************************************************)
EXTENDS PeersEnforcer, WellFoundedInduction, TLAPS

-----------------------------------------------------------------------------
(***************************************************************************)
(* The arguments.                                                          *)
(***************************************************************************)
\* A set of naturals has a least element.
LEMMA LeastElement ==
    ASSUME NEW S \in SUBSET Nat, S # {}
    PROVE  Min(S) \in S /\ \A j \in S : Min(S) <= j
<1>1. PICK k \in S : \A j \in S : <<j, k>> \notin OpToRel(<, Nat)
  BY WFMin, NatLessThanWellFounded, Zenon
<1>2. \A j \in S : ~(j < k)
  BY <1>1, Zenon DEF OpToRel
<1>3. \A j \in S : k <= j
  BY <1>2
<1> QED BY <1>3 DEF Min

\* findDataDirArgument gives init the directory of the node, unless a flag that only
\* begins with --datadir comes first.
LEMMA InitFindsDirectory ==
    ASSUME NEW args \in ArgumentLists, ~AncientFirst(args)
    PROVE  InitDirectory(args) = NodeDirectory(args)
<1> DEFINE found == {i \in 1..Len(args) : args[i] \in LooksLikeDataDir}
           first == Min(found)
<1>1. /\ args \in Seq(STRING)
      /\ \A i \in 1..Len(args) : args[i] = "--datadir" => i < Len(args) /\ args[i+1] = "D"
  BY BootstrapperAssumption
<1>2. CASE found = {}
  <2>1. \A i \in 1..Len(args) : args[i] \notin LooksLikeDataDir
    BY <1>2
  <2>2. \A i \in 1..Len(args) : args[i] # "--datadir=D" /\ args[i] # "--datadir"
    BY <2>1 DEF LooksLikeDataDir
  <2>3. \A i \in 1..Len(args) : i > 1 => args[i-1] # "--datadir"
    BY <2>2
  <2>4. NodeDirectory(args) = "default"
    BY <2>2, <2>3 DEF NodeDirectory
  <2> QED BY <2>4, <1>2 DEF InitDirectory
<1>3. CASE found # {}
  <2>1. /\ first \in 1..Len(args) /\ args[first] \in LooksLikeDataDir
        /\ \A j \in found : first <= j
    <3>1. found \in SUBSET Nat
      BY <1>1
    <3>2. first \in found /\ \A j \in found : first <= j
      BY <3>1, <1>3, LeastElement
    <3> QED BY <3>2
  <2>2. \A j \in 1..(first - 1) : args[j] \notin LooksLikeDataDir
    BY <2>1
  <2>3. args[first] # "--datadir.ancient=A"
    BY <2>1, <2>2 DEF AncientFirst
  <2>4. CASE args[first] = "--datadir=D"
    <3>1. InitDirectory(args) = "D"
      BY <1>3, <2>4 DEF InitDirectory
    <3>2. NodeDirectory(args) = "D"
      BY <2>1, <2>4 DEF NodeDirectory
    <3> QED BY <3>1, <3>2
  <2>5. CASE args[first] = "--datadir"
    <3>1. first < Len(args) /\ args[first + 1] = "D"
      BY <1>1, <2>1, <2>5
    <3>2. InitDirectory(args) = "D"
      BY <1>3, <2>5, <3>1 DEF InitDirectory
    <3>3. /\ first + 1 \in 1..Len(args) /\ first + 1 > 1
          /\ args[(first + 1) - 1] = "--datadir" /\ args[first + 1] = "D"
      BY <1>1, <2>1, <2>5, <3>1
    <3>4. NodeDirectory(args) = "D"
      BY <3>3 DEF NodeDirectory
    <3> QED BY <3>2, <3>4
  <2> QED BY <2>1, <2>3, <2>4, <2>5 DEF LooksLikeDataDir
<1> QED BY <1>2, <1>3

-----------------------------------------------------------------------------
(***************************************************************************)
(* The types.                                                              *)
(***************************************************************************)
LEMMA Bounds == MaxStops \in Nat /\ MaxFaults \in Nat /\ MaxWipes \in Nat
BY BootstrapperAssumption

\* Every variable of the bootstrap keeps its type.
THEOREM BootTypeCorrect == BootSpec => []BootTypeOK
<1>1. Init => BootTypeOK
  <2> SUFFICES ASSUME Init PROVE BootTypeOK
    OBVIOUS
  <2>1. interrupted \in BOOLEAN /\ unread \in BOOLEAN
    BY Zenon DEF Init
  <2>2. identity \in 0..(MaxWipes + 1) /\ database \in {"none", "begun", "ours", "default"}
    BY Bounds DEF Init
  <2>3. stops \in 0..MaxStops /\ faults \in 0..MaxFaults /\ wipes \in 0..MaxWipes
    BY Bounds DEF Init
  <2> QED BY <2>1, <2>2, <2>3 DEF Init, BootTypeOK
<1>2. BootTypeOK /\ [BootNext \/ OtherFault]_bootVars => BootTypeOK'
  <2> SUFFICES ASSUME BootTypeOK, [BootNext \/ OtherFault]_bootVars PROVE BootTypeOK'
    OBVIOUS
  <2> USE Bounds DEF BootTypeOK
  <2>1. CASE Launch
    BY <2>1 DEF Launch, directoryVars
  <2>2. CASE SkipBootstrap
    BY <2>2 DEF SkipBootstrap, directoryVars
  <2>3. CASE BeginBootstrap
    <3>1. unread' \in BOOLEAN
      BY <2>3, Zenon DEF BeginBootstrap
    <3>2. faults' \in 0..MaxFaults
      BY <2>3 DEF BeginBootstrap, Fault
    <3>3. process' \in {"download", "init"}
      BY <2>3 DEF BeginBootstrap
    <3>4. UNCHANGED <<directoryVars, stops, interrupted>>
      BY <2>3 DEF BeginBootstrap
    <3> QED BY <3>1, <3>2, <3>3, <3>4 DEF directoryVars
  <2>4. CASE DownloadFails
    BY <2>4 DEF DownloadFails, Fault, Abort, directoryVars
  <2>5. CASE CreateGenesisFile
    BY <2>5 DEF CreateGenesisFile
  <2>6. CASE WriteGenesisFile
    BY <2>6 DEF WriteGenesisFile
  <2>7. CASE WriteFails
    BY <2>7 DEF WriteFails, Fault, Abort, directoryVars
  <2>8. CASE BeginInit
    BY <2>8 DEF BeginInit
  <2>9. CASE EndInit
    BY <2>9 DEF EndInit
  <2>10. CASE InitFails
    BY <2>10 DEF InitFails, Fault, Abort, directoryVars
  <2>11. CASE StartNode
    BY <2>11 DEF StartNode
  <2>12. CASE Kill
    BY <2>12 DEF Kill, directoryVars
  <2>13. CASE Wipe
    <3>1. interrupted' \in BOOLEAN
      BY <2>13, Zenon DEF Wipe
    <3>2. wipes' \in 0..MaxWipes
      BY <2>13 DEF Wipe
    <3> QED BY <2>13, <3>1, <3>2 DEF Wipe
  <2>14. CASE UNCHANGED bootVars
    BY <2>14 DEF bootVars, directoryVars
  <2>15. CASE OtherFault
    BY <2>15 DEF OtherFault, Fault, directoryVars
  <2> QED BY <2>1, <2>2, <2>3, <2>4, <2>5, <2>6, <2>7, <2>8, <2>9, <2>10, <2>11, <2>12,
             <2>13, <2>14, <2>15 DEF BootNext, Bootstrap
<1> QED BY <1>1, <1>2, PTL DEF BootSpec

-----------------------------------------------------------------------------
(***************************************************************************)
(* The directory.                                                          *)
(***************************************************************************)
\* What the directory of a bootstrap that was never interrupted holds at each step.
DirectoryInv ==
    (~interrupted /\ InitFindsNode) =>
        /\ process \in {"down", "check"} =>
               database = "ours" \/ (database = "none" /\ genesis = "none")
        /\ process = "download" => genesis = "none" /\ database \in {"none", "ours"}
        /\ process \in {"write", "init"} =>
               genesis # "none" /\ database \in {"none", "ours"}
        /\ process = "initialising" => genesis # "none" /\ database \in {"begun", "ours"}
        /\ process \in {"start", "running"} => database = "ours"

\* A directory without a database has no identity, and is initialised only if it was
\* found to be empty, or not to be readable.
IdentityInv ==
    /\ database = "none" => identity = 0
    /\ process \in {"download", "write", "init", "initialising"} => identity = 0 \/ unread

LEMMA DirectoryStep ==
    ASSUME BootTypeOK, DirectoryInv, [BootNext \/ OtherFault]_bootVars
    PROVE  DirectoryInv'
<1> USE DEF BootTypeOK, DirectoryInv
<1>1. CASE Launch
  BY <1>1 DEF Launch, directoryVars, InitFindsNode
<1>2. CASE SkipBootstrap
  BY <1>2 DEF SkipBootstrap, IsBootstrapped, directoryVars, InitFindsNode
<1>3. CASE BeginBootstrap
  BY <1>3 DEF BeginBootstrap, IsBootstrapped, directoryVars, InitFindsNode
<1>4. CASE DownloadFails
  BY <1>4 DEF DownloadFails, Abort, directoryVars, InitFindsNode
<1>5. CASE CreateGenesisFile
  BY <1>5 DEF CreateGenesisFile, InitFindsNode
<1>6. CASE WriteGenesisFile
  BY <1>6 DEF WriteGenesisFile, InitFindsNode
<1>7. CASE WriteFails
  BY <1>7 DEF WriteFails, Abort, directoryVars, InitFindsNode
<1>8. CASE BeginInit
  BY <1>8 DEF BeginInit, InitFindsNode
<1>9. CASE EndInit
  BY <1>9 DEF EndInit, InitFindsNode
<1>10. CASE InitFails
  BY <1>10 DEF InitFails, Abort, directoryVars, InitFindsNode
<1>11. CASE StartNode
  BY <1>11 DEF StartNode, InitFindsNode
<1>12. CASE Kill
  BY <1>12 DEF Kill, directoryVars, InitFindsNode
<1>13. CASE Wipe
  BY <1>13 DEF Wipe, InitFindsNode
<1>14. CASE UNCHANGED bootVars
  BY <1>14 DEF bootVars, directoryVars, InitFindsNode
<1>15. CASE OtherFault
  BY <1>15 DEF OtherFault, directoryVars, InitFindsNode
<1> QED BY <1>1, <1>2, <1>3, <1>4, <1>5, <1>6, <1>7, <1>8, <1>9, <1>10, <1>11, <1>12,
           <1>13, <1>14, <1>15 DEF BootNext, Bootstrap

\* The node runs on the chain of the genesis file, unless a bootstrap of its directory
\* was interrupted or a flag that only begins with --datadir comes first.
THEOREM NodeOnItsGenesis == BootSpec => []NodeRunsOnItsGenesis
<1>1. Init => DirectoryInv
  BY DEF Init, DirectoryInv
<1>2. BootTypeOK /\ DirectoryInv /\ [BootNext \/ OtherFault]_bootVars => DirectoryInv'
  BY DirectoryStep
<1>3. BootTypeOK /\ DirectoryInv => NodeRunsOnItsGenesis
  BY InitFindsDirectory
     DEF BootTypeOK, DirectoryInv, NodeRunsOnItsGenesis, InitFindsNode
<1> QED BY <1>1, <1>2, <1>3, BootTypeCorrect, PTL DEF BootSpec

LEMMA IdentityStep ==
    ASSUME BootTypeOK, IdentityInv, [BootNext \/ OtherFault]_bootVars
    PROVE  IdentityInv'
<1> USE DEF BootTypeOK, IdentityInv
<1>1. CASE Launch
  BY <1>1 DEF Launch, directoryVars
<1>2. CASE SkipBootstrap
  BY <1>2 DEF SkipBootstrap, directoryVars
<1>3. CASE BeginBootstrap
  BY <1>3 DEF BeginBootstrap, IsBootstrapped, directoryVars
<1>4. CASE DownloadFails
  BY <1>4 DEF DownloadFails, Abort, directoryVars
<1>5. CASE CreateGenesisFile
  BY <1>5 DEF CreateGenesisFile
<1>6. CASE WriteGenesisFile
  BY <1>6 DEF WriteGenesisFile
<1>7. CASE WriteFails
  BY <1>7 DEF WriteFails, Abort, directoryVars
<1>8. CASE BeginInit
  BY <1>8 DEF BeginInit
<1>9. CASE EndInit
  BY <1>9 DEF EndInit
<1>10. CASE InitFails
  BY <1>10 DEF InitFails, Abort, directoryVars
<1>11. CASE StartNode
  BY <1>11 DEF StartNode
<1>12. CASE Kill
  BY <1>12 DEF Kill, directoryVars
<1>13. CASE Wipe
  BY <1>13 DEF Wipe
<1>14. CASE UNCHANGED bootVars
  BY <1>14 DEF bootVars, directoryVars
<1>15. CASE OtherFault
  BY <1>15 DEF OtherFault, directoryVars
<1> QED BY <1>1, <1>2, <1>3, <1>4, <1>5, <1>6, <1>7, <1>8, <1>9, <1>10, <1>11, <1>12,
           <1>13, <1>14, <1>15 DEF BootNext, Bootstrap

\* init is never run on a directory that a node used, unless the directory could not
\* be read.
THEOREM InitSparesUsedDirectories == BootSpec => []InitOnFreshDirectory
<1>1. Init => IdentityInv
  BY DEF Init, IdentityInv
<1>2. BootTypeOK /\ IdentityInv /\ [BootNext \/ OtherFault]_bootVars => IdentityInv'
  BY IdentityStep
<1>3. IdentityInv => InitOnFreshDirectory
  BY DEF IdentityInv, InitOnFreshDirectory
<1> QED BY <1>1, <1>2, <1>3, BootTypeCorrect, PTL DEF BootSpec

-----------------------------------------------------------------------------
(***************************************************************************)
(* The pod and its bootstrap.                                              *)
(***************************************************************************)
\* Every step of the pod is one of the bootstrap, a failure of something else, or
\* leaves the bootstrap alone.
LEMMA PodStep ==
    ASSUME [Next]_vars
    PROVE  [BootNext \/ OtherFault]_bootVars
<1>1. CASE Reader
  BY <1>1 DEF Reader
<1>2. CASE \E e \in static : Connect(e)
  BY <1>2 DEF Connect
<1>3. CASE \E e \in connected : Drop(e)
  BY <1>3 DEF Drop
<1>4. CASE \E p \in Peers, address \in Addresses : Move(p, address)
  BY <1>4 DEF Move
<1>5. CASE NodeInfo
  BY <1>5 DEF NodeInfo
<1>6. CASE AdminPeers \/ MonitorFails
  BY <1>6 DEF AdminPeers, MonitorFails
<1>7. CASE Resolve
  BY <1>7 DEF Resolve
<1>8. CASE BeginRound \/ AddPeer \/ AddPeerFails \/ EndRound
  BY <1>8 DEF BeginRound, AddPeer, AddPeerFails, EndRound
<1>9. CASE \E id \in Peers \cup 1..(MaxWipes + 1) : PickPeer(id)
  BY <1>9 DEF PickPeer
<1>10. CASE UNCHANGED vars
  BY <1>10 DEF vars
<1> QED BY <1>1, <1>2, <1>3, <1>4, <1>5, <1>6, <1>7, <1>8, <1>9, <1>10
        DEF Next, MonitorStep, EnforcerStep

\* The pod implements the bootstrap.
THEOREM PodImplementsBootstrap == Spec => BootSpec
<1>1. PodInit => Init
  BY DEF PodInit
<1>2. [Next]_vars => [BootNext \/ OtherFault]_bootVars
  BY PodStep
<1> QED BY <1>1, <1>2, PTL DEF Spec, BootSpec

\* In the pod, the node runs on the chain of the genesis file, unless a bootstrap of
\* its directory was interrupted or a flag that only begins with --datadir comes first.
THEOREM PodOnItsGenesis == Spec => []NodeRunsOnItsGenesis
BY PodImplementsBootstrap, NodeOnItsGenesis, PTL

\* In the pod, init is never run on a directory that a node used, unless the
\* directory could not be read.
THEOREM PodSparesUsedDirectories == Spec => []InitOnFreshDirectory
BY PodImplementsBootstrap, InitSparesUsedDirectories, PTL

-----------------------------------------------------------------------------
(***************************************************************************)
(* The node and itself.                                                    *)
(***************************************************************************)
\* Until the directory is first emptied, the enode that the sidecar keeps is the
\* node's own, at every moment of every restart: what it compares the answers of the
\* hosts with is never out of date.
SelfInv ==
    /\ ~Up => static = {}
    /\ Up => identity # 0
    /\ enforcer # "wait" => enodeStr # Nil
    /\ \A id \in DOMAIN wantedPeers : wantedPeers[id].id = id
    /\ picks \subseteq DOMAIN wantedPeers
    /\ wipes = 0 =>
           /\ enodeStr # Nil => enodeStr.id = identity /\ identity # 0
           /\ enforcer = "send" => candidate.id # identity
           /\ \A e \in static : e.id # identity

LEMMA EnodeIsNotNil == ASSUME NEW id \in Nat PROVE Enode(id, "container") # Nil
<1>1. Enode(id, "container") \in
          [id: Nat, address: Addresses \cup {"container", "container host"}]
  BY DEF Enode
<1> QED BY <1>1, PeersAssumption

\* The reader gives the node its identity once, and takes it only with the directory.
LEMMA IdentityIsKept ==
    ASSUME BootTypeOK, Up => identity # 0, BootNext, wipes' = 0
    PROVE  /\ wipes = 0
           /\ identity # 0 => identity' = identity
           /\ Up' => identity' # 0
           /\ identity' = identity \/ ~Up
<1> USE DEF Up
<1>1. CASE StartNode
  BY <1>1 DEF StartNode, BootTypeOK
<1>2. CASE Wipe
  BY <1>2 DEF Wipe, BootTypeOK
<1>3. CASE Launch \/ SkipBootstrap \/ BeginBootstrap
  BY <1>3 DEF Launch, SkipBootstrap, BeginBootstrap, directoryVars
<1>4. CASE DownloadFails \/ WriteFails \/ InitFails \/ Kill
  BY <1>4 DEF DownloadFails, WriteFails, InitFails, Kill, Abort, directoryVars
<1>5. CASE CreateGenesisFile \/ WriteGenesisFile \/ BeginInit \/ EndInit
  BY <1>5 DEF CreateGenesisFile, WriteGenesisFile, BeginInit, EndInit
<1> QED BY <1>1, <1>2, <1>3, <1>4, <1>5 DEF BootNext, Bootstrap

LEMMA UpHasIdentity ==
    ASSUME BootTypeOK, Up => identity # 0, BootNext
    PROVE  Up' => identity' # 0
<1> USE DEF Up
<1>1. CASE StartNode
  BY <1>1 DEF StartNode, BootTypeOK
<1>2. CASE Wipe
  BY <1>2 DEF Wipe
<1>3. CASE Launch \/ SkipBootstrap \/ BeginBootstrap
  BY <1>3 DEF Launch, SkipBootstrap, BeginBootstrap, directoryVars
<1>4. CASE DownloadFails \/ WriteFails \/ InitFails \/ Kill
  BY <1>4 DEF DownloadFails, WriteFails, InitFails, Kill, Abort, directoryVars
<1>5. CASE CreateGenesisFile \/ WriteGenesisFile \/ BeginInit \/ EndInit
  BY <1>5 DEF CreateGenesisFile, WriteGenesisFile, BeginInit, EndInit
<1> QED BY <1>1, <1>2, <1>3, <1>4, <1>5 DEF BootNext, Bootstrap

LEMMA SelfStep ==
    ASSUME BootTypeOK, SelfInv, [Next]_vars
    PROVE  SelfInv'
<1> USE DEF SelfInv
<1>1. CASE Reader
  <2>1. Up' => identity' # 0
    BY <1>1, UpHasIdentity DEF Reader
  <2>2. ~Up' => static' = {}
    BY <1>1 DEF Reader
  <2>3. UNCHANGED <<enforcer, enodeStr, wantedPeers, picks, candidate>>
    BY <1>1 DEF Reader, monitorVars, enforcerVars
  <2>4. ASSUME wipes' = 0
        PROVE  /\ enodeStr' # Nil => enodeStr'.id = identity' /\ identity' # 0
               /\ enforcer' = "send" => candidate'.id # identity'
               /\ \A e \in static' : e.id # identity'
    <3>1. /\ wipes = 0
          /\ identity # 0 => identity' = identity
          /\ identity' = identity \/ ~Up
      BY <1>1, <2>4, IdentityIsKept DEF Reader
    <3>2. static' \subseteq static
      BY <1>1 DEF Reader
    <3> QED BY <2>3, <3>1, <3>2
  <2> QED BY <2>1, <2>2, <2>3, <2>4
<1>2. CASE \E e \in static : Connect(e)
  BY <1>2 DEF Connect, monitorVars, enforcerVars, bootVars, directoryVars, Up
<1>3. CASE \E e \in connected : Drop(e)
  BY <1>3 DEF Drop, monitorVars, enforcerVars, bootVars, directoryVars, Up
<1>4. CASE \E p \in Peers, address \in Addresses : Move(p, address)
  BY <1>4 DEF Move, monitorVars, enforcerVars, bootVars, directoryVars, Up
<1>5. CASE NodeInfo
  <2>1. UNCHANGED <<identity, wipes, process, static, enforcer, wantedPeers, picks,
                    candidate>>
    BY <1>5 DEF NodeInfo, OtherFault, bootVars, directoryVars, nodeVars, enforcerVars
  <2>2. \/ enodeStr' = enodeStr
        \/ enodeStr' # Nil /\ enodeStr'.id = identity
    <3>1. identity \in Nat
      BY Bounds DEF BootTypeOK
    <3>2. Enode(identity, "container") # Nil
      BY <3>1, EnodeIsNotNil
    <3> QED BY <1>5, <3>2 DEF NodeInfo, Enode
  <2>3. identity # 0
    BY <1>5 DEF NodeInfo
  <2> QED BY <2>1, <2>2, <2>3 DEF Up
<1>6. CASE AdminPeers \/ MonitorFails
  BY <1>6 DEF AdminPeers, MonitorFails, OtherFault, nodeVars, enforcerVars, bootVars,
              directoryVars, Up
<1>7. CASE Resolve
  <2>1. UNCHANGED <<identity, wipes, process, static, enodeStr, candidate>>
    BY <1>7 DEF Resolve, OtherFault, bootVars, directoryVars, nodeVars, monitorVars
  <2>2. enforcer = "resolve" /\ enforcer' = "pick" /\ picks' = DOMAIN wantedPeers'
    BY <1>7 DEF Resolve
  <2>3. \A id \in DOMAIN wantedPeers' : wantedPeers'[id].id = id
    <3>1. PICK enodes \in SUBSET Answers :
              wantedPeers' =
                  [id \in DOMAIN wantedPeers \cup {e.id : e \in enodes} |->
                      IF \E e \in enodes : e.id = id
                      THEN CHOOSE e \in enodes : e.id = id ELSE wantedPeers[id]]
      BY <1>7 DEF Resolve
    <3> SUFFICES ASSUME NEW id \in DOMAIN wantedPeers' PROVE wantedPeers'[id].id = id
      OBVIOUS
    <3>2. CASE \E e \in enodes : e.id = id
      <4>1. wantedPeers'[id] = CHOOSE e \in enodes : e.id = id
        BY <3>1, <3>2
      <4> QED BY <3>2, <4>1
    <3>3. CASE ~\E e \in enodes : e.id = id
      <4>1. id \in DOMAIN wantedPeers /\ wantedPeers'[id] = wantedPeers[id]
        BY <3>1, <3>3
      <4> QED BY <4>1
    <3> QED BY <3>2, <3>3
  <2> QED BY <2>1, <2>2, <2>3 DEF Up
<1>8. CASE BeginRound
  BY <1>8 DEF BeginRound, KnowsItself, nodeVars, monitorVars, bootVars, directoryVars, Up
<1>9. CASE \E id \in Peers \cup 1..(MaxWipes + 1) : PickPeer(id)
  <2>1. PICK id \in picks :
            /\ enforcer = "pick" /\ picks' = picks \ {id}
            /\ IF MustIgnorePeer(wantedPeers[id]) THEN UNCHANGED <<enforcer, candidate>>
               ELSE enforcer' = "send" /\ candidate' = wantedPeers[id]
            /\ UNCHANGED <<bootVars, nodeVars, monitorVars, wantedPeers>>
    BY <1>9 DEF PickPeer
  <2>2. UNCHANGED <<identity, wipes, process, static, enodeStr, wantedPeers>>
    BY <2>1 DEF bootVars, directoryVars, nodeVars, monitorVars
  <2>3. enodeStr # Nil
    BY <2>1
  <2>4. CASE MustIgnorePeer(wantedPeers[id])
    BY <2>1, <2>2, <2>4 DEF Up
  <2>5. CASE ~MustIgnorePeer(wantedPeers[id])
    <3>1. enforcer' = "send" /\ candidate'.id # enodeStr.id
      BY <2>1, <2>5 DEF MustIgnorePeer
    <3> QED BY <2>1, <2>2, <2>3, <3>1 DEF Up
  <2> QED BY <2>4, <2>5
<1>10. CASE AddPeer
  BY <1>10 DEF AddPeer, monitorVars, bootVars, directoryVars, Up
<1>11. CASE AddPeerFails
  <2>1. /\ UNCHANGED <<identity, wipes, process, enodeStr, wantedPeers>>
        /\ static' = static \/ (Up /\ static' = static \cup {candidate})
        /\ enforcer = "send" /\ enforcer' = "wait" /\ picks' = {}
    BY <1>11 DEF AddPeerFails, OtherFault, monitorVars, bootVars, directoryVars
  <2> QED BY <2>1 DEF Up
<1>12. CASE EndRound
  BY <1>12 DEF EndRound, nodeVars, monitorVars, bootVars, directoryVars, Up
<1>13. CASE UNCHANGED vars
  BY <1>13 DEF vars, nodeVars, monitorVars, enforcerVars, bootVars, directoryVars, Up
<1> QED BY <1>1, <1>2, <1>3, <1>4, <1>5, <1>6, <1>7, <1>8, <1>9, <1>10, <1>11, <1>12,
           <1>13 DEF Next, MonitorStep, EnforcerStep

\* As long as the data directory is kept, the node is never told to dial itself,
\* whatever the hosts answer and however often it restarts.
THEOREM NodeNeverDialsItself == Spec => []NeverDialsItself
<1>1. PodInit => SelfInv
  BY DEF PodInit, Init, SelfInv, Up
<1>2. BootTypeOK /\ SelfInv /\ [Next]_vars => SelfInv'
  BY SelfStep
<1>3. SelfInv => NeverDialsItself
  BY DEF SelfInv, NeverDialsItself
<1>4. Spec => []BootTypeOK
  BY PodImplementsBootstrap, BootTypeCorrect, PTL
<1> QED BY <1>1, <1>2, <1>3, <1>4, PTL DEF Spec
=============================================================================
