--------------------------- MODULE PeersEnforcer ---------------------------
(***************************************************************************)
(* tools_geth_enforce_peers.go, the sidecar of the node that Bootstrapper  *)
(* starts: GethMonitor asks the node over its IPC socket who it is and who *)
(* it is connected to, GethPeersEnforcer asks the hosts it was given for   *)
(* their enodes and has the node add those it does not see connected.  The *)
(* two run in goroutines of their own and share GethNode; between them the *)
(* node restarts, loses peers, and its peers move.                         *)
(*                                                                         *)
(* An enode is an identity and an address.  The head of the chain, which   *)
(* the monitor keeps for its log, is left out.                             *)
(***************************************************************************)
EXTENDS Bootstrapper, Functions

CONSTANTS
    Nil,
    Peers,      \* identities of the other nodes behind the hosts
    Refused,    \* those whose enode the node's admin_addPeer refuses
    Addresses,  \* where peers may be
    MaxLosses   \* bound on the times a peer moves or a connection is dropped

ASSUME PeersAssumption ==
    /\ Peers \subseteq Nat /\ Peers \cap (0..(MaxWipes + 1)) = {}
    /\ Refused \subseteq Peers
    /\ MaxLosses \in Nat
    /\ Addresses # {}
    /\ Nil \notin [id: Nat, address: Addresses \cup {"container", "container host"}]

VARIABLES
    addressOf,       \* where each peer is
    connected,       \* enodes the node is connected to
    static,          \* enodes it was told to add, since it started
    enodeStr,        \* GethNode.enodeStr, Nil while it is empty
    connectedPeers,  \* GethNode.connectedPeers
    monitor,         \* "info" or "peers": the next call of GethMonitor.runOnce
    enforcer,        \* "wait", "resolve", "pick" or "send"
    wantedPeers,     \* enodes by identity
    picks,           \* wanted peers the round has still to come to
    candidate,       \* the enode being added
    losses

nodeVars == <<addressOf, connected, static, losses>>
monitorVars == <<enodeStr, connectedPeers, monitor>>
enforcerVars == <<enforcer, wantedPeers, picks, candidate>>
vars == <<bootVars, nodeVars, monitorVars, enforcerVars>>

PodInit ==
    /\ Init
    /\ addressOf = [p \in Peers |-> CHOOSE address \in Addresses : TRUE]
    /\ connected = {} /\ static = {} /\ losses = 0
    /\ enodeStr = Nil /\ connectedPeers = {} /\ monitor = "info"
    /\ enforcer = "wait" /\ wantedPeers = << >> /\ picks = {} /\ candidate = Nil

Up == process = "running"

Enode(id, address) == [id |-> id, address |-> address]

-----------------------------------------------------------------------------
(***************************************************************************)
(* The node and its peers.  It dials every enode it was given, as long as  *)
(* it runs; a restart forgets them.                                        *)
(***************************************************************************)
Reader ==
    /\ BootNext
    /\ connected' = (IF Up' THEN connected ELSE {})
    /\ static' = (IF Up' THEN static ELSE {})
    /\ UNCHANGED <<addressOf, losses, monitorVars, enforcerVars>>

Connect(e) ==
    /\ Up /\ e \in static /\ e.id \in Peers /\ addressOf[e.id] = e.address
    /\ connected' = connected \cup {e}
    /\ UNCHANGED <<bootVars, addressOf, static, losses, monitorVars, enforcerVars>>

Drop(e) ==
    /\ e \in connected /\ losses < MaxLosses
    /\ connected' = connected \ {e} /\ losses' = losses + 1
    /\ UNCHANGED <<bootVars, addressOf, static, monitorVars, enforcerVars>>

\* A peer comes back at another address.
Move(p, address) ==
    /\ addressOf[p] # address /\ losses < MaxLosses
    /\ addressOf' = [addressOf EXCEPT ![p] = address] /\ losses' = losses + 1
    /\ connected' = {e \in connected : e.id # p}
    /\ UNCHANGED <<bootVars, static, monitorVars, enforcerVars>>

-----------------------------------------------------------------------------
(***************************************************************************)
(* GethMonitor.runOnce.                                                    *)
(***************************************************************************)
\* setEnodeStr puts the address of the container in the enode; without one, or with
\* an answer without an enode, the old value stays, and the error is not looked at.
NodeInfo ==
    /\ monitor = "info" /\ Up
    /\ \/ enodeStr' = Enode(identity, "container") /\ UNCHANGED bootVars
       \/ UNCHANGED enodeStr /\ OtherFault
    /\ monitor' = "peers"
    /\ UNCHANGED <<nodeVars, connectedPeers, enforcerVars>>

RecordedPeersMutant == connectedPeers \cup connected
RecordedPeers == connected

AdminPeers ==
    /\ monitor = "peers" /\ Up
    /\ connectedPeers' = RecordedPeers
    /\ monitor' = "info"
    /\ UNCHANGED <<bootVars, nodeVars, enodeStr, enforcerVars>>

\* No answer on the socket, or an error of it while the node runs: the round is given
\* up.
MonitorFails ==
    /\ \/ ~Up /\ monitor = "peers" /\ UNCHANGED bootVars
       \/ Up /\ OtherFault
    /\ monitor' = "info"
    /\ UNCHANGED <<nodeVars, enodeStr, connectedPeers, enforcerVars>>

-----------------------------------------------------------------------------
(***************************************************************************)
(* GethPeersEnforcer.runOnce.                                              *)
(***************************************************************************)
\* It waits for a first enode of the node: mustIgnorePeer slices it.
KnowsItself == enodeStr # Nil

BeginRound ==
    /\ enforcer = "wait" /\ KnowsItself
    /\ enforcer' = "resolve"
    /\ UNCHANGED <<bootVars, nodeVars, monitorVars, wantedPeers, picks, candidate>>

\* What the hosts answer: each peer its enode, and the node, which may be behind the
\* same hosts, its own.
Answers ==
    {Enode(p, addressOf[p]) : p \in Peers} \cup
    (IF Up THEN {Enode(identity, "container host")} ELSE {})

\* getEnodesFromPeers for every host: a host that is not resolved, or an address
\* that does not answer, adds nothing; what is in wantedPeers is never removed.
Resolve ==
    /\ enforcer = "resolve"
    /\ \E enodes \in SUBSET Answers :
           /\ IF enodes = Answers THEN UNCHANGED bootVars
              ELSE OtherFault
           /\ wantedPeers' =
                  [id \in DOMAIN wantedPeers \cup {e.id : e \in enodes} |->
                      IF \E e \in enodes : e.id = id
                      THEN CHOOSE e \in enodes : e.id = id ELSE wantedPeers[id]]
    /\ picks' = DOMAIN wantedPeers'
    /\ enforcer' = "pick"
    /\ UNCHANGED <<nodeVars, monitorVars, candidate>>

\* The node itself, told by its identity alone; a peer that is connected, told by
\* its whole enode.
MustIgnorePeerMutant(e) == e = enodeStr \/ e \in connectedPeers
MustIgnorePeer(e) == e.id = enodeStr.id \/ e \in connectedPeers

\* The order of the map is random.
PickPeer(id) ==
    /\ enforcer = "pick" /\ id \in picks
    /\ picks' = picks \ {id}
    /\ IF MustIgnorePeer(wantedPeers[id]) THEN UNCHANGED <<enforcer, candidate>>
       ELSE enforcer' = "send" /\ candidate' = wantedPeers[id]
    /\ UNCHANGED <<bootVars, nodeVars, monitorVars, wantedPeers>>

\* admin_addPeer, without the lock under which the peer was looked up.
AddPeer ==
    /\ enforcer = "send" /\ Up /\ candidate.id \notin Refused
    /\ static' = static \cup {candidate}
    /\ enforcer' = "pick" /\ candidate' = Nil
    /\ UNCHANGED <<bootVars, addressOf, connected, losses, monitorVars, wantedPeers,
                   picks>>

\* The first error ends the round: the node is down, it refuses the peer, or the socket
\* fails before the node has taken the command or after it.
AddPeerFails ==
    /\ enforcer = "send"
    /\ \/ (~Up \/ candidate.id \in Refused) /\ UNCHANGED <<bootVars, static>>
       \/ OtherFault /\ UNCHANGED static
       \/ Up /\ candidate.id \notin Refused /\ OtherFault /\ static' = static \cup {candidate}
    /\ enforcer' = "wait" /\ candidate' = Nil /\ picks' = {}
    /\ UNCHANGED <<addressOf, connected, losses, monitorVars, wantedPeers>>

EndRound ==
    /\ enforcer = "pick" /\ picks = {} /\ enforcer' = "wait"
    /\ UNCHANGED <<bootVars, nodeVars, monitorVars, wantedPeers, picks, candidate>>

-----------------------------------------------------------------------------
MonitorStep == NodeInfo \/ AdminPeers \/ MonitorFails

EnforcerStep ==
    \/ BeginRound \/ Resolve \/ AddPeer \/ AddPeerFails \/ EndRound
    \/ \E id \in Peers \cup 1..(MaxWipes + 1) : PickPeer(id)

Next ==
    \/ Reader
    \/ \E e \in static : Connect(e)
    \/ \E e \in connected : Drop(e)
    \/ \E p \in Peers, address \in Addresses : Move(p, address)
    \/ MonitorStep \/ EnforcerStep

\* The reader is started again whenever it ends; the sidecar's loops go on; the node
\* dials.  The order of a Go map is random on every round, so that no wanted peer
\* stays behind another for ever.
Fairness ==
    /\ WF_vars(Reader /\ Bootstrap)
    /\ WF_vars(MonitorStep) /\ WF_vars(EnforcerStep)
    /\ \A p \in Peers : SF_vars(PickPeer(p))
    /\ \A p \in Peers, address \in Addresses : WF_vars(Connect(Enode(p, address)))

Spec == PodInit /\ [][Next]_vars /\ Fairness

-----------------------------------------------------------------------------
Known == [id: Nat, address: Addresses \cup {"container", "container host"}]

TypeOK ==
    /\ BootTypeOK
    /\ addressOf \in [Peers -> Addresses]
    /\ connected \subseteq static /\ static \subseteq Known
    /\ enodeStr \in Known \cup {Nil} /\ connectedPeers \subseteq Known
    /\ monitor \in {"info", "peers"} /\ enforcer \in {"wait", "resolve", "pick", "send"}
    /\ \A id \in DOMAIN wantedPeers : wantedPeers[id] \in Known /\ wantedPeers[id].id = id
    /\ picks \subseteq DOMAIN wantedPeers
    /\ enforcer = "send" <=> candidate # Nil
    /\ enforcer # "wait" => enodeStr # Nil

\* The node is never told to dial itself, though its own enode is among the answers
\* of the hosts, with another address: not as long as its data directory, and so its
\* identity, is kept, across any number of restarts.
NeverDialsItself ==
    wipes = 0 => \A e \in static : e.id # identity

\* The node is started again and again after failures of disk, network and commands
\* and after kills, and runs in the end.
NodeGetsStarted == []<>Up

\* Every wanted peer that the node accepts gets connected again, however often the
\* node restarts, connections drop and peers move, and although one peer that is
\* refused ends the round of all.
PeersGetConnected ==
    \A p \in Peers \ Refused : []<>(\E e \in connected : e.id = p)
=============================================================================
