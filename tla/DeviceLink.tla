----------------------------- MODULE DeviceLink -----------------------------
(***************************************************************************)
(* The phone as the signer of hosted Lightning nodes (ambra_core/src/api/  *)
(* signer.rs and the app's seqln_signer.dart, lightning_service.dart): the *)
(* keys of a node from the wallet's seed, the Noise handshake the phone    *)
(* begins, and the loop that answers the host's requests, which reach it   *)
(* as a stream of records cut anywhere.  One node's link at a time; a new  *)
(* link is a new session.                                                  *)
(*                                                                         *)
(* A record is a header and a body; a request is two units of plaintext,   *)
(* its length and what it asks.  Cryptography is abstracted to who holds   *)
(* which key.                                                              *)
(***************************************************************************)
EXTENDS Integers, Sequences

CONSTANTS
    Assets,     \* assets with a provisioned node
    AssetIndex, \* asset_path_index: a 31-bit fold of the asset's id, which two assets may share
    MaxAsks,    \* bound on the requests of a link
    MaxLinks    \* bound on the links

ASSUME LinkConstants ==
    /\ AssetIndex \in [Assets -> Nat]
    /\ {MaxAsks, MaxLinks} \subseteq Nat /\ Assets \cap {"asset", "btc", "own_btc"} = {}

VARIABLES
    node,       \* the node of the link
    hostKey,    \* who listens at the address: the host of the node, or another
    phase,      \* SeqlnStatus.state
    initiator,  \* the session's handshake state is there to be used
    transport,  \* the session's transport is live
    policy,     \* permissive or enforce
    asked,      \* the host's requests on this link
    hostOut,    \* units the host has not put into a record
    wire,       \* pieces of records on their way, or closed
    buf,        \* pieces that arrived and were not read
    open,       \* the stream has not ended
    header,     \* the length of the record whose header was read
    plain,      \* units decrypted and not served
    replies,    \* the device's replies, as the host decrypts them
    nodeId,     \* the node's identity as its INIT reply gave it, none before
    service,    \* what LightningService makes of it
    pins,       \* the transport key each host has pinned
    links       \* links so far

linkVars == <<node, hostKey, phase, initiator, transport, policy, asked, hostOut, wire, buf, open, header,
              plain, replies, nodeId, service, pins, links>>
streamVars == <<asked, hostOut, wire, buf, open, header, plain, replies>>

\* The two shared hubs, the wallet's own Bitcoin node and its own node of each asset.
Nodes   == {"asset", "btc", "own_btc"} \cup Assets
Asks    == {"init", "theft", "fatal"}
Phases  == {"idle", "connecting", "handshaking", "authenticated", "closed", "error"}
Unit    == [ask : 1..MaxAsks, part : {"length", "body"}]
Piece   == [kind : {"header", "body"}, units : Seq(Unit)]
Paths   == Seq(Nat)

(***************************************************************************)
(* Keys.                                                                   *)
(***************************************************************************)

\* seqln_derive_node and seqln_derive_asset: m/1017'/role'/leaf', with two more roles for assets.  connectNode
\* derives the keys of the wallet's own Bitcoin node as start() does those of the Bitcoin hub.
NodePath(n, signing) ==
    LET branch == IF n \in Assets THEN 2 ELSE 0
        leaf   == CASE n = "asset" -> 0 [] n \in {"btc", "own_btc"} -> 1 [] OTHER -> AssetIndex[n]
    IN <<1017, branch + (IF signing THEN 1 ELSE 0), leaf>>

\* LnNodeKeys: the two keys of one hosted node, both from the seed of the one mnemonic.
LnNodeKeys(n) == [transport_privkey |-> NodePath(n, FALSE), signing_seed |-> NodePath(n, TRUE)]

\* device_pubkey, which a host pins.
DevicePubkey(n) == LnNodeKeys(n).transport_privkey

\* A signer made of a node's signing seed: the identity of its Lightning node.
NodeId(n) == LnNodeKeys(n).signing_seed

(***************************************************************************)
(* The link comes up.                                                      *)
(***************************************************************************)

\* The stream and what was read of it are gone.
Discard == /\ open' = FALSE /\ header' = 0
           /\ hostOut' = <<>> /\ wire' = <<>> /\ buf' = <<>> /\ plain' = <<>>

\* A new link of a node, to its host or to whoever answers there.
Connect(n, key, mode) ==
    /\ phase \in {"idle", "closed", "error"} /\ links < MaxLinks
    /\ node' = n /\ hostKey' = key /\ policy' = mode
    /\ links' = links + 1
    /\ pins' = [pins EXCEPT ![n] = IF @ = <<>> THEN DevicePubkey(n) ELSE @]
    /\ phase' = "connecting" /\ service' = "connecting"
    /\ initiator' = FALSE /\ transport' = FALSE /\ nodeId' = <<>>
    /\ asked' = <<>> /\ hostOut' = <<>> /\ wire' = <<>> /\ buf' = <<>> /\ plain' = <<>> /\ replies' = <<>>
    /\ header' = 0 /\ open' = TRUE

\* new_initiator and write_act_one, once the socket is open.
ActOne ==
    /\ phase = "connecting"
    /\ phase' = "handshaking" /\ initiator' = TRUE
    /\ UNCHANGED <<node, hostKey, transport, policy, streamVars, nodeId, service, pins, links>>

\* Act two authenticates the host by the key the phone has for it.
HostProves == hostKey = "host"

\* read_act_two uses the initiator up, also when it fails; with act three the host knows the phone.
ActTwo ==
    /\ phase = "handshaking" /\ initiator /\ open
    /\ initiator' = FALSE
    /\ IF HostProves
       THEN phase' = "authenticated" /\ transport' = TRUE /\ service' = "waiting"
       ELSE phase' = "error" /\ service' = "off" /\ UNCHANGED transport
    /\ UNCHANGED <<node, hostKey, policy, streamVars, nodeId, pins, links>>

\* The socket does not open, or ends before act two.
ConnectFails ==
    /\ phase = "connecting" \/ (phase = "handshaking" /\ ~open)
    /\ phase' = "error" /\ service' = "off"
    /\ UNCHANGED <<node, hostKey, initiator, transport, policy, streamVars, nodeId, pins, links>>

(***************************************************************************)
(* The host, which asks on, without waiting for replies, those phones that *)
(* present the key it has pinned.                                          *)
(***************************************************************************)

HostAsks(kind) ==
    /\ transport /\ open /\ Len(asked) < MaxAsks /\ pins[node] = DevicePubkey(node)
    /\ asked' = Append(asked, kind)
    /\ hostOut' = hostOut \o <<[ask |-> Len(asked) + 1, part |-> "length"],
                               [ask |-> Len(asked) + 1, part |-> "body"]>>
    /\ UNCHANGED <<node, hostKey, phase, initiator, transport, policy, wire, buf, open, header, plain, replies,
                   nodeId, service, pins, links>>

HostSends(n) ==
    /\ open /\ n \in 1..Len(hostOut)
    /\ wire' = wire \o <<[kind |-> "header", units |-> SubSeq(hostOut, 1, n)],
                         [kind |-> "body", units |-> SubSeq(hostOut, 1, n)]>>
    /\ hostOut' = SubSeq(hostOut, n + 1, Len(hostOut))
    /\ UNCHANGED <<node, hostKey, phase, initiator, transport, policy, asked, buf, open, header, plain, replies,
                   nodeId, service, pins, links>>

\* A piece reaches the reader's buffer in full; in part is as if it had not.
Arrive ==
    /\ open /\ wire # <<>>
    /\ buf' = Append(buf, Head(wire)) /\ wire' = Tail(wire)
    /\ UNCHANGED <<node, hostKey, phase, initiator, transport, policy, asked, hostOut, open, header, plain,
                   replies, nodeId, service, pins, links>>

\* The stream ends: what has not arrived is lost.
Cut ==
    /\ open /\ phase \in {"handshaking", "authenticated"}
    /\ open' = FALSE /\ wire' = <<>>
    /\ UNCHANGED <<node, hostKey, phase, initiator, transport, policy, asked, hostOut, buf, header, plain,
                   replies, nodeId, service, pins, links>>

(***************************************************************************)
(* The serve loop.                                                         *)
(***************************************************************************)

Serving == phase = "authenticated" /\ transport
Starved == Len(plain) < 2

\* refill: decrypt_header, then decrypt_body of the length it gave.
ReadHeader ==
    /\ Serving /\ Starved /\ header = 0 /\ buf # <<>> /\ Head(buf).kind = "header"
    /\ header' = Len(Head(buf).units) /\ buf' = Tail(buf)
    /\ UNCHANGED <<node, hostKey, phase, initiator, transport, policy, asked, hostOut, wire, open, plain, replies,
                   nodeId, service, pins, links>>

ReadBody ==
    /\ Serving /\ header # 0 /\ buf # <<>>
    /\ Head(buf).kind = "body" /\ Len(Head(buf).units) = header
    /\ plain' = plain \o Head(buf).units /\ buf' = Tail(buf) /\ header' = 0
    /\ UNCHANGED <<node, hostKey, phase, initiator, transport, policy, asked, hostOut, wire, open, replies, nodeId,
                   service, pins, links>>

\* A bug: what follows the first frame in the same record is lost.
RestLost(s) == <<>>

\* The plaintext after the first frame.
Rest(s) == SubSeq(s, 3, Len(s))

\* The signer's outcome: in enforce mode a theft-shaped request is rejected, with the empty reply that
\* what it does not know gets too; other requests are signed.
Handle(kind) ==
    IF kind = "fatal" THEN "fatal" ELSE IF kind = "theft" /\ policy = "enforce" THEN "empty" ELSE "signed"

\* encrypt: a record of its own, which the host decrypts after those before it.
Encrypt(reply) == Append(replies, reply)

\* process_frame and the encrypted reply, for a frame that decodes and is not fatal.
FrameOf(s) == s[1].part = "length" /\ s[2].part = "body" /\ s[1].ask = s[2].ask
ServeFrame ==
    /\ Serving /\ ~Starved /\ FrameOf(plain) /\ Handle(asked[plain[1].ask]) # "fatal"
    /\ LET ask == plain[1].ask IN
       /\ replies' = IF open THEN Encrypt([ask |-> ask, out |-> Handle(asked[ask])]) ELSE replies
       /\ nodeId' = IF asked[ask] = "init" THEN NodeId(node) ELSE nodeId
    /\ plain' = Rest(plain)
    /\ UNCHANGED <<node, hostKey, phase, initiator, transport, policy, asked, hostOut, wire, buf, open, header,
                   service, pins, links>>

\* The loop ends in an error: a frame that does not decode, a fatal one, or the end of the stream.
ServeFails ==
    /\ Serving
    /\ \/ ~Starved /\ (~FrameOf(plain) \/ Handle(asked[plain[1].ask]) = "fatal")
       \/ Starved /\ ~open /\ buf = <<>>
    /\ phase' = "error" /\ Discard
    /\ service' = IF service = "waiting" THEN "waiting" ELSE "off"
    /\ UNCHANGED <<node, hostKey, initiator, transport, policy, asked, replies, nodeId, pins, links>>

\* whenNodeId looks every 50 ms, at the node id first: a link that ended in between counts as up.
NodeIdSeen ==
    /\ service = "waiting"
    /\ \/ nodeId # <<>> /\ service' = "on"
       \/ nodeId = <<>> /\ phase \in {"closed", "error"} /\ service' = "off"
    /\ UNCHANGED <<node, hostKey, phase, initiator, transport, policy, streamVars, nodeId, pins, links>>

\* disconnect(): the transport is closed; the loop's last read never ends.
Disconnect ==
    /\ phase = "authenticated"
    /\ phase' = "closed" /\ Discard
    /\ service' = IF service = "waiting" THEN "waiting" ELSE "off"
    /\ UNCHANGED <<node, hostKey, initiator, transport, policy, asked, replies, nodeId, pins, links>>

LinkInit ==
    /\ node = "asset" /\ hostKey = "host" /\ policy = "enforce"
    /\ phase = "idle" /\ service = "off" /\ open = FALSE
    /\ initiator = FALSE /\ transport = FALSE /\ nodeId = <<>>
    /\ asked = <<>> /\ hostOut = <<>> /\ wire = <<>> /\ buf = <<>> /\ plain = <<>> /\ replies = <<>>
    /\ header = 0 /\ links = 0
    /\ pins = [n \in Nodes |-> <<>>]

LinkNext ==
    \/ \E n \in Nodes, key \in {"host", "other"}, mode \in {"permissive", "enforce"} : Connect(n, key, mode)
    \/ ActOne \/ ActTwo \/ ConnectFails
    \/ \E kind \in Asks : HostAsks(kind)
    \/ \E n \in 1..(2 * MaxAsks) : HostSends(n)
    \/ Arrive \/ Cut
    \/ ReadHeader \/ ReadBody \/ ServeFrame \/ ServeFails
    \/ NodeIdSeen \/ Disconnect

LinkSpec == LinkInit /\ [][LinkNext]_linkVars

(***************************************************************************)
(* Properties.                                                             *)
(***************************************************************************)

LinkTypeOK ==
    /\ node \in Nodes /\ hostKey \in {"host", "other"} /\ policy \in {"permissive", "enforce"}
    /\ phase \in Phases /\ service \in {"off", "connecting", "waiting", "on"}
    /\ {initiator, transport, open} \subseteq BOOLEAN /\ nodeId \in Paths
    /\ asked \in Seq(Asks) /\ hostOut \in Seq(Unit) /\ plain \in Seq(Unit)
    /\ wire \in Seq(Piece) /\ buf \in Seq(Piece)
    /\ header \in 0..(2 * MaxAsks) /\ links \in 0..MaxLinks
    /\ pins \in [Nodes -> Paths]
    /\ ~(initiator /\ transport)

\* Nodes that have their keys in common: the two Bitcoin nodes, and assets whose ids fold to one index.
SameKeys(m, n) == \/ m = n \/ {m, n} \subseteq {"btc", "own_btc"}
                  \/ {m, n} \subseteq Assets /\ AssetIndex[m] = AssetIndex[n]

\* However the records cut the requests and wherever the link ends, the n-th reply answers the n-th
\* request and none is left without once all has been read; a phone that enforces signs nothing
\* theft-shaped; nothing is served to a responder that is not the host; and over any sequence of links
\* hosts that have pinned one key, and a node that shows the identity of another, are those of nodes
\* whose derivation does not tell them apart.
LinkFaithful ==
    /\ \A i \in DOMAIN replies : /\ replies[i].ask = i
                                 /\ asked[i] = "theft" /\ policy = "enforce" => replies[i].out = "empty"
    /\ Serving /\ open /\ hostOut \o wire \o buf \o plain = <<>> /\ header = 0 => Len(replies) = Len(asked)
    /\ asked # <<>> => hostKey = "host"
    /\ \A m, n \in Nodes : pins[m] # <<>> /\ pins[m] = pins[n] => SameKeys(m, n)
    /\ nodeId # <<>> => \A n \in Nodes : nodeId = NodeId(n) => SameKeys(n, node)
=============================================================================
