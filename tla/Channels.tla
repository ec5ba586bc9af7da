------------------------------ MODULE Channels ------------------------------
(***************************************************************************)
(* ConnectionManager and WebSocketHandler of api/websocket/__init__.py: a  *)
(* socket is entered under its principal and its fiduciary, and a          *)
(* broadcast goes through a copy of the sockets it found, awaiting at each *)
(* send, while sockets come and go.                                        *)
(***************************************************************************)
EXTENDS Naturals, FiniteSets

CONSTANTS Socket,      \* web sockets, each opened once
          Party,       \* principals and fiduciaries
          Broadcast    \* concurrent broadcasts to one party each

VARIABLES listener,    \* where a socket's listen is
          claims,      \* the parties a socket was opened for
          connections, \* connections[p]: the sockets entered for a party
          broadcast,   \* broadcast[b]: its party and the sockets left
          received     \* received[s]: parties whose messages a socket got

channelVars == <<listener, claims, connections, broadcast, received>>

NoBroadcast == [to |-> {}, left |-> {}]

ChannelTypeOK ==
    /\ listener \in [Socket -> {"new", "accepted", "open", "closing", "ended", "cancelled"}]
    /\ claims \in [Socket -> SUBSET Party]
    /\ connections \in [Party -> SUBSET Socket]
    /\ broadcast \in [Broadcast -> [to : SUBSET Party, left : SUBSET Socket]]
    /\ received \in [Socket -> SUBSET Party]

ChannelInit ==
    /\ listener = [s \in Socket |-> "new"]
    /\ claims = [s \in Socket |-> {}]
    /\ connections = [p \in Party |-> {}]
    /\ broadcast = [b \in Broadcast |-> NoBroadcast]
    /\ received = [s \in Socket |-> {}]

Moves(s, from, to) == listener[s] = from /\ listener' = [listener EXCEPT ![s] = to]

(* The parties are what the query of the request says. *)
Accept(s, parties) ==
    /\ Moves(s, "new", "accepted")
    /\ claims' = [claims EXCEPT ![s] = parties]
    /\ UNCHANGED <<connections, broadcast, received>>

Connect(s) ==
    /\ Moves(s, "accepted", "open")
    /\ connections' = [p \in Party |-> connections[p] \union {x \in {s} : p \in claims[s]}]
    /\ UNCHANGED <<claims, broadcast, received>>

(* receive_text raises; a client may also be gone before it is entered,    *)
(* and its first receive_text says so.                                     *)
Leave(s) ==
    /\ Moves(s, "open", "closing")
    /\ UNCHANGED <<claims, connections, broadcast, received>>

(* Fault: only the first index is cleaned. *)
DisconnectOne(s) ==
    /\ Moves(s, "closing", "ended")
    /\ \E p \in Party :
          /\ claims[s] # {} => p \in claims[s]
          /\ connections' = [connections EXCEPT ![p] = @ \ {s}]
    /\ UNCHANGED <<claims, broadcast, received>>

Disconnect(s) ==
    /\ Moves(s, "closing", "ended")
    /\ connections' = [p \in Party |-> IF p \in claims[s] THEN connections[p] \ {s} ELSE connections[p]]
    /\ UNCHANGED <<claims, broadcast, received>>

(* A cancellation is no Exception: listen ends without disconnect. *)
Cancel(s) ==
    /\ listener[s] \in {"accepted", "open", "closing"}
    /\ listener' = [listener EXCEPT ![s] = "cancelled"]
    /\ UNCHANGED <<claims, connections, broadcast, received>>

(* Fault: a broadcast goes to every socket there is. *)
RecipientsAll(p) == UNION {connections[q] : q \in Party}

Recipients(p) == connections[p]

BroadcastTo(b, p) ==
    /\ broadcast[b] = NoBroadcast
    /\ Recipients(p) # {}
    /\ broadcast' = [broadcast EXCEPT ![b] = [to |-> {p}, left |-> Recipients(p)]]
    /\ UNCHANGED <<listener, claims, connections, received>>

(* send_text to a socket of the copy; one that has left raises, which is   *)
(* passed over.                                                            *)
SendText(b, s) ==
    /\ s \in broadcast[b].left
    /\ broadcast' = [broadcast EXCEPT ![b] = IF broadcast[b].left = {s} THEN NoBroadcast
                                             ELSE [broadcast[b] EXCEPT !.left = @ \ {s}]]
    /\ received' = IF listener[s] = "open"
                   THEN [received EXCEPT ![s] = @ \union broadcast[b].to] ELSE received
    /\ UNCHANGED <<listener, claims, connections>>

ChannelNext ==
    \/ \E s \in Socket :
          \/ Connect(s) \/ Leave(s) \/ Disconnect(s) \/ Cancel(s)
          \/ \E parties \in SUBSET Party : Accept(s, parties)
    \/ \E b \in Broadcast :
          (\E p \in Party : BroadcastTo(b, p)) \/ (\E s \in Socket : SendText(b, s))
-----------------------------------------------------------------------------
(* A socket gets the messages of its own parties and no others, however    *)
(* connecting, leaving and broadcasting interleave.                        *)
OwnMessages == \A s \in Socket : received[s] \subseteq claims[s]

(* A socket whose listening has ended is in no index, unless it was        *)
(* cancelled.                                                              *)
NoLeak ==
    \A s \in Socket : listener[s] \in {"new", "accepted", "ended"}
        => \A p \in Party : s \notin connections[p]

ChannelsSafe == OwnMessages /\ NoLeak
=============================================================================
