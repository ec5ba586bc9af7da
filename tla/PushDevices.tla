----------------------------- MODULE PushDevices -----------------------------
(***************************************************************************)
(* MobileSDKSupport of api/mobile/__init__.py behind the handlers of       *)
(* api/features.py: devices by their id, and each user's list of ids.  No  *)
(* handler suspends, so each is one step; what can go wrong is a sequence  *)
(* of calls that leaves the two tables apart.                              *)
(***************************************************************************)
EXTENDS Naturals, FiniteSets

CONSTANTS Device, Owner,    \* device ids and user ids
          Token             \* push tokens

VARIABLES devices,      \* _devices: push_token, enabled, and platform
          userDevices,  \* _user_devices
          pushed,       \* history: users a device got pushes for, and ...
          named         \* ... users with whom a request named it, both since
                        \*    it was last unregistered

pushVars == <<devices, userDevices, pushed, named>>

NoToken == "no token"
NoDevice == [token |-> NoToken, enabled |-> FALSE, supported |-> FALSE, known |-> FALSE]

PushTypeOK ==
    /\ devices \in [Device -> [token : Token \union {NoToken}, enabled : BOOLEAN,
                               supported : BOOLEAN, known : BOOLEAN]]
    /\ userDevices \in [Owner -> SUBSET Device]
    /\ pushed \in [Device -> SUBSET Owner]
    /\ named \in [Device -> SUBSET Owner]

PushInit ==
    /\ devices = [d \in Device |-> NoDevice]
    /\ userDevices = [u \in Owner |-> {}]
    /\ pushed = [d \in Device |-> {}]
    /\ named = [d \in Device |-> {}]

(* supported: iOS or Android; other platforms are taken and never sent to. *)
RegisterDevice(u, d, token, enabled, supported) ==
    /\ devices' = [devices EXCEPT ![d] = [token |-> token, enabled |-> enabled,
                                          supported |-> supported, known |-> TRUE]]
    /\ userDevices' = [userDevices EXCEPT ![u] = @ \union {d}]
    /\ UNCHANGED <<pushed, named>>

(* Fault: the search stops at the first user that has the device. *)
UnregisterFirst(d) ==
    /\ devices[d].known
    /\ devices' = [devices EXCEPT ![d] = NoDevice]
    /\ \E u \in Owner :
          /\ d \in userDevices[u]
          /\ userDevices' = [userDevices EXCEPT ![u] = @ \ {d}]
    /\ pushed' = [pushed EXCEPT ![d] = {}]
    /\ named' = [named EXCEPT ![d] = {}]

(* A device registered for several users is in the list of each. *)
UnregisterDevice(d) ==
    /\ devices[d].known
    /\ devices' = [devices EXCEPT ![d] = NoDevice]
    /\ userDevices' = [u \in Owner |-> userDevices[u] \ {d}]
    /\ pushed' = [pushed EXCEPT ![d] = {}]
    /\ named' = [named EXCEPT ![d] = {}]

UpdatePushToken(d, token) ==
    /\ devices[d].known
    /\ devices' = [devices EXCEPT ![d].token = token]
    /\ UNCHANGED <<userDevices, pushed, named>>

Reachable == {d \in Device : devices[d].known /\ devices[d].token # NoToken
                               /\ devices[d].enabled /\ devices[d].supported}

(* The devices that the request names, whoever has them; if it names none, *)
(* those of the user.                                                      *)
SendPush(u, ids) ==
    LET sent == (IF ids # {} THEN ids ELSE userDevices[u]) \intersect Reachable IN
    /\ pushed' = [d \in Device |-> IF d \in sent THEN pushed[d] \union {u} ELSE pushed[d]]
    /\ named' = [d \in Device |-> IF d \in ids THEN named[d] \union {u} ELSE named[d]]
    /\ UNCHANGED <<devices, userDevices>>

PushNext ==
    \/ \E u \in Owner :
          \/ \E d \in Device, t \in Token \union {NoToken}, e \in BOOLEAN, p \in BOOLEAN :
                RegisterDevice(u, d, t, e, p)
          \/ \E ids \in SUBSET Device : SendPush(u, ids)
    \/ \E d \in Device : UnregisterDevice(d) \/ \E t \in Token : UpdatePushToken(d, t)
-----------------------------------------------------------------------------
(* A device is registered exactly while some user's list has it, through   *)
(* registrations by several users and removals.                            *)
ListedRegistered ==
    \A d \in Device : devices[d].known <=> \E u \in Owner : d \in userDevices[u]

(* What a device got since it was last unregistered was for users that     *)
(* have it, or for one that a request sent it to by its id: nobody checks  *)
(* that such an id is of that user.                                        *)
PushedToListed ==
    \A d \in Device, u \in Owner : u \in pushed[d] \ named[d] => d \in userDevices[u]

PushSafe == ListedRegistered /\ PushedToListed
=============================================================================
