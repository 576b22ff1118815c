----------------------------- MODULE Heartbeat -----------------------------
(***************************************************************************)
(* The dashboard heartbeat of src/transport/http:                          *)
(* heartBeatSenderInitFunc.Initial / Destroy (heartbeat_sender_init_func.go)*)
(* started and stopped by the application's lifecycle callers, the        *)
(* heartbeat goroutine Initial spawns, GetHeartbeatSender                  *)
(* (heartbeat/heartbeat_sender_provider.go) and SimpleHttpHeartbeatSender  *)
(* (heartbeat/simple_http_heartbeat_sender.go).                            *)
(*                                                                         *)
(* Initial, Destroy, GetAvailableAddress have value receivers: the         *)
(* isInitialized CAS and the currentAddressIdx++ act on a copy of the      *)
(* receiver.  Every region under heartbeatMux (resolveInstance, the body   *)
(* of SendHeartbeat and SendRemove) touches only state no other goroutine  *)
(* writes outside the lock, so it is one atomic step.  The timer is        *)
(* abstracted to "a heartbeat may be sent at any time".                   *)
(***************************************************************************)
EXTENDS Integers, Sequences, FiniteSets

CONSTANTS
    InitCallers,     \* goroutines calling Initial
    DestroyCallers,  \* goroutines calling Destroy
    NumAddresses,    \* len(addressList): the console servers configured
    MaxBeats         \* bound on the heartbeats sent

Callers == InitCallers \cup DestroyCallers
Instances == 1..Cardinality(Callers)

ASSUME /\ InitCallers \cap DestroyCallers = {}
       /\ NumAddresses \in Nat /\ MaxBeats \in Nat

VARIABLES
    config,             \* [closeAll, openDashboard, portOK]: static configuration
    isInitialized,      \* heartBeatSenderInitFuncInst.isInitialized
    heartbeatSender,    \* the provider's heartbeatSender: 0 (nil) or an instance
    instances,          \* senders created by resolveInstance so far
    currentAddressIdx,  \* per sender instance: its currentAddressIdx
    pc,                 \* per caller
    held,               \* per caller: the sender it obtained
    workers,            \* the heartbeat goroutines: the sender each captured
    beats               \* heartbeat iterations run

vars == << config, isInitialized, heartbeatSender, instances, currentAddressIdx,
           pc, held, workers, beats >>

Init ==
    /\ config \in [closeAll : BOOLEAN, openDashboard : BOOLEAN, portOK : BOOLEAN]
    /\ isInitialized = FALSE
    /\ heartbeatSender = 0
    /\ instances = 0
    /\ currentAddressIdx = [n \in Instances |-> 0]
    /\ pc = [c \in Callers |-> "idle"]
    /\ held = [c \in Callers |-> 0]
    /\ workers = << >>
    /\ beats = 0

(* The early returns Initial and Destroy share: a failed                  *)
(* h.isInitialized.CompareAndSet(false, true) on the receiver copy h,     *)
(* config.CloseAll(), !config.OpenConnectDashboard().                     *)
StartReturns == isInitialized \/ config.closeAll \/ ~config.openDashboard

(* Initial or Destroy starts.  The CAS acts on the copy h, which is       *)
(* dropped, so the shared flag is never set.                              *)
CallStart(c) ==
    /\ pc[c] = "idle"
    /\ pc' = [pc EXCEPT ![c] = IF StartReturns THEN "done" ELSE "getSender"]
    /\ UNCHANGED << config, isInitialized, heartbeatSender, instances, currentAddressIdx,
                    held, workers, beats >>

\* Where a caller goes once it holds a sender.
AfterSender(c) == IF c \in InitCallers THEN "spawn" ELSE "remove"

(* GetHeartbeatSender: the unlocked nil check of heartbeatSender.         *)
GetHeartbeatSender(c) ==
    /\ pc[c] = "getSender"
    /\ \/ /\ heartbeatSender = 0
          /\ pc' = [pc EXCEPT ![c] = "resolve"]
          /\ UNCHANGED held
       \/ /\ heartbeatSender # 0
          /\ held' = [held EXCEPT ![c] = heartbeatSender]
          /\ pc' = [pc EXCEPT ![c] = AfterSender(c)]
    /\ UNCHANGED << config, isInitialized, heartbeatSender, instances, currentAddressIdx,
                    workers, beats >>

(* NewSimpleHttpHeartbeatSender: a new sender over the configured console *)
(* servers, never nil, whose currentAddressIdx is the zero value.         *)
NewSenderAddressIdx == 0

(* Under heartbeatMux, resolveInstance creates a new sender and installs  *)
(* it, without checking again whether one was installed meanwhile.        *)
ResolveInstance(c) ==
    /\ pc[c] = "resolve"
    /\ instances' = instances + 1
    /\ currentAddressIdx' = [currentAddressIdx EXCEPT ![instances + 1] = NewSenderAddressIdx]
    /\ heartbeatSender' = instances + 1
    /\ held' = [held EXCEPT ![c] = instances + 1]
    /\ pc' = [pc EXCEPT ![c] = AfterSender(c)]
    /\ UNCHANGED << config, isInitialized, workers,
                    beats >>

(* Initial spawns the heartbeat goroutine with the sender it obtained.    *)
Spawn(c) ==
    /\ pc[c] = "spawn"
    /\ workers' = Append(workers, held[c])
    /\ pc' = [pc EXCEPT ![c] = "done"]
    /\ UNCHANGED << config, isInitialized, heartbeatSender, instances, currentAddressIdx,
                    held, beats >>

(* GetAvailableAddress: nil (-1) without addresses, else                  *)
(* addressList[currentAddressIdx % len], a negative index read as 0.      *)
GetAvailableAddress(idx) ==
    IF NumAddresses = 0 THEN -1
    ELSE (IF idx < 0 THEN 0 ELSE idx) % NumAddresses

(* The sender's currentAddressIdx after GetAvailableAddress returned an   *)
(* address: the reset and the ++ act on the receiver copy s and are lost. *)
AddressIdxAfterGet(idx) == idx

\* The address sender s posts to next, -1 when nothing is posted: the
\* runtime port check, then GetAvailableAddress under heartbeatMux.
PostAddress(s) ==
    IF config.portOK THEN GetAvailableAddress(currentAddressIdx[s]) ELSE -1

\* The effect of a post by sender s on its currentAddressIdx.
AfterPost(s) ==
    currentAddressIdx' =
        IF PostAddress(s) = -1 THEN currentAddressIdx
        ELSE [currentAddressIdx EXCEPT ![s] = AddressIdxAfterGet(@)]

(* Destroy's sender.SendRemove(): nothing without a runtime port or an    *)
(* address; otherwise the remove is posted under heartbeatMux.  Whether   *)
(* the post is answered changes nothing but a log line.                  *)
SendRemove(c) ==
    /\ pc[c] = "remove"
    /\ pc' = [pc EXCEPT ![c] = "done"]
    /\ AfterPost(held[c])
    /\ UNCHANGED << config, isInitialized, heartbeatSender, instances,
                    held, workers, beats >>

(* One iteration of heartbeat goroutine w: the timer fires, is reset, and *)
(* sender.SendHeartbeat() of the sender it captured runs, with the same   *)
(* guards as SendRemove.  The loop has no exit.                           *)
SendHeartbeat(w) ==
    /\ beats < MaxBeats
    /\ beats' = beats + 1
    /\ AfterPost(workers[w])
    /\ UNCHANGED << config, isInitialized, heartbeatSender, instances,
                    pc, held, workers >>

Terminating ==
    /\ \A c \in Callers : pc[c] = "done"
    /\ beats = MaxBeats \/ workers = << >>
    /\ UNCHANGED vars

Next ==
    \/ \E c \in Callers : \/ CallStart(c) \/ GetHeartbeatSender(c)
                          \/ ResolveInstance(c) \/ Spawn(c) \/ SendRemove(c)
    \/ \E w \in DOMAIN workers : SendHeartbeat(w)
    \/ Terminating

Spec == Init /\ [][Next]_vars

-----------------------------------------------------------------------------
(* Initial is meant to start one heartbeat loop: its first statement,   *)
(* isInitialized.CompareAndSet(false, true), returns early on a second    *)
(* call.  With the value receiver the CAS acts on a copy and always       *)
(* succeeds, so every Initial caller that gets past the configuration     *)
(* checks spawns its own loop.                                            *)
SingleHeartbeatLoop == Len(workers) <= 1

=============================================================================
