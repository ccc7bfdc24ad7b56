------------------------------- MODULE Tunnel -------------------------------
(***************************************************************************)
(* The tunnel of a node: requests that enable and disable it, the relays   *)
(* it registers with, the WireGuard interface and the reverse proxy.       *)
(* Requests run side by side, and what a request to disable stops, it      *)
(* stops 200 ms after it returned. Left out: keys, secrets, traffic, and   *)
(* the peers' heartbeats: their loop has the context of the request that   *)
(* enabled the tunnel and ends with it.                                    *)
(*                                                                         *)
(* Source: internal/tunnel (tunnel.go, proxy.go, wg.go,                    *)
(* embedded_relay.go).                                                     *)
(***************************************************************************)
EXTENDS Naturals, FiniteSets

CONSTANTS
    Enabling,   \* requests to enable the tunnel: 1 .. the number of them
    Disabling,  \* requests to disable it
    Relay,      \* relays it may be told to use
    Userspace,  \* WireGuard runs as a process of the agent
    LastOctet   \* addresses are 10.8.0.2 to 10.8.0.LastOctet (254), and then again

TunnelAssumption ==
    /\ Enabling \subseteq Nat \ {0} /\ LastOctet \in Nat /\ LastOctet > 1
    /\ Userspace \in BOOLEAN /\ Relay # {}

VARIABLES
    state,      \* what Status says
    id, relay,  \* cfg.TunnelID (the request that registered it, 0 if none), cfg.RelayHTTPS
    tunnels,    \* per relay: the tunnels registered and their octets
    octet,      \* per relay: the next one
    wg,         \* the interface is up
    server,     \* the request whose server the proxy holds, 0 if none
    listening,  \* the request whose listener has the port, 0 if none
    en,         \* per request to enable: pc, the interface came up for it
    dis,        \* per request to disable: pc
    severed     \* a late disable has hit a tunnel that is wanted again

vars == <<state, id, relay, tunnels, octet, wg, server, listening, en, dis, severed>>

Init ==
    /\ state = "disconnected" /\ id = 0 /\ relay \in Relay
    /\ tunnels = [r \in Relay |-> {}] /\ octet = [r \in Relay |-> 2]
    /\ wg = FALSE /\ server = 0 /\ listening = 0
    /\ en = [e \in Enabling |-> [pc |-> "idle", up |-> FALSE]]
    /\ dis = [d \in Disabling |-> "idle"]
    /\ severed = FALSE

Goes(e, pc) == en' = [en EXCEPT ![e].pc = pc]

-----------------------------------------------------------------------------
(* Enable.                                                                      *)

Enable(e) ==
    /\ en[e].pc = "idle" /\ Goes(e, "register")
    /\ state' = "connecting"
    /\ UNCHANGED <<id, relay, tunnels, octet, wg, server, listening, dis, severed>>

\* A relay registers every request as a tunnel of its own; its answer may be lost.
Register(e) ==
    /\ en[e].pc = "register"
    /\ tunnels' = [tunnels EXCEPT ![relay] = @ \cup {<<e, octet[relay]>>}]
    /\ octet' = [octet EXCEPT ![relay] = IF @ = LastOctet THEN 2 ELSE @ + 1]
    /\ Goes(e, "registered")
    /\ UNCHANGED <<state, id, relay, wg, server, listening, dis, severed>>

Registered(e) ==
    /\ en[e].pc = "registered"
    /\ id' = e /\ Goes(e, "interface")
    /\ UNCHANGED <<state, relay, tunnels, octet, wg, server, listening, dis, severed>>

RegisterFails(e) ==
    /\ en[e].pc \in {"register", "registered"}
    /\ state' = "error" /\ Goes(e, "failed")
    /\ UNCHANGED <<id, relay, tunnels, octet, wg, server, listening, dis, severed>>

\* Without an interface the tunnel is relayed only.
BringUp(e) ==
    /\ en[e].pc = "interface"
    /\ \E up \in BOOLEAN : /\ en' = [en EXCEPT ![e] = [pc |-> "proxy", up |-> up]]
                           /\ wg' = (wg \/ up)
    /\ UNCHANGED <<state, id, relay, tunnels, octet, server, listening, dis, severed>>

\* Fault: a port that is taken is not an error.
ProxyStartIgnoresError(e) ==
    /\ en[e].pc = "proxy"
    /\ server' = e /\ listening' \in {listening, IF listening = 0 THEN e ELSE listening}
    /\ Goes(e, "connect")
    /\ UNCHANGED <<state, id, relay, tunnels, octet, wg, dis, severed>>

\* The proxy takes the new server before it listens: of two, the second cannot listen and
\* the first is out of reach.
ProxyStart(e) ==
    /\ en[e].pc = "proxy"
    /\ server' = e
    /\ \/ /\ listening = 0 /\ listening' = e
          /\ Goes(e, "connect") /\ UNCHANGED <<wg, state>>
       \/ /\ Goes(e, "failed")
          /\ wg' = (wg /\ ~en[e].up) /\ state' = "error"
          /\ UNCHANGED listening
    /\ UNCHANGED <<id, relay, tunnels, octet, dis, severed>>

Connected(e) ==
    /\ en[e].pc = "connect" /\ Goes(e, "return")
    /\ state' = "connected"
    /\ UNCHANGED <<id, relay, tunnels, octet, wg, server, listening, dis, severed>>

\* The request returns, and with its context ends a WireGuard process that it started.
Returns(e) ==
    /\ en[e].pc \in {"return", "failed"} /\ Goes(e, "over")
    /\ wg' = (wg /\ ~(Userspace /\ en[e].up))
    /\ UNCHANGED <<state, id, relay, tunnels, octet, server, listening, dis, severed>>

-----------------------------------------------------------------------------
(* Disable, by the user or as the agent shuts down.                               *)

DisGoes(d, pc) == dis' = [dis EXCEPT ![d] = pc]

Disable(d) ==
    /\ dis[d] = "idle" /\ DisGoes(d, "proxy")
    /\ state' = "disconnected"
    /\ UNCHANGED <<id, relay, tunnels, octet, wg, server, listening, en, severed>>

\* What is stopped late may be a tunnel that is wanted again.
InUse == state = "connected" \/ \E e \in Enabling : en[e].pc \notin {"idle", "over"}

StopProxy(d) ==
    /\ dis[d] = "proxy" /\ DisGoes(d, "interface")
    /\ listening' = IF listening = server THEN 0 ELSE listening
    /\ severed' = (severed \/ InUse)
    /\ UNCHANGED <<state, id, relay, tunnels, octet, wg, server, en>>

Down(d) ==
    /\ dis[d] = "interface" /\ DisGoes(d, "deregister")
    /\ wg' = FALSE /\ severed' = (severed \/ InUse)
    /\ UNCHANGED <<state, id, relay, tunnels, octet, server, listening, en>>

\* The tunnel of that moment is taken out of the relay of that moment, if it answers.
Deregister(d) ==
    /\ dis[d] = "deregister" /\ DisGoes(d, "over")
    /\ tunnels' \in {tunnels, [tunnels EXCEPT ![relay] = {t \in @ : t[1] # id}]}
    /\ severed' = (severed \/ InUse)
    /\ UNCHANGED <<state, id, relay, octet, wg, server, listening, en>>

\* A tunnel that is up stays with the relay it was registered with.
UpdateRelay(r) ==
    /\ r # relay /\ relay' = r
    /\ UNCHANGED <<state, id, tunnels, octet, wg, server, listening, en, dis, severed>>

-----------------------------------------------------------------------------
Next ==
    \/ \E e \in Enabling : \/ Enable(e) \/ Register(e) \/ Registered(e) \/ RegisterFails(e)
                           \/ BringUp(e) \/ ProxyStart(e) \/ Connected(e) \/ Returns(e)
    \/ \E d \in Disabling : Disable(d) \/ StopProxy(d) \/ Down(d) \/ Deregister(d)
    \/ \E r \in Relay : UpdateRelay(r)

Spec == Init /\ [][Next]_vars

-----------------------------------------------------------------------------
TypeOK ==
    /\ state \in {"disconnected", "connecting", "connected", "error"}
    /\ id \in Enabling \cup {0} /\ relay \in Relay /\ wg \in BOOLEAN /\ severed \in BOOLEAN
    /\ \A r \in Relay : /\ tunnels[r] \subseteq Enabling \X (2 .. LastOctet)
                        /\ octet[r] \in 2 .. LastOctet
    /\ server \in Enabling \cup {0} /\ listening \in Enabling \cup {0}
    /\ en \in [Enabling -> [pc : {"idle", "register", "registered", "interface", "proxy",
                                  "connect", "return", "failed", "over"}, up : BOOLEAN]]
    /\ dis \in [Disabling -> {"idle", "proxy", "interface", "deregister", "over"}]

\* A tunnel said to be connected has a proxy that listens and is registered with a relay,
\* unless a disable that was asked for before came late; requests that run side by side
\* and fail do not part the two (tunnel.go:173).
ConnectedIsServed ==
    state = "connected" /\ ~severed =>
        listening # 0 /\ \E r \in Relay : \E t \in tunnels[r] : t[1] = id

\* Two tunnels of a relay have two addresses; not an invariant: the octets begin again when
\* LastOctet was given, whether the first ones are still in use or not (embedded_relay.go:154).
AddressesDiffer ==
    \A r \in Relay : \A t \in tunnels[r], u \in tunnels[r] : t[2] = u[2] => t = u

\* A tunnel that was disabled leaves the port free; not an invariant: a second server that
\* could not listen took the place of the first, which is never closed (proxy.go:73).
DisabledFreesPort ==
    /\ \A d \in Disabling : dis[d] = "over"
    /\ \A e \in Enabling : en[e].pc \in {"idle", "over"} /\ state = "disconnected"
    => listening = 0
====
