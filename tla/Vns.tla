------------------------------- MODULE Vns -------------------------------
(***************************************************************************)
(* The router's process around sr_handlepacket(): main() of sr_main.c, the *)
(* session with the VNS server that sets it up and hands it the frames     *)
(* (sr_vns_comm.c), and the interface list the server announces (sr_if.c). *)
(*                                                                         *)
(* The server is external: it sends whatever commands it likes, one at a   *)
(* time, each read whole.  What main() does with each is one action.       *)
(***************************************************************************)
EXTENDS Router

CONSTANTS
    Template,   \* the router was started with -T: the server sends its table
    Faults      \* the server or a file may fail the router

ASSUME SessionAssumption == Template \in BOOLEAN /\ Faults \in BOOLEAN

VARIABLE session   \* "start", the command main() waits for, then "open"

vns_vars == <<cache, queue, status, out, heard, ifs, session>>

SetUp == {"auth request", "auth status", "rtable"}

(* Other commands: an interface list, a frame, the end, one that is too    *)
(* long or whose recv() fails.                                             *)
Command == SetUp \union {"hwinfo", "packet", "close", "broken"}

(* sr_connect_to_server(): the command after the one it expects now. *)
Following(s) ==
    CASE s = "auth request" -> "auth status"
      [] s = "auth status" -> IF Template THEN "rtable" ELSE "open"
      [] s = "rtable" -> "open"

(* sr_load_rt(): the file cannot be read, or a line of it not be parsed. *)
LoadRt == IF Faults THEN BOOLEAN ELSE {TRUE}

(* sr_handle_rtable(), sr_handle_auth_request() and                        *)
(* sr_handle_auth_status(): no file to write, no key or no way to send it, *)
(* the login refused.                                                      *)
Handled == IF Faults THEN BOOLEAN ELSE {TRUE}

NoFrames == out' = {} /\ UNCHANGED <<cache, queue, heard>>

---------------------------------------------------------------------------
(* main(), up to the connection: without a template the routing table is   *)
(* read from a file here.                                                  *)
Start ==
    /\ status = "up"
    /\ session = "start"
    /\ \E loaded \in IF Template THEN {TRUE} ELSE LoadRt :
         status' = IF loaded THEN "up" ELSE "exited"
    /\ session' = "auth request"
    /\ NoFrames
    /\ UNCHANGED ifs

(* One command while the session is set up, the expected one. *)
ConnectStep ==
    /\ status = "up"
    /\ session \in SetUp
    /\ session' = Following(session)
    /\ \E handled \in Handled,
          loaded \in IF session = "rtable" THEN LoadRt ELSE {TRUE} :
         status' = IF handled /\ loaded THEN "up" ELSE "exited"
    /\ NoFrames
    /\ UNCHANGED ifs

(* Any other ends it, VNSCLOSE too. *)
Unexpected(cmd) ==
    /\ Faults
    /\ status = "up"
    /\ session \in SetUp
    /\ cmd # session
    /\ status' = "exited"
    /\ NoFrames
    /\ UNCHANGED <<ifs, session>>

(* Mutant: the routes are not looked for in the list. *)
VerifyNothing(list) == list # {}

(* sr_verify_routing_table() *)
VerifyRoutingTable(list) ==
    /\ list # {}
    /\ RoutingTable # <<>>
    /\ \A r \in DOMAIN RoutingTable :
          \E i \in list : i.name = RoutingTable[r].iface

(* VNSHWINFO: sr_handle_hwinfo() adds the interfaces of the message to the *)
(* ones there are.                                                         *)
HwInfo(announced) ==
    /\ status = "up"
    /\ session = "open"
    /\ Faults \/ announced = Ifaces
    /\ ifs' = ifs \union announced
    /\ status' = IF VerifyRoutingTable(ifs') THEN "up" ELSE "exited"
    /\ NoFrames
    /\ UNCHANGED session

(* VNSHWINFO that gives an address ahead of any interface: the assertion   *)
(* of sr_set_ether_ip() and sr_set_ether_addr() fails.                     *)
HwInfoWithoutInterface ==
    /\ Faults
    /\ status = "up"
    /\ session = "open"
    /\ ifs = {}
    /\ status' = "crashed"
    /\ NoFrames
    /\ UNCHANGED <<ifs, session>>

(* VNSPACKET on an interface that was not announced, or before any was:    *)
(* the assertion of sr_arp_req_not_for_us() fails.                         *)
PacketOnNoInterface(name) ==
    /\ Faults
    /\ status = "up"
    /\ session = "open"
    /\ ~Known(name)
    /\ status' = "crashed"
    /\ NoFrames
    /\ UNCHANGED <<ifs, session>>

(* VNSPACKET *)
Packet ==
    /\ session = "open"
    /\ HandlePacket
    /\ UNCHANGED session

(* In the main loop: VNSCLOSE, a broken command, or one of the commands of *)
(* the set-up that fails; when it does not fail it changes nothing.        *)
LeaveLoop(cmd) ==
    /\ Faults
    /\ status = "up"
    /\ session = "open"
    /\ \/ cmd \in SetUp /\ FALSE \in Handled
       \/ cmd \in {"close", "broken"}
    /\ status' = "exited"
    /\ NoFrames
    /\ UNCHANGED <<ifs, session>>

(* The server is gone: recv() returns 0, which sr_read_from_server_expect() *)
(* adds to bytes_read for ever.                                            *)
ServerGone ==
    /\ Faults
    /\ status = "up"
    /\ session # "start"
    /\ status' = "spinning"
    /\ NoFrames
    /\ UNCHANGED <<ifs, session>>

Clock == session = "open" /\ Tick /\ UNCHANGED session

---------------------------------------------------------------------------
Init == RouterInit /\ session = "start"

Next ==
    \/ Start
    \/ ConnectStep
    \/ \E cmd \in Command : Unexpected(cmd)
    \/ \E announced \in SUBSET Ifaces : HwInfo(announced)
    \/ HwInfoWithoutInterface
    \/ \E name \in IfName : PacketOnNoInterface(name)
    \/ Packet
    \/ \E cmd \in Command : LeaveLoop(cmd)
    \/ ServerGone
    \/ Clock

Spec == Init /\ [][Next]_vns_vars

---------------------------------------------------------------------------
(* Properties. *)

(* The tables have the types of their C structures. *)
TypeOK ==
    /\ DOMAIN cache \subseteq Addr
    /\ \A a \in DOMAIN cache : cache[a] \in [mac : Mac, age : CacheAge]
    /\ queue \in Seq(Entry)
    /\ status \in {"up", "hung", "crashed", "dangling", "exited", "spinning"}
    /\ heard \in [Addr -> [mac : Mac \union {NoMac}, age : CacheAge]]
    /\ ifs \subseteq Ifaces
    /\ session \in SetUp \union {"start", "open"}

(* Whatever interfaces the server announces, in whatever order and however *)
(* often, a packet for which the routing table has a route never crashes   *)
(* the router, unless it is sent to 0.0.0.0 or its lengths are not those   *)
(* of a packet without options, or such a packet waits: the interface of   *)
(* the route is there, and the entry found for the packet has others.      *)
RoutedNeverCrashes ==
    [][status' = "crashed" /\ (\A r \in Packets : Waiting(r) => r.form # "options") =>
         \A p \in Packets :
             HasRoute(p.dst) /\ p.dst # NoAddr /\ p.form = "plain"
             => ~HandleIp(p)]_vns_vars
===========================================================================
