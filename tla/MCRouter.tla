----------------------------- MODULE MCRouter -----------------------------
(* Instances of Vns, and with it of Router, for TLC. *)
EXTENDS Vns, TLC

Pkt(n, dst, kind, ttl, to, form) ==
    [id |-> n, dst |-> dst, kind |-> kind, ttl |-> ttl, on |-> "eth0",
     to |-> to, form |-> form]

ToHost(n, dst) == Pkt(n, dst, "other", 2, "iface", "plain")

OneIface == {[name |-> "eth0", ip |-> "r"]}
TwoIfaces == {[name |-> "eth0", ip |-> "r"], [name |-> "eth1", ip |-> "s"]}

Lan(hosts, mask, gw, on) == [net |-> hosts, mask |-> mask, gw |-> gw, iface |-> on]

(* A longer and a shorter match for h, which 0.0.0.0 has, too; none for g. *)
NoDefault == <<Lan({"h"}, 24, "h", "eth1"), Lan({"h", NoAddr}, 16, "g", "eth0")>>

(* A default route through a gateway, as in stub_sr/rtable. *)
Gateway == <<Lan(Addr \union IfAddr \union {NoAddr}, 0, "g", "eth0")>>

(* Packets to several hosts. *)
TwoHosts == {ToHost(1, "g"), ToHost(2, "h")}

MacSymmetry == Permutations(Mac)

AllKinds == {Pkt(1, "h", "other", 2, "iface", "options"),
             Pkt(2, "h", "error", 1, "iface", "plain"),
             ToHost(3, NoAddr),
             ToHost(4, "g"),
             Pkt(5, "h", "bad", 2, "iface", "plain"),
             Pkt(6, "h", "error", 0, "iface", "plain"),
             Pkt(7, "h", "other", 0, "iface", "options"),
             Pkt(8, "r", "echo", 1, "iface", "plain"),
             Pkt(9, "r", "icmp", 1, "iface", "plain"),
             Pkt(10, "r", "icmp", 1, "iface", "short"),
             Pkt(11, "r", "other", 1, "broadcast", "options")}
===========================================================================
