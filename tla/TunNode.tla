------------------------------ MODULE TunNode ------------------------------
(***************************************************************************)
(* _run_tun() of mesh.py: what a mesh node changes in its host and puts back *)
(* (nat.py, netroute.py, meshdns.py, tun.py; Linux), against the map that     *)
(* keeps changing under it, and against crashes.                             *)
(*                                                                          *)
(* Four kinds of threads matter: the main one, which sets up, waits and tears *)
(* down; the control thread, which runs _on_map() and its callbacks;          *)
(* _resync(); and "udp", any other that calls on_transport_ips_changed().     *)
(* A crash is any end that runs no `finally`: SIGKILL, SIGTERM, and Ctrl-C    *)
(* before the try block or during the teardown.  What hangs on the TUN        *)
(* interface goes with it; everything else stays in the kernel.              *)
(*                                                                          *)
(* A change of the host and the note of it that the teardown reads are two     *)
(* steps wherever Ctrl-C, a crash or a failed write can come between them.    *)
(***************************************************************************)
EXTENDS Integers, Sequences, FiniteSets, Functions

CONSTANTS None,        \* nothing: no call pending, no upstream
          Setups,      \* the command lines under study, members of Setup
          Coord,       \* the coordinator's address
          Ends,        \* addresses of the peers' endpoints
          Cidrs,       \* subnets that peers advertise
          MaxStarts,   \* bound: how often the program is started
          MaxChanges   \* bound: changes of the map and of endpoints, per start

Setup == [nat : BOOLEAN,       \* --advertise-routes or --exit
          full : BOOLEAN,      \* --exit-node, with --lan-routes
          accept : BOOLEAN,    \* --accept-routes
          dns : BOOLEAN,       \* --dns
          given : BOOLEAN,     \* --dns-upstream
          forwards : BOOLEAN]  \* ip_forward is on before the first start

Loopback == "127.0.0.1"
Real == "real"                 \* the resolver the host was configured with

ASSUME TunNodeAssumption ==
  /\ Setups \subseteq Setup
  /\ None \notin {Loopback, Real}
  /\ Coord \notin Ends
  /\ (Ends \cup {Coord}) \cap {None, "lan", "split", "resolv", "emptied"} = {}
  /\ MaxStarts \in Nat /\ MaxChanges \in Nat

VARIABLES setup, starts, crashes, changes,
          pc,          \* the main thread's next step; "off" when there is no process
          tun,         \* the TUN interface exists
          forward,     \* net.ipv4.ip_forward
          nat,         \* the masquerading rules are installed
          resolv,      \* the nameservers of /etc/resolv.conf
          pins,        \* host routes on the physical interface
          lan,         \* the routes of --lan-routes are installed
          split,       \* 0.0.0.0/1 and 128.0.0.0/1 go into the tunnel
          routes,      \* subnets routed into the tunnel
          done,        \* node._done
          exitIn,      \* exit_node_pk is set
          ends,        \* endpoints of the exit and of the peers with a connection
          table,       \* _route_table
          wired,       \* the callbacks that are set: "routes", "pins"
          ctl,         \* where the control thread is in _on_map()
          diff,        \* what on_routes_changed is called with
          want,        \* want[t]: the set thread t calls sync_pins() with, or None
          resync,      \* the resync thread has been started
          found,       \* the main thread's copy of _route_table
          prevForward, \* SubnetNat._prev_forward
          adding,      \* the address main has pinned and not yet noted in _pinned
          pinned,      \* FullTunnelRoutes._pinned
          lanKnown,    \* FullTunnelRoutes._lan
          splitSet,    \* FullTunnelRoutes._split
          listening,   \* the DNS server runs
          upstream,    \* where it forwards to
          backup,      \* ResolverConfig._backup
          applied,     \* resolver_cfg is set, and _applied
          repinned,    \* history: a sync_pins() of another thread ran after teardown()
          torn         \* history: what was changed and, because Ctrl-C or an error came
                       \* between, never noted; "emptied": a write of resolv.conf that
                       \* got no further than the truncation

count  == <<setup, starts, crashes, changes>>
kernel == <<tun, forward, nat, resolv, pins, lan, split, routes>>
node   == <<done, exitIn, ends, table, wired, ctl, diff, want, resync>>
routing == <<adding, pinned, lanKnown, splitSet, repinned>>
dns    == <<listening, upstream, backup, applied>>
host   == <<found, prevForward, routing, dns, torn>>
vars   == <<count, pc, kernel, node, host>>

Addresses == Ends \cup {Coord}
Threads == {"main", "control", "resync", "udp"}

(* The steps of _run_tun() in their order.                                     *)
Sequence ==
  <<"nat", "rules", "wire", "read", "install", "gateway", "pin", "callback", "lan", "note lan",
    "split", "note split", "resync", "detect", "listen", "resolver", "write", "note resolver",
    "run", "close", "restore", "rewrite", "stop", "split off", "unpin", "cleanup">>
UnpinFirst ==         \* slip: teardown() unpins before it restores the default route
  [Sequence EXCEPT ![24] = "unpin", ![25] = "split off"]
StopFirst ==          \* slip: the DNS server stops before the resolver is restored
  [Sequence EXCEPT ![21] = "stop", ![22] = "restore", ![23] = "rewrite"]
Order == Sequence

Steps == Range(Order)
After(p) == Order[1 + CHOOSE i \in DOMAIN Order : Order[i] = p]
InTry == {"gateway", "pin", "callback", "lan", "note lan", "split", "note split", "resync",
          "detect", "listen", "resolver", "write", "note resolver", "run"}

TypeOK ==
  /\ setup \in Setups /\ pc \in Steps \cup {"off"}
  /\ starts \in 0 .. MaxStarts /\ crashes \in 0 .. starts /\ changes \in 0 .. MaxChanges
  /\ {tun, forward, nat, lan, split, done, exitIn, resync, prevForward, listening,
      lanKnown, splitSet, applied, repinned} \subseteq BOOLEAN
  /\ {resolv, backup} \subseteq {<<>>, <<Real>>, <<Loopback>>, <<Loopback, Real>>}
  /\ pins \subseteq Addresses /\ pinned \subseteq Addresses /\ adding \in Addresses \cup {None}
  /\ ends \subseteq Ends
  /\ routes \subseteq Cidrs /\ table \subseteq Cidrs /\ found \subseteq Cidrs
  /\ wired \subseteq {"routes", "pins"}
  /\ ctl \in {"idle", "routes", "peers", "check"}
  /\ diff \in [added : SUBSET Cidrs, removed : SUBSET Cidrs]
  /\ want \in [Threads -> SUBSET Addresses \cup {None}]
  /\ upstream \in {Loopback, Real, None}
  /\ torn \subseteq Addresses \cup {"lan", "split", "resolv", "emptied"}

-----------------------------------------------------------------------------
NoDiff == [added |-> {}, removed |-> {}]
NoWant == [t \in Threads |-> None]

Init ==
  /\ setup \in Setups /\ starts = 0 /\ crashes = 0 /\ changes = 0
  /\ pc = "off"
  /\ tun = FALSE /\ forward = setup.forwards /\ nat = FALSE /\ resolv = <<Real>>
  /\ pins = {} /\ lan = FALSE /\ split = FALSE /\ routes = {}
  /\ done = FALSE /\ exitIn = FALSE /\ ends = {} /\ table = {} /\ wired = {}
  /\ ctl = "idle" /\ diff = NoDiff /\ want = NoWant /\ resync = FALSE
  /\ found = {} /\ prevForward = FALSE /\ adding = None /\ pinned = {}
  /\ lanKnown = FALSE /\ splitSet = FALSE
  /\ listening = FALSE /\ upstream = None /\ backup = <<>> /\ applied = FALSE
  /\ repinned = FALSE /\ torn = {}

Start ==
  /\ pc = "off" /\ starts < MaxStarts
  /\ starts' = starts + 1 /\ changes' = 0
  /\ pc' = Order[1] /\ tun' = TRUE
  /\ UNCHANGED <<setup, crashes, forward, nat, resolv, pins, lan, split, routes, node, host>>

(* The process ends: the interface and its routes go, and all that is in memory;   *)
(* a write of resolv.conf that was under way is never done.                       *)
Gone ==
  /\ pc' = "off"
  /\ tun' = FALSE /\ split' = FALSE /\ routes' = {}
  /\ done' = FALSE /\ exitIn' = FALSE /\ ends' = {} /\ table' = {} /\ wired' = {}
  /\ ctl' = "idle" /\ diff' = NoDiff /\ want' = NoWant /\ resync' = FALSE
  /\ found' = {} /\ prevForward' = FALSE /\ adding' = None /\ pinned' = {}
  /\ lanKnown' = FALSE /\ splitSet' = FALSE
  /\ listening' = FALSE /\ upstream' = None /\ backup' = <<>> /\ applied' = FALSE
  /\ torn' = (torn \ {"split"}) \cup (IF resolv = <<>> THEN {"emptied"} ELSE {})

Crash ==
  /\ pc # "off" /\ Gone
  /\ crashes' = crashes + 1
  /\ UNCHANGED <<setup, starts, changes, forward, nat, resolv, pins, lan, repinned>>

At(p) == pc = p /\ pc' = After(p)

(* Steps that the command line does not ask for, and a resolver that was not      *)
(* pointed at this program.                                                   *)
Asked(p) ==
  CASE p \in {"nat", "rules", "cleanup"} -> setup.nat
    [] p \in {"wire", "read", "install"} -> setup.accept
    [] p \in {"gateway", "pin", "callback", "lan", "note lan", "split", "note split", "resync"}
         -> setup.full
    [] p \in {"detect", "listen", "resolver", "write", "note resolver"} -> setup.dns
    [] p \in {"restore", "rewrite"} -> applied
    [] OTHER -> TRUE

Skip ==
  /\ pc \in Steps \ {"cleanup"} /\ ~Asked(pc)
  /\ pc' = After(pc)
  /\ UNCHANGED <<count, kernel, node, host>>

-----------------------------------------------------------------------------
(* SubnetNat.apply(): ip_forward is read, then switched on; then the rules, in   *)
(* the place of those a crashed run left.                                      *)

RememberedLate == TRUE               \* slip: read after it was switched on
Remembered == forward

EnableForward ==
  /\ At("nat") /\ setup.nat
  /\ prevForward' = Remembered
  /\ forward' = TRUE
  /\ UNCHANGED <<count, tun, nat, resolv, pins, lan, split, routes, node,
                 found, routing, dns, torn>>

(* No backend, no egress, or ip_forward cannot be written: nothing was changed.  *)
NatRefused ==
  /\ pc = "nat" /\ setup.nat /\ Gone
  /\ UNCHANGED <<count, forward, nat, resolv, pins, lan, repinned>>

ApplyRules ==
  /\ At("rules") /\ setup.nat
  /\ nat' = TRUE
  /\ UNCHANGED <<count, tun, forward, resolv, pins, lan, split, routes, node, host>>

(* The stale rules are gone and the new ones refused: ip_forward is restored.     *)
RulesFail ==
  /\ pc = "rules" /\ setup.nat /\ Gone
  /\ nat' = FALSE
  /\ forward' = prevForward
  /\ UNCHANGED <<count, resolv, pins, lan, repinned>>

-----------------------------------------------------------------------------
(* --accept-routes: the callback is set before the table is read.               *)

WireRoutes ==
  /\ At("wire") /\ setup.accept
  /\ wired' = wired \cup {"routes"}
  /\ UNCHANGED <<count, kernel, done, exitIn, ends, table, ctl, diff, want, resync, host>>

ReadTable ==
  /\ At("read") /\ setup.accept
  /\ found' = table
  /\ UNCHANGED <<count, kernel, node, prevForward, routing, dns, torn>>

InstallRoutes ==
  /\ At("install") /\ setup.accept
  /\ routes' = routes \cup found
  /\ UNCHANGED <<count, tun, forward, nat, resolv, pins, lan, split, node, host>>

-----------------------------------------------------------------------------
(* --exit-node: full tunnel. *)

(* transport_ips(): what must keep to the physical network.                     *)
Transport == {Coord} \cup ends

(* The exit is in the map and there is a default route.                        *)
FindExit ==
  /\ At("gateway") /\ setup.full
  /\ exitIn
  /\ UNCHANGED <<count, kernel, node, host>>

(* No default route, no exit within 10 s, or the node is done: sys.exit().         *)
NoExit ==
  /\ pc = "gateway" /\ setup.full
  /\ pc' = "close"
  /\ UNCHANGED <<count, kernel, node, host>>

(* A thread computes transport_ips(), and calls sync_pins() with it later.        *)
Compute(t) ==
  /\ want[t] = None
  /\ want' = [want EXCEPT ![t] = Transport]
  /\ UNCHANGED <<count, pc, kernel, done, exitIn, ends, table, wired, diff, ctl, resync, host>>

ComputePins == pc = "pin" /\ setup.full /\ Compute("main")

(* sync_pins() by the main thread, when none is pinned yet: each address is pinned,   *)
(* then noted; Ctrl-C may come between.                                       *)
PinOne ==
  /\ pc = "pin" /\ want["main"] # None /\ adding = None
  /\ \E a \in want["main"] \ pinned : adding' = a /\ pins' = pins \cup {a}
  /\ UNCHANGED <<count, pc, tun, forward, nat, resolv, lan, split, routes, node,
                 found, prevForward, pinned, lanKnown, splitSet, repinned, dns, torn>>

NotePin ==
  /\ pc = "pin" /\ adding # None
  /\ pinned' = pinned \cup {adding}
  /\ adding' = None
  /\ UNCHANGED <<count, pc, kernel, node, found, prevForward, lanKnown, splitSet, repinned,
                 dns, torn>>

PinsDone ==
  /\ At("pin") /\ want["main"] # None /\ adding = None
  /\ want["main"] \subseteq pinned
  /\ want' = [want EXCEPT !["main"] = None]
  /\ UNCHANGED <<count, kernel, done, exitIn, ends, table, wired, ctl, diff, resync, host>>

(* FullTunnelRoutes._lock is held by the main thread.                             *)
Locked == adding # None \/ pc \in {"note lan", "note split", "unpin"}

(* sync_pins() by another thread, under the lock.  Ctrl-C reaches the main thread      *)
(* alone; a crash in the middle leaves some of these pins, as a crash before or        *)
(* behind it leaves none or all.                                                *)
Sync(t) ==
  /\ want[t] # None /\ ~Locked
  /\ pins' = (pins \cup (want[t] \ pinned)) \ (pinned \ want[t])
  /\ pinned' = want[t]
  /\ want' = [want EXCEPT ![t] = None]
  /\ repinned' = (repinned \/ pc = "cleanup")
  /\ ctl' = IF t = "control" THEN "idle" ELSE ctl
  /\ UNCHANGED <<count, pc, tun, forward, nat, resolv, lan, split, routes, done, exitIn, ends,
                 table, wired, diff, resync, found, prevForward, adding, lanKnown, splitSet,
                 dns, torn>>

WirePins ==
  /\ At("callback") /\ setup.full
  /\ wired' = wired \cup {"pins"}
  /\ UNCHANGED <<count, kernel, done, exitIn, ends, table, ctl, diff, want, resync, host>>

(* install_lan_routes() and install_split_default(): the routes, then the note.       *)
InstallLan ==
  /\ At("lan") /\ setup.full
  /\ lan' = TRUE
  /\ UNCHANGED <<count, tun, forward, nat, resolv, pins, split, routes, node, host>>

NoteLan ==
  /\ At("note lan") /\ setup.full
  /\ lanKnown' = TRUE
  /\ UNCHANGED <<count, kernel, node, found, prevForward, adding, pinned, splitSet, repinned,
                 dns, torn>>

InstallSplit ==
  /\ At("split") /\ setup.full
  /\ split' = TRUE
  /\ UNCHANGED <<count, tun, forward, nat, resolv, pins, lan, routes, node, host>>

NoteSplit ==
  /\ At("note split") /\ setup.full
  /\ splitSet' = TRUE
  /\ UNCHANGED <<count, kernel, node, found, prevForward, adding, pinned, lanKnown, repinned,
                 dns, torn>>

NoBackstop == FALSE                  \* slip: pins follow the map only
Backstop == TRUE

StartResync ==
  /\ At("resync") /\ setup.full
  /\ resync' = Backstop
  /\ UNCHANGED <<count, kernel, done, exitIn, ends, table, wired, ctl, diff, want, host>>

(* _resync(): every 2 s until the node is done.                                 *)
Resync == resync /\ ~done /\ Compute("resync")

-----------------------------------------------------------------------------
(* --dns. *)

(* --dns-upstream, or the first nameserver of resolv.conf.                      *)
Detect ==
  /\ At("detect") /\ setup.dns
  /\ upstream' = IF setup.given THEN Real ELSE IF resolv = <<>> THEN None ELSE Head(resolv)
  /\ UNCHANGED <<count, kernel, node, found, prevForward, routing, listening, backup, applied,
                 torn>>

Listen ==
  /\ At("listen") /\ setup.dns
  /\ listening' = TRUE
  /\ UNCHANGED <<count, kernel, node, found, prevForward, routing, upstream, backup, applied,
                 torn>>

(* The port cannot be bound: the tunnel stays up without DNS.                   *)
ListenFails ==
  /\ pc = "listen" /\ setup.dns
  /\ pc' = "run"
  /\ UNCHANGED <<count, kernel, node, host>>

(* linux_resolvconf(): ourselves, and the upstream unless it is ourselves.        *)
ResolvConf(up) == IF up \in {None, Loopback} THEN <<Loopback>> ELSE <<Loopback, up>>

(* ResolverConfig.apply(): resolv.conf is read, truncated when it is opened, written;   *)
(* then the note.                                                             *)
OpenResolver ==
  /\ At("resolver") /\ setup.dns
  /\ backup' = resolv
  /\ resolv' = <<>>
  /\ UNCHANGED <<count, tun, forward, nat, pins, lan, split, routes, node,
                 found, prevForward, routing, listening, upstream, applied, torn>>

WriteResolver ==
  /\ At("write") /\ setup.dns
  /\ resolv' = ResolvConf(upstream)
  /\ UNCHANGED <<count, tun, forward, nat, pins, lan, split, routes, node, host>>

NoteResolver ==
  /\ At("note resolver") /\ setup.dns
  /\ applied' = TRUE
  /\ UNCHANGED <<count, kernel, node, found, prevForward, routing, listening, upstream, backup,
                 torn>>

(* resolv.conf cannot be opened for writing, or not be written: a warning.        *)
ResolverFails ==
  /\ pc = "resolver" /\ setup.dns
  /\ pc' = "run"
  /\ UNCHANGED <<count, kernel, node, host>>

WriteFails ==
  /\ pc = "write" /\ setup.dns
  /\ pc' = "run"
  /\ torn' = torn \cup {"emptied"}
  /\ UNCHANGED <<count, kernel, node, found, prevForward, routing, dns>>

-----------------------------------------------------------------------------
(* The end. *)

(* The main thread looks every second.                                         *)
Finish ==
  /\ pc = "run" /\ done
  /\ pc' = "close"
  /\ UNCHANGED <<count, kernel, node, host>>

(* Ctrl-C, anywhere in the try block: what was changed and not noted is not undone.  *)
Halfway ==
  IF ~Asked(pc) THEN {} ELSE
  CASE pc = "pin" /\ adding # None -> {adding}
    [] pc = "note lan" -> {"lan"}
    [] pc = "note split" -> {"split"}
    [] pc = "write" -> {"emptied"}
    [] pc = "note resolver" -> {"resolv"}
    [] OTHER -> {}

Interrupt ==
  /\ pc \in InTry
  /\ pc' = "close"
  /\ want' = [want EXCEPT !["main"] = None]
  /\ torn' = torn \cup Halfway
  /\ adding' = None
  /\ UNCHANGED <<count, kernel, done, exitIn, ends, table, wired, ctl, diff, resync,
                 found, prevForward, pinned, lanKnown, splitSet, repinned, dns>>

Close ==
  /\ At("close")
  /\ wired' = wired \ {"pins"}
  /\ done' = TRUE
  /\ UNCHANGED <<count, kernel, exitIn, ends, table, ctl, diff, want, resync, host>>

(* ResolverConfig.restore(): resolv.conf is truncated when it is opened, then written;   *)
(* errors are swallowed.                                                      *)
Restore ==
  /\ At("restore") /\ applied
  /\ resolv' = <<>>
  /\ UNCHANGED <<count, tun, forward, nat, pins, lan, split, routes, node, host>>

Rewrite ==
  /\ At("rewrite") /\ applied
  /\ resolv' = backup
  /\ applied' = FALSE
  /\ UNCHANGED <<count, tun, forward, nat, pins, lan, split, routes, node,
                 found, prevForward, routing, listening, upstream, backup, torn>>

RestoreFails ==
  /\ pc \in {"restore", "rewrite"} /\ applied
  /\ pc' = "stop"
  /\ applied' = FALSE
  /\ torn' = torn \cup {IF pc = "restore" THEN "resolv" ELSE "emptied"}
  /\ UNCHANGED <<count, kernel, node, found, prevForward, routing, listening, upstream, backup>>

StopDns ==
  /\ At("stop")
  /\ listening' = FALSE
  /\ UNCHANGED <<count, kernel, node, found, prevForward, routing, upstream, backup, applied, torn>>

(* FullTunnelRoutes.teardown(): the default route first, then the pins; of each what   *)
(* is noted.                                                                  *)
SplitOff ==
  /\ At("split off")
  /\ split' = (split /\ ~splitSet)
  /\ splitSet' = FALSE
  /\ UNCHANGED <<count, tun, forward, nat, resolv, pins, lan, routes, node,
                 found, prevForward, adding, pinned, lanKnown, repinned, dns, torn>>

Unpin ==
  /\ At("unpin")
  /\ pins' = pins \ pinned
  /\ pinned' = {}
  /\ lan' = (lan /\ ~lanKnown)
  /\ lanKnown' = FALSE
  /\ UNCHANGED <<count, tun, forward, nat, resolv, split, routes, node,
                 found, prevForward, adding, splitSet, repinned, dns, torn>>

(* SubnetNat.cleanup(), dev.close(), and the process returns.                    *)
Cleanup ==
  /\ pc = "cleanup" /\ Gone
  /\ nat' = IF setup.nat THEN FALSE ELSE nat
  /\ forward' = IF setup.nat THEN prevForward ELSE forward
  /\ UNCHANGED <<count, resolv, pins, lan, repinned>>

-----------------------------------------------------------------------------
(* The control thread: _on_map(). *)

DiffSwapped(old, new) == [added |-> old \ new, removed |-> new \ old]   \* slip: the wrong order
Diff(old, new) == [added |-> new \ old, removed |-> old \ new]

(* _refresh_routes() swaps the table, and calls back when it has changed.        *)
MapArrives ==
  /\ pc # "off" /\ ~done /\ ctl = "idle" /\ changes < MaxChanges
  /\ changes' = changes + 1
  /\ \E new \in SUBSET Cidrs :
       /\ ~setup.accept => new = {}
       /\ table' = new
       /\ IF "routes" \in wired /\ new # table
          THEN ctl' = "routes" /\ diff' = Diff(table, new)
          ELSE ctl' = "peers" /\ UNCHANGED diff
  /\ UNCHANGED <<setup, starts, crashes, pc, kernel, done, exitIn, ends, wired, want, resync, host>>

(* _sync_routes() of _run_tun().                                               *)
SyncRoutes ==
  /\ ctl = "routes"
  /\ routes' = (routes \cup diff.added) \ diff.removed
  /\ diff' = NoDiff
  /\ ctl' = "peers"
  /\ UNCHANGED <<count, pc, tun, forward, nat, resolv, pins, lan, split,
                 done, exitIn, ends, table, wired, want, resync, host>>

(* The peers of the map and _resolve_exit_node(), then the look at the callback.   *)
TakePeers ==
  /\ ctl = "peers"
  /\ IF setup.full THEN exitIn' \in BOOLEAN /\ ends' \in SUBSET Ends
                   ELSE UNCHANGED <<exitIn, ends>>
  /\ ctl' = IF "pins" \in wired THEN "check" ELSE "idle"
  /\ UNCHANGED <<count, pc, kernel, done, table, wired, diff, want, resync, host>>

CallBack == ctl = "check" /\ "pins" \in wired /\ Compute("control")

(* Another thread calls back: _handle_hs() after a handshake with the exit, and        *)
(* _ensure_connecting(), when a connection is begun.                             *)
UdpCalls == "pins" \in wired /\ Compute("udp")

(* The callback was unset since it was looked at: an error, caught in run().      *)
CallNone ==
  /\ ctl = "check" /\ want["control"] = None /\ "pins" \notin wired
  /\ ctl' = "idle"
  /\ UNCHANGED <<count, pc, kernel, done, exitIn, ends, table, wired, diff, want, resync, host>>

(* A connection to a peer is opened, or a punched endpoint found, between maps.   *)
Punch ==
  /\ pc # "off" /\ setup.full /\ ~done /\ changes < MaxChanges
  /\ \E e \in Ends \ ends : ends' = ends \cup {e}
  /\ changes' = changes + 1
  /\ UNCHANGED <<setup, starts, crashes, pc, kernel, done, exitIn, table, wired, ctl, diff,
                 want, resync, host>>

(* run() ends with its channel.                                                *)
ChannelEnds ==
  /\ pc # "off" /\ ~done /\ ctl = "idle"
  /\ done' = TRUE
  /\ UNCHANGED <<count, pc, kernel, exitIn, ends, table, wired, ctl, diff, want, resync, host>>

-----------------------------------------------------------------------------
SetUp ==
  \/ Skip
  \/ EnableForward \/ NatRefused \/ ApplyRules \/ RulesFail
  \/ WireRoutes \/ ReadTable \/ InstallRoutes
  \/ FindExit \/ NoExit \/ ComputePins \/ PinOne \/ NotePin \/ PinsDone \/ WirePins
  \/ InstallLan \/ NoteLan \/ InstallSplit \/ NoteSplit \/ StartResync
  \/ Detect \/ Listen \/ ListenFails
  \/ OpenResolver \/ ResolverFails \/ WriteResolver \/ WriteFails \/ NoteResolver
  \/ Finish
TearDown ==
  \/ Close \/ Restore \/ Rewrite \/ RestoreFails \/ StopDns
  \/ SplitOff \/ Unpin \/ Cleanup
Control == SyncRoutes \/ TakePeers \/ CallBack \/ CallNone \/ Sync("control")
Others == Resync \/ Sync("resync") \/ UdpCalls \/ Sync("udp")

Next ==
  \/ Start \/ Crash \/ Interrupt
  \/ SetUp \/ TearDown \/ Control \/ Others
  \/ MapArrives \/ Punch \/ ChannelEnds

(* Threads that can run do; maps, handshakes, Ctrl-C, crashes and starts need not     *)
(* come.                                                                      *)
Fairness ==
  /\ WF_vars(SetUp) /\ WF_vars(TearDown) /\ WF_vars(Control)
  /\ WF_vars(Resync) /\ WF_vars(Sync("resync")) /\ WF_vars(Sync("udp"))

Spec == Init /\ [][Next]_vars /\ Fairness

-----------------------------------------------------------------------------
(* The comment at mesh.py:1070 and transport_ips(): while the default route goes  *)
(* into the tunnel, the coordinator and all endpoints last pinned keep to the     *)
(* physical network, whatever thread pins and whatever a crash has left behind;   *)
(* otherwise the tunnel would carry itself.  The code has one exception: Ctrl-C    *)
(* before _split is set, then teardown() unpins and lets the default route stay    *)
(* until the device is closed.                                                 *)
TransportPinned ==
  split => \/ Coord \in pins /\ Coord \in pinned /\ pinned \subseteq pins
           \/ pc = "cleanup" /\ "split" \in torn

(* A process that returns by itself leaves the host as it was before the first     *)
(* start, whatever step failed or was interrupted.  The code has these exceptions:  *)
(* what was changed and not noted (torn) stays; a process that crashed before this   *)
(* one leaves its pins, ip_forward and resolv.conf behind for good; and a            *)
(* sync_pins() that ran after teardown() leaves what it pinned.                    *)
Clean ==
  /\ ~tun /\ ~split /\ routes = {}
  /\ crashes = 0 =>
       /\ ~nat /\ forward = setup.forwards
       /\ lan => "lan" \in torn
       /\ repinned \/ pins \subseteq torn
       /\ resolv = <<Real>> \/ torn \cap {"resolv", "emptied"} # {}
ReturnsClean == [][pc # "off" /\ pc' = "off" /\ crashes' = crashes => Clean']_vars

(* Once the set-up has installed what it found, every accepted subnet is routed,   *)
(* up to the change the control thread is busy with: the callback and the first     *)
(* installation together miss none, in whatever order they run.                  *)
AcceptedIsRouted ==
  setup.accept /\ pc \in Steps \ {"nat", "rules", "wire", "read", "install"} /\ ctl # "routes" => table \subseteq routes

(* linux_resolvconf() and detect_upstream(): while the host is pointed at this      *)
(* program, the server runs and forwards to a real resolver; and whether it is or    *)
(* not, a real resolver is named, but for the moment of a write and for a write      *)
(* that got no further than the truncation.  Without --dns-upstream the code has     *)
(* two more exceptions: after a crash, and after a resolv.conf that was not put      *)
(* back, this program's own file is taken for the host's.                         *)
NamesResolve ==
  setup.given \/ (crashes = 0 /\ torn \cap {"resolv", "emptied"} = {}) =>
    /\ applied => listening /\ upstream = Real
    /\ pc \in {"write", "rewrite"} \/ "emptied" \in torn \/ Real \in Range(resolv)

(* Once maps and endpoints stay, and nobody stops the program, the pins become and   *)
(* stay exactly the transport addresses, whatever order the threads pin in.        *)
PinsSettle == <>[](setup.full /\ pc = "run" => pinned = Transport)

-----------------------------------------------------------------------------
(* Claims of the source that the code does not keep; no run checks them. *)

(* netroute.py:17-19 and mesh.py:1048: any early exit tears the routes down, and the   *)
(* pins are removed explicitly.                                                *)
LeavesNoRoute ==
  [][pc # "off" /\ pc' = "off" /\ crashes' = 0 /\ ~repinned' => pins' = {} /\ ~lan']_vars

(* ResolverConfig: the original bytes are restored on a clean exit.               *)
RestoresResolver ==
  [][pc = "cleanup" /\ pc' = "off" /\ crashes' = 0 => resolv' = <<Real>>]_vars
=============================================================================
