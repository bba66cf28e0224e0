----------------------------- MODULE CheckHosts -----------------------------
(***************************************************************************)
(* checks.Evaluate, the part about the hosts: what the probe of a node     *)
(* says, compared with what the API says of that node and with the other   *)
(* probes (address.go, endpoint.go, network.go, nodehealth.go,             *)
(* preflight.go, and the node's part of cloud.go and storage_backend.go).  *)
(*                                                                         *)
(* The facts of "config", "journal" and "images" are those of the slower   *)
(* tiers: they are as old as the tier, and beside a probe of this cycle.   *)
(***************************************************************************)
EXTENDS Checks

\* What is wrong with a node by its own facts alone.
OfItself(d, l, fs) == {x \in Hosts(d) \X fs : Has(d, l, x[1], x[2])}

\* The node, and the address the API knows it by: another node may hold it.
Servers(d) == With(d, "probe", "control plane")

-----------------------------------------------------------------------------
(* Addresses and endpoints                                                 *)

\* Nodes that do not hold an address any more (missingNodeIPs) that the API still
\* shows, or node-ip names.
Pinned(d) == With(d, "probe", "address gone") \cap With(d, "config", "node-ip pinned")
Moved(d) == Pinned(d) \cup (With(d, "probe", "address gone") \cap With(d, "nodes", "old address"))

\* evalAddresses.  "joins n" : server: is the address n had, or has.
Addresses(d) ==
    LET Joins(n) == {m \in Node : Has(d, "config", n, "joins " \o m)}
        Known(m) == m \in Listed(d) \/ m \in Servers(d) \ With(d, "probe", "address gone")
    IN {<<n, "node-ip is gone">> : n \in Pinned(d)}
           \cup {<<n, "joins an old address">> : n \in {m \in Hosts(d) : Joins(m) \cap (Moved(d) \ {m}) # {}}}
           \cup {<<n, "joins an unknown address">> :
                   n \in {m \in Hosts(d) : /\ Joins(m) \cap (Moved(d) \ {m}) = {}
                                           /\ \E o \in Joins(m) : ~Known(o)}}

\* Endpoint, evalEndpoint: the kubeconfig's host against each server's certificate.
Endpoint(d) ==
    LET withCert == Servers(d) \cap With(d, "config", "serving certificate")
        proxied == <<"here", "-", "server is Rancher's">> \in d.facts
        pointsAt == {n \in Listed(d) : <<"here", n, "server is its address">> \in d.facts}
    IN OfItself(d, "config", {"tls-san not in certificate"})
           \cup {<<n, "kubeconfig host not in certificate">> :
                   n \in IF proxied THEN {} ELSE withCert \ With(d, "config", "certificate has the host")}
           \cup When(proxied, <<"endpoint", "goes through Rancher">>)
           \cup When(pointsAt # {} /\ Cardinality(Servers(d)) > 1, <<"endpoint", "is a single server">>)

\* evalVIP: an address of the API that the API files under no node.
VIP(d) ==
    LET used == <<"here", "-", "server is an address">> \in d.facts \/ Some(d, "config", "joins the VIP")
        holders == With(d, "probe", "holds the VIP")
        managed == Some(d, "pods", "kube-vip") \/ Some(d, "probe", "keepalived")
        ofNode == \E n \in Listed(d) : Has(d, "nodes", n, "the VIP is its address")
    IN IF ~used \/ ofNode \/ Hosts(d) = {} THEN {}
       ELSE When(Cardinality(holders) > 1, <<"vip", "held by several nodes">>)
                \cup When(holders = {} /\ managed, <<"vip", "held by no node">>)

-----------------------------------------------------------------------------
(* evalNetwork                                                             *)

\* What the API knows of the past: a condition that cleared, an agent that restarted.
NetworkHistory(d) == Of(d, "nodes", {"network was unavailable"}) \cup Of(d, "pods", {"CNI agent restarted"})

\* The tunnels of a node: one that is down says nothing next to one that is up.
Tunnels(d) ==
    {<<n, "tunnel down">> : n \in With(d, "probe", "tunnel down")
                                    \ (With(d, "probe", "it is a generic one") \cap With(d, "probe", "other tunnel up"))}
        \cup OfItself(d, "probe", {"tunnel does not fit"})
        \cup OfItself(d, "config", {"bridge differs from the CNI's MTU"})
        \cup When({m \in {"MTU 1450", "MTU 8950"} : Some(d, "probe", m)} = {"MTU 1450", "MTU 8950"},
                  <<"network", "MTU differs">>)

\* The probes each node sends: to the pods of the others, to CoreDNS by pod and
\* by service, to the kubernetes service.  Which of them fail together names the cause.
Reach(d) ==
    LET Fails(n, k) == Has(d, "config", n, k \o " fails")
        Works(n, k) == Has(d, "config", n, k \o " works")
    IN {<<n, IF Works(n, "ping") \/ ~Has(d, "config", n, "several peers") THEN "path to a node broken"
             ELSE "overlay of the node broken">> : n \in {m \in Hosts(d) : Fails(m, "ping")}}
           \cup {<<n, IF Works(n, "dns pod") \/ Fails(n, "ping") THEN "a CoreDNS pod is silent"
                      ELSE "CoreDNS is silent">> : n \in {m \in Hosts(d) : Fails(m, "dns pod")}}
           \cup {<<n, IF Works(n, "dns pod") THEN "service routing broken" ELSE "DNS service silent">> :
                   n \in {m \in Hosts(d) : /\ Fails(m, "dns service")
                                           /\ Works(m, "dns pod") \/ ~Fails(m, "dns pod")}}
           \cup {<<n, IF Works(n, "dns service") THEN "apiserver unreachable" ELSE "kubernetes service unreachable">> :
                   n \in {m \in Hosts(d) : Fails(m, "tcp")}}
           \cup OfItself(d, "config", {"network probe skipped"})

Network(d) == NetworkHistory(d) \cup Tunnels(d) \cup Reach(d)

-----------------------------------------------------------------------------
(* evalNodeHealth, evalKernelLog, evalNodeRuntime                          *)

\* A cgroup v1 host is fatal under the kubelet version the API reports.
Cgroup(d) ==
    {<<n, IF Has(d, "nodes", n, "kubelet 1.35") /\ ~Has(d, "probe", n, "fail-cgroupv1 off")
          THEN "kubelet will not start on cgroup v1" ELSE "cgroup v1">> : n \in With(d, "config", "cgroup v1")}

\* The resolver that pods inherit, when it is a file the probe read.
Resolver(d) ==
    {<<n, "local stub resolver">> : n \in With(d, "config", "nameserver is local") \ With(d, "probe", "resolver not read")}

NodeHealth(d) ==
    OfItself(d, "probe", {"read-only filesystem", "conntrack filling"})
        \cup OfItself(d, "config", {"inotify watches", "too many nameservers", "checksum offload"})
        \cup {<<n, "bridge bypasses iptables">> : n \in With(d, "config", "no br_netfilter") \ With(d, "config", "cilium")}
        \cup Cgroup(d) \cup Resolver(d)

KernelLog(d) ==
    Of(d, "logs", {"filesystem errors", "conntrack overflowed", "hung tasks", "lockups", "hardware errors",
                   "link down", "neighbour overflow"})

\* Leaked addresses: more allocations of the node's range than pods run there.
IPAM(d) ==
    {<<n, "pod range used up">> : n \in With(d, "config", "range used up")}
        \cup {<<n, "leaked pod IPs">> : n \in With(d, "config", "many allocations")
                                                \ (With(d, "config", "range used up") \cup With(d, "pods", "many pods"))}

\* crictl ps timed out, failed, or was slow: the first of them is said.
Runtime(d) ==
    LET silent == With(d, "journal", "runtime silent")
        fails == With(d, "journal", "runtime fails") \ silent
        slow == With(d, "journal", "runtime slow") \ (silent \cup fails)
    IN {<<n, "runtime silent">> : n \in silent} \cup {<<n, "runtime fails">> : n \in fails}
           \cup {<<n, "runtime slow">> : n \in slow}
           \cup OfItself(d, "journal", {"leaked sandboxes", "SELinux denials"})
           \cup OfItself(d, "probe", {"disk saturated", "NIC errors", "link flaps", "bond without redundancy",
                                       "ARP table filling"})
           \cup IPAM(d)

-----------------------------------------------------------------------------
(* evalPreflight                                                           *)

KubeletUp(d) == With(d, "probe", "server unit runs") \cup With(d, "probe", "agent unit runs")

\* The swap is seen by every probe; what the kubelet makes of it is in its flags and,
\* on rke2 and k3s, in the drop-in that the config tier reads.
Swap(d) ==
    LET on == With(d, "probe", "swap on")
        allowed == (With(d, "probe", "fail-swap-on=false") \cup With(d, "config", "failSwapOn: false"))
                       \ With(d, "probe", "fail-swap-on=true")
    IN {<<n, IF n \in allowed THEN "swap in use"
             ELSE IF n \in KubeletUp(d) THEN "kubelet will not start again with swap"
             ELSE "kubelet does not start with swap">> : n \in on}
           \cup {<<n, "swap comes back at boot">> : n \in With(d, "config", "swap in fstab") \ on}

\* On rke2 and k3s: the rules that let the runtime execute, for the directory in use,
\* compiled, and before the catch-all deny.  For every driver that runs here, its
\* directory.  And what the daemon denied meanwhile.
Fapolicyd(d) ==
    LET runs == With(d, "probe", "fapolicyd") \cap With(d, "config", "fapolicyd asked")
        enforcing == runs \ With(d, "config", "permissive")
        rules == With(d, "config", "rules for the runtime")
        covers == rules \cap With(d, "config", "rules cover data-dir")
        loaded == covers \cap With(d, "config", "rules compiled")
    IN {<<n, "fapolicyd denies the runtime">> : n \in enforcing \ rules}
           \cup {<<n, "fapolicyd denies data-dir">> : n \in enforcing \cap (rules \ covers)}
           \cup {<<n, "fapolicyd rules not loaded">> : n \in enforcing \cap (covers \ loaded)}
           \cup {x \in (enforcing \cap loaded) \X {"fapolicyd rules after the deny", "fapolicyd rules stale"} :
                    Has(d, "config", x[1], x[2])}
           \cup {<<n, "fapolicyd denies a driver">> :
                   n \in {m \in enforcing \cap rules : /\ Has(d, "config", m, "driver's directory")
                                                       /\ Has(d, "csidrivers", "longhorn", "exists") \/ Has(d, "config", m, "longhorn")
                                                       /\ ~Has(d, "config", m, "rules for the driver")}}
           \cup {<<n, "fapolicyd denied executions">> : n \in runs \cap With(d, "journal", "denials today")}

\* What the registered drivers need of the host.
CSIHost(d) ==
    {<<n, "iscsid not running">> : n \in With(d, "config", "longhorn") \ With(d, "config", "iscsid")}
        \cup {<<n, "multipathd takes the volumes">> :
                n \in (With(d, "config", "longhorn") \cap With(d, "config", "multipathd"))
                          \ With(d, "config", "multipath blacklist")}

\* auditd stops the node, or the log, when its filesystem fills.
Auditd(d) ==
    LET near == With(d, "probe", "audit log's disk filling")
        halts == With(d, "config", "auditd halts the node")
        warns == With(d, "config", "auditd halts at space_left")
        suspends == With(d, "config", "auditd suspends")
    IN {<<n, "auditd will halt the node">> : n \in halts \cap near}
           \cup {<<n, "auditd may halt the node">> : n \in (halts \cap warns) \ near}
           \cup {<<n, "auditd will stop logging">> : n \in (suspends \cap near) \ halts}

Accounts(d) ==
    OfItself(d, "config", {"password expired", "password expires", "password must change", "account expired",
                           "provisioning password ages", "no etcd user", "etcd user differs", "etcd owner differs"})
        \cup {<<n, "account locked out">> : n \in With(d, "config", "failed logins") \ With(d, "config", "unlock time over")}
        \cup {<<n, IF Has(d, "config", n, "has a password") THEN "sudo asks for the password"
                   ELSE "sudo asks for a password it has not">> :
                n \in With(d, "config", "provisioning sudo") \ With(d, "config", "NOPASSWD")}

\* The node addresses that NO_PROXY has to cover come from the API.
Proxies(d) ==
    LET set == With(d, "config", "proxy")
        has == With(d, "config", "NO_PROXY")
        Uncovered(n) == \E m \in Listed(d) : ~Has(d, "config", n, "NO_PROXY covers " \o m)
    IN {<<n, "proxy without NO_PROXY">> : n \in set \ has}
           \cup {<<n, "NO_PROXY misses nodes">> : n \in {m \in set \cap has : Uncovered(m)}}
           \cup {<<n, "proxy for shells only">> : n \in With(d, "config", "shell proxy") \ set}

\* cloud-init, its CD-ROM, and the tools Rancher's vSphere driver needs.
Provisioning(d) ==
    LET disabled == With(d, "config", "CD-ROM disabled") \cap With(d, "config", "cloud-init")
        vm == With(d, "config", "VMware")
    IN {<<n, IF Has(d, "config", n, "seeded from CD-ROM") THEN "user data unreadable at next boot"
             ELSE IF n \in vm THEN "CD-ROM disabled on VMware" ELSE "CD-ROM disabled">> : n \in disabled}
           \cup OfItself(d, "config", {"cloud-init errors", "cloud-init units failed", "datasource excludes NoCloud"})
           \cup {<<n, "no VMware tools">> : n \in vm \ With(d, "config", "tools")}
           \cup {<<n, "VMware tools not running">> :
                   n \in (vm \cap With(d, "config", "tools")) \ With(d, "config", "tools run")}

\* Firewalls, NetworkManager and old iptables under a Calico-like CNI.
HostNetwork(d) ==
    LET calico == With(d, "config", "calico")
    IN {<<n, "firewalld runs">> : n \in calico \cap With(d, "probe", "firewalld")}
           \cup {<<n, "NetworkManager manages the CNI">> :
                   n \in (calico \cap With(d, "config", "NetworkManager")) \ With(d, "config", "unmanaged")}
           \cup {<<n, "nm-cloud-setup">> : n \in calico \cap With(d, "config", "nm-cloud-setup")}
           \cup OfItself(d, "config", {"iptables bug", "ip_forward off", "inotify instances"})

SELinux(d) ==
    LET enforcing == With(d, "probe", "SELinux enforcing") \cap With(d, "config", "packages asked")
        policy == With(d, "config", "policy packages")
        on == With(d, "config", "selinux: true")
    IN {<<n, IF n \in on THEN "no SELinux policy, containers denied" ELSE "no SELinux policy">> : n \in enforcing \ policy}
           \cup {<<n, "SELinux not on in the runtime">> : n \in (enforcing \cap policy) \ on}
           \cup {<<n, "no rancher-selinux">> :
                   n \in (enforcing \cap With(d, "probe", "provisioned")) \ With(d, "config", "rancher-selinux")}

\* regVerdict, pullVerdict: a registry the node's curl cannot use, and an image
\* containerd cannot pull although it holds it.
Registries(d) ==
    LET keys == With(d, "config", "key names no endpoint")
        pulls == With(d, "images", "pull fails")
    IN {<<n, "registry file missing">> : n \in With(d, "config", "registry file missing")}
           \cup {<<n, "registry key names no endpoint">> : n \in keys}
           \cup {x \in (Hosts(d) \ keys) \X {"registry unreachable", "registry refuses"} : Has(d, "config", x[1], x[2])}
           \cup {<<n, IF Has(d, "images", n, "fell through") THEN "mirror does not hold the image"
                      ELSE "containerd cannot pull">> : n \in pulls}
           \cup {<<n, "pulls not tested">> : n \in With(d, "images", "no crictl") \cap With(d, "config", "mirrors")}

\* The mounts the runtime executes from.
Noexec(d) == OfItself(d, "config", {"data dir noexec", "kubelet dir noexec"})

Preflight(d) ==
    Swap(d) \cup Fapolicyd(d) \cup CSIHost(d) \cup Auditd(d) \cup Noexec(d) \cup Accounts(d) \cup Proxies(d)
        \cup Provisioning(d) \cup HostNetwork(d) \cup SELinux(d) \cup Registries(d)

=============================================================================
