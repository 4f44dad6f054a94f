---------------------------- MODULE FileServers ----------------------------
(* The file servers: the manager that brings the running servers in line   *)
(* with the stored settings, and the virtual hosts on which it and the     *)
(* registry listeners share HTTP ports. An FTP or TFTP server ("ftp")      *)
(* binds its port in a goroutine, after a check that the port is free; an  *)
(* SFTP server when it is made, with a host key that it generates when the *)
(* settings have none; an S3 or WebDAV server ("http") publishes a binding. *)
EXTENDS Integers, Sequences

CONSTANTS
  Servers,       \* the ids of the server entries, 1..n, in configured order
  Entries,       \* what an entry may be; its port, and for HTTP its hostname and tls
  Endpoints,     \* what a registry listener may be; one or two are configured
  ServePorts,
  ServeRequests, \* the requests that may overlap
  MaxSaves,      \* the changes of the settings, of the listener and of other programs
  MaxHostKeys    \* the SFTP host keys generated

ASSUME ServeAssumption ==
  /\ \A id \in Servers : id \in Nat \ {0} /\ 1..id \subseteq Servers
  /\ \A e \in Entries :
       /\ e.protocol \in {"ftp", "sftp", "http"} /\ e.port \in ServePorts
       /\ e = [protocol |-> e.protocol, port |-> e.port, host |-> e.host, tls |-> e.tls, key |-> 0]
  /\ MaxSaves \in Nat /\ MaxHostKeys \in Nat

\* An entry: its protocol, "none" when it is absent or disabled, and the host key
\* stored with it, 0 for none.
NoEntry == [protocol |-> "none", port |-> 0, host |-> "", tls |-> FALSE, key |-> 0]
WithKey(e, key) == [e EXCEPT !.key = key]
KeyedEntries == {WithKey(e, key) : e \in Entries, key \in 0..MaxHostKeys}
Configs == [Servers -> KeyedEntries \cup {NoEntry}]
ServeIdle == [do |-> "idle"]
Http == -1  \* the virtual hosts listen on a port
Other == -2 \* another program does
NoGroup == [open |-> FALSE, tls |-> FALSE, routes |-> {}]

VARIABLES
  serveStored,    \* the stored settings: the entry of each server
  serveInstances, \* Manager.instances: the entry each running server was started with
  serveBinds,     \* what became of the listener its goroutine was to open
  serveOps,       \* the requests under way
  serveHosts,     \* vhost Manager.owners: the bindings of each owner
  serveGroups,    \* vhost Manager.groups: the shared listener of each port
  servePorts,     \* who listens on each port: 0, a server, Http or Other
  serveChanges,   \* the changes so far
  serveKeys,      \* the host keys generated so far
  serveSettled    \* history: the reconciliations of the stored settings in a row, to 2

serveVars == <<serveStored, serveInstances, serveBinds, serveOps, serveHosts, serveGroups,
               servePorts, serveChanges, serveKeys, serveSettled>>
serverVars == <<serveInstances, serveBinds>>

ServeInit ==
  /\ serveStored = [id \in Servers |-> NoEntry]
  /\ serveInstances = [id \in Servers |-> NoEntry]
  /\ serveBinds = [id \in Servers |-> "no"]
  /\ serveOps = [r \in ServeRequests |-> ServeIdle]
  /\ serveHosts = [registry |-> <<>>, serve |-> <<>>]
  /\ serveGroups = [p \in ServePorts |-> NoGroup]
  /\ servePorts = [p \in ServePorts |-> 0]
  /\ serveChanges = 0 /\ serveKeys = 0 /\ serveSettled = 0

ServeChange == serveChanges < MaxSaves /\ serveChanges' = serveChanges + 1

(***************************************************************************)
(* vhost: SetBindings merges the owners' bindings, those of the registry   *)
(* first, and brings the listener of every port in line.                   *)
(***************************************************************************)
\* A binding names its server, 0 for a registry listener.
Binding(id, e) == [id |-> id, port |-> e.port, host |-> e.host, tls |-> e.tls]
DesiredAt(hosts, p) ==
  LET all == hosts.registry \o hosts.serve
  IN [n \in {m \in DOMAIN all : all[m].port = p} |-> all[n]]
UseTLS(bindings) == \E n \in DOMAIN bindings : bindings[n].tls

\* buildRoute and installRoute: a binding needs a certificate where the port serves
\* TLS, and the first one of a hostname has it.
BuildRoute(b, tls) == tls => b.tls
Routes(bindings) ==
  LET tls == UseTLS(bindings)
  IN {bindings[n].id : n \in {m \in DOMAIN bindings :
        /\ BuildRoute(bindings[m], tls)
        /\ \A k \in DOMAIN bindings :
             k < m /\ BuildRoute(bindings[k], tls) => bindings[k].host # bindings[m].host}}

\* reconcileGroup: the listener is closed without a route and when TLS is turned
\* on or off, kept with its new routes, or opened when the port is free.
ReconcileGroup(hosts, ports, p) ==
  LET bindings == DesiredAt(hosts, p)
      group == serveGroups[p]
      tls == UseTLS(bindings)
      keeps == group.open /\ group.tls = tls
      free == ports[p] = 0 \/ (group.open /\ ports[p] = Http)
      next == [open |-> TRUE, tls |-> tls, routes |-> Routes(bindings)]
  IN IF next.routes # {} /\ (keeps \/ free) THEN next ELSE NoGroup

SetBindings(hosts, ports) ==
  LET groups == [p \in ServePorts |-> ReconcileGroup(hosts, ports, p)]
  IN /\ serveHosts' = hosts
     /\ serveGroups' = groups
     /\ servePorts' = [p \in ServePorts |->
                         IF groups[p].open THEN Http ELSE IF ports[p] = Http THEN 0 ELSE ports[p]]

\* RegistryListenerSettings.Validate: the listeners of a port differ in their
\* hostnames and agree on TLS. The file servers are not looked at.
Lists == {<<>>} \cup {<<e>> : e \in Endpoints} \cup (Endpoints \X Endpoints)
Shares(e, f) == e.host # f.host /\ e.tls = f.tls
ValidListeners(list) ==
  \A m, n \in DOMAIN list :
    (m # n /\ list[m].port = list[n].port) => Shares(list[m], list[n])

\* reconcileRegistryListeners, on every change of the registry.
SaveListeners(list) ==
  /\ ServeChange
  /\ ValidListeners(list)
  /\ SetBindings([serveHosts EXCEPT !.registry = [n \in DOMAIN list |-> Binding(0, list[n])]],
                 servePorts)
  /\ serveSettled' = 0
  /\ UNCHANGED <<serveStored, serverVars, serveOps, serveKeys>>

(***************************************************************************)
(* The settings are stored, loaded again, and the servers reconciled with  *)
(* what was loaded, under the manager's mutex.                             *)
(***************************************************************************)
\* validateServeServers: an own port is exclusive, bindings of one port differ in
\* their hostnames and agree on TLS. Registry listeners are not looked at.
ValidServers(config) ==
  \A i, j \in Servers :
    (i # j /\ config[i].port = config[j].port /\ config[i].port # 0) =>
      /\ config[i].protocol = "http" /\ config[j].protocol = "http"
      /\ Shares(config[i], config[j])

\* The administrator sends the page back with the host keys it shows, or without.
UpdateServeSettings(r, config) ==
  /\ serveOps[r].do = "idle"
  /\ \A id \in Servers : config[id].key \in {0, serveStored[id].key}
  /\ ValidServers(config)
  /\ ServeChange
  /\ serveStored' = config
  /\ serveOps' = [serveOps EXCEPT ![r] = [do |-> "load"]]
  /\ serveSettled' = IF config = serveStored THEN serveSettled ELSE 0
  /\ UNCHANGED <<serverVars, serveHosts, serveGroups, servePorts, serveKeys>>

\* Every change of a raw mount reconciles as well, as shares resolve against them.
RawMountChanged(r) ==
  /\ serveOps[r].do = "idle"
  /\ ServeChange
  /\ serveOps' = [serveOps EXCEPT ![r] = [do |-> "load"]]
  /\ UNCHANGED <<serveStored, serverVars, serveHosts, serveGroups, servePorts, serveKeys,
                 serveSettled>>

\* When the settings cannot be loaded the running servers stay as they are.
LoadServeSettings(r) ==
  /\ serveOps[r].do = "load"
  /\ \E op \in {[do |-> "loaded", config |-> serveStored], ServeIdle} :
       serveOps' = [serveOps EXCEPT ![r] = op]
  /\ UNCHANGED <<serveStored, serverVars, serveHosts, serveGroups, servePorts, serveChanges,
                 serveKeys, serveSettled>>

\* Reconcile: first the servers that are no longer configured are stopped.
\* (A disabled entry is stopped in its turn; nothing tells the two apart here.)
\* A server stopped before its goroutine has opened the listener: the goroutine
\* may still do so, and OtherProgram stands for that listener nobody closes.
Released(ports, ids) == [p \in ServePorts |-> IF ports[p] \in ids THEN 0 ELSE ports[p]]
Reconcile(r) ==
  /\ serveOps[r].do = "loaded"
  /\ \A q \in ServeRequests : serveOps[q].do # "reconcile"
  /\ LET config == serveOps[r].config
         gone == {id \in Servers : config[id].protocol = "none"}
     IN /\ serveInstances' = [id \in Servers |->
                                IF id \in gone THEN NoEntry ELSE serveInstances[id]]
        /\ serveBinds' = [id \in Servers |-> IF id \in gone THEN "no" ELSE serveBinds[id]]
        /\ servePorts' = Released(servePorts, gone)
        /\ serveOps' = [serveOps EXCEPT ![r] =
             [do |-> "reconcile", at |-> "next", config |-> config, next |-> 1, bindings |-> <<>>,
              key |-> 0, back |-> config]]
  /\ UNCHANGED <<serveStored, serveHosts, serveGroups, serveChanges, serveKeys, serveSettled>>

\* reconcileInstance: a server whose entry is unchanged is kept; otherwise it is
\* stopped, and started when its port is free. One that cannot be started is not
\* kept as an instance, so that the next reconciliation tries it again.
\* Faulty: it is kept.
FaultyStarted(ports, id, entry) == entry
Started(ports, id, entry) == IF ports[entry.port] = 0 THEN entry ELSE NoEntry

\* The turn of a server: "next" of the request, and the entry loaded for it.
AtTurn(r, at) ==
  serveOps[r].do = "reconcile" /\ serveOps[r].at = at /\ serveOps[r].next \in Servers
EntryOf(r) == serveOps[r].config[serveOps[r].next]
NextTurn(r, bindings) ==
  serveOps' = [serveOps EXCEPT ![r].next = @ + 1, ![r].at = "next", ![r].key = 0,
                               ![r].back = serveOps[r].config, ![r].bindings = @ \o bindings]
Stops(id) == /\ servePorts' = Released(servePorts, {id})
             /\ serveBinds' = [serveBinds EXCEPT ![id] = "no"]

KeepInstance(r, id) ==
  /\ EntryOf(r).protocol \in {"ftp", "sftp", "none"}
  /\ serveInstances[id] = EntryOf(r)
  /\ NextTurn(r, <<>>)
  /\ UNCHANGED <<serverVars, servePorts, serveKeys>>

\* FTP and TFTP: only checked here, by a probe closed at once.
StartFTP(r, id) ==
  LET started == Started(Released(servePorts, {id}), id, EntryOf(r))
  IN /\ EntryOf(r).protocol = "ftp" /\ serveInstances[id] # EntryOf(r)
     /\ servePorts' = Released(servePorts, {id})
     /\ serveInstances' = [serveInstances EXCEPT ![id] = started]
     /\ serveBinds' = [serveBinds EXCEPT ![id] =
                         IF Released(servePorts, {id})[EntryOf(r).port] = 0 THEN "pending" ELSE "no"]
     /\ NextTurn(r, <<>>)
     /\ UNCHANGED serveKeys

\* SFTP: stopped; without a host key one is generated first, and handed to the
\* callback that stores it.
StartSFTP(r, id) ==
  /\ EntryOf(r).protocol = "sftp" /\ serveInstances[id] # EntryOf(r)
  /\ Stops(id)
  /\ serveInstances' = [serveInstances EXCEPT ![id] = NoEntry]
  /\ \/ /\ EntryOf(r).key # 0
        /\ serveOps' = [serveOps EXCEPT ![r].at = "listen", ![r].key = EntryOf(r).key]
        /\ UNCHANGED serveKeys
     \/ /\ EntryOf(r).key = 0 /\ serveKeys < MaxHostKeys
        /\ serveKeys' = serveKeys + 1
        /\ serveOps' = [serveOps EXCEPT ![r].at = "read", ![r].key = serveKeys + 1]

\* net.Listen of sftpserve.NewServer. The key is part of what was applied.
ListenSFTP(r, id) ==
  LET entry == WithKey(EntryOf(r), serveOps[r].key)
  IN /\ serveInstances' = [serveInstances EXCEPT ![id] = Started(servePorts, id, entry)]
     /\ servePorts' = [servePorts EXCEPT ![entry.port] = IF @ = 0 THEN id ELSE @]
     /\ NextTurn(r, <<>>)
     /\ UNCHANGED <<serveBinds, serveKeys>>

ReconcileVhostInstance(r, id) ==
  /\ EntryOf(r).protocol = "http"
  /\ serveInstances' = [serveInstances EXCEPT ![id] = EntryOf(r)]
  /\ Stops(id)
  /\ NextTurn(r, <<Binding(id, EntryOf(r))>>)
  /\ UNCHANGED serveKeys

ReconcileNext(r) ==
  /\ LET id == serveOps[r].next
     IN \/ /\ AtTurn(r, "next")
           /\ \/ KeepInstance(r, id) \/ StartFTP(r, id) \/ StartSFTP(r, id)
              \/ ReconcileVhostInstance(r, id)
        \/ AtTurn(r, "listen") /\ ListenSFTP(r, id)
  /\ UNCHANGED <<serveStored, serveHosts, serveGroups, serveChanges, serveSettled>>

\* onSFTPKey: the settings are loaded, the key is put into the entry of the id,
\* whatever its protocol is by now, and they are stored. What was saved in
\* between is undone. When either call fails, or the entry has gone, nothing is
\* stored; the key of a disabled entry is not told.
HostKeyRead(r) ==
  /\ AtTurn(r, "read")
  /\ \/ serveOps' = [serveOps EXCEPT ![r].at = "write", ![r].back = serveStored]
     \/ serveOps' = [serveOps EXCEPT ![r].at = "listen"]
  /\ UNCHANGED <<serveStored, serverVars, serveHosts, serveGroups, servePorts, serveChanges,
                 serveKeys, serveSettled>>

HostKeyWrite(r) ==
  LET id == serveOps[r].next
      config == serveOps[r].back
  IN /\ AtTurn(r, "write")
     /\ serveStored' \in {serveStored,
          [config EXCEPT ![id] = IF @.protocol = "none" THEN @ ELSE WithKey(@, serveOps[r].key)]}
     /\ serveOps' = [serveOps EXCEPT ![r].at = "listen"]
     /\ serveSettled' = IF serveStored' = serveStored THEN serveSettled ELSE 0
     /\ UNCHANGED <<serverVars, serveHosts, serveGroups, servePorts, serveChanges, serveKeys>>

Publish(r) ==
  /\ serveOps[r].do = "reconcile" /\ serveOps[r].next \notin Servers
  /\ SetBindings([serveHosts EXCEPT !.serve = serveOps[r].bindings], servePorts)
  /\ serveOps' = [serveOps EXCEPT ![r] = ServeIdle]
  /\ serveSettled' = IF serveOps[r].config # serveStored THEN 0
                     ELSE IF serveSettled < 2 THEN serveSettled + 1 ELSE 2
  /\ UNCHANGED <<serveStored, serverVars, serveChanges, serveKeys>>

\* ListenAndServe, in its goroutine. A failure is logged: the instance stays.
ListenAndServe(id) ==
  LET port == serveInstances[id].port
  IN /\ serveBinds[id] = "pending"
     /\ servePorts' = [servePorts EXCEPT ![port] = IF @ = 0 THEN id ELSE @]
     /\ serveBinds' = [serveBinds EXCEPT ![id] = IF servePorts[port] = 0 THEN "no" ELSE "failed"]
     /\ UNCHANGED <<serveStored, serveInstances, serveOps, serveHosts, serveGroups, serveChanges,
                    serveKeys, serveSettled>>

\* Another program takes a free port, or leaves it.
OtherProgram(p) ==
  /\ ServeChange
  /\ servePorts[p] \in {0, Other}
  /\ servePorts' = [servePorts EXCEPT ![p] = IF @ = 0 THEN Other ELSE 0]
  /\ serveSettled' = 0
  /\ UNCHANGED <<serveStored, serverVars, serveOps, serveHosts, serveGroups, serveKeys>>

ServeNext ==
  \/ \E r \in ServeRequests :
       \/ \E config \in Configs : UpdateServeSettings(r, config)
       \/ RawMountChanged(r) \/ LoadServeSettings(r) \/ Reconcile(r) \/ ReconcileNext(r)
       \/ HostKeyRead(r) \/ HostKeyWrite(r) \/ Publish(r)
  \/ \E id \in Servers : ListenAndServe(id)
  \/ \E list \in Lists : SaveListeners(list)
  \/ \E p \in ServePorts : OtherProgram(p)

ServeSpec == ServeInit /\ [][ServeNext]_serveVars

(***************************************************************************)
(* Properties.                                                             *)
(***************************************************************************)
\* When the stored settings have been applied twice in a row, and nothing else
\* changed, the listeners are those of the settings: a server listens where it is
\* configured unless its port is contested, every routable binding of an
\* uncontested port is routed, and no port is held for anything else. Once is not
\* enough: a server is started before a later one, or the virtual hosts, have left
\* the port it moves to. And the settings applied last need not be the stored
\* ones, as two requests may load them in one order and apply them in the other.
\* An FTP or TFTP server that passed the check of its port is excused until its
\* goroutine has opened the listener, and for good when it cannot any more: the
\* code keeps that instance, and no reconciliation tries it again.
Claims(p) ==
  {id \in Servers : serveStored[id].protocol \in {"ftp", "sftp"} /\ serveStored[id].port = p}
    \cup (IF DOMAIN DesiredAt(serveHosts, p) = {} THEN {} ELSE {Http})
    \cup {c \in {servePorts[p]} : c = Other}
InLine ==
  (serveSettled = 2 /\ \A r \in ServeRequests : serveOps[r].do = "idle") =>
    \A p \in ServePorts :
      /\ servePorts[p] \in Claims(p) \cup {0}
      /\ \A c \in Claims(p) : Claims(p) = {c} =>
           IF c = Http
             THEN serveGroups[p].routes = Routes(DesiredAt(serveHosts, p))
             ELSE servePorts[p] = c \/ (c \in Servers /\ serveBinds[c] # "no")
      /\ \A id \in serveGroups[p].routes \ {0} : serveStored[id].port = p
=============================================================================
