------------------------------ MODULE MCSettings ------------------------------
(* What the server keeps in line with its stored settings: the routing table *)
(* and the jobs of the repositories, and the file servers. A behaviour is of *)
(* one of the two. The table's instance is two repositories in one           *)
(* namespace; its registries are of the package formats, whose rules TLC     *)
(* evaluates here, apart from the run of the stores, which shows what a      *)
(* program that breaks one does.                                             *)
EXTENDS RegistryTable, FileServers, PackageRules, TLC

CONSTANT n

VARIABLE part \* whose behaviour it is

SettingsInit ==
  \/ part = "table" /\ Init /\ ServeInit
  \/ part = "serve" /\ ServeInit /\ Init

SettingsNext ==
  /\ UNCHANGED part
  /\ \/ part = "table" /\ Next /\ UNCHANGED serveVars
     \/ part = "serve" /\ ServeNext /\ UNCHANGED vars

SettingsSpec == SettingsInit /\ [][SettingsNext]_<<part, vars, serveVars>>

(***************************************************************************)
(* The instances.                                                          *)
(***************************************************************************)
NsOfAll == [r \in Repos |-> n]
Symmetry == Permutations(Admins) \cup Permutations(Repos)

Entry(protocol, port, host, tls) ==
  [protocol |-> protocol, port |-> port, host |-> host, tls |-> tls, key |-> 0]
SomeEntries ==
  {Entry("ftp", 1, "", FALSE), Entry("ftp", 2, "", FALSE), Entry("sftp", 1, "", FALSE),
   Entry("http", 2, "a", TRUE)}
SomeEndpoints == {Entry("http", 2, "b", FALSE)}
===============================================================================
