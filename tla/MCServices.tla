----------------------------- MODULE MCServices ------------------------------
(* The services around the package stores, each on an instance of its own: a *)
(* behaviour is one of a proxied repository, of a model repository, of a     *)
(* user's second factor, of the accounts or of a virtual repository.         *)
EXTENDS SecondFactor, HubRepository, Accounts, RemoteCache, VirtualRepository

VARIABLE part \* whose behaviour it is

\* The state of a part whose behaviour it is not.
RemoteOff ==
  RemoteInit /\ format = "generic" /\ cache = [s \in CacheSlots(format) |-> Gone]
HubOff == HubInit /\ ~hubImmutable
VirtualOff ==
  /\ VirtualInit
  /\ virtual = "generic" /\ member = [m \in Members |-> [at |-> [k \in Keys |-> 1], up |-> TRUE]]

Init ==
  \/ /\ part = "remote" /\ RemoteInit
     /\ HubOff /\ FactorInit /\ AccountsInit /\ VirtualOff
  \/ /\ part = "hub" /\ HubInit
     /\ RemoteOff /\ FactorInit /\ AccountsInit /\ VirtualOff
  \/ /\ part = "factor" /\ FactorInit
     /\ RemoteOff /\ HubOff /\ AccountsInit /\ VirtualOff
  \/ /\ part = "account" /\ AccountsInit
     /\ RemoteOff /\ HubOff /\ FactorInit /\ VirtualOff
  \/ /\ part = "virtual" /\ VirtualInit
     /\ RemoteOff /\ HubOff /\ FactorInit /\ AccountsInit

Next ==
  /\ UNCHANGED part
  /\ \/ /\ part = "remote" /\ RemoteNext
        /\ UNCHANGED <<hubVars, factorVars, accountVars, virtualVars>>
     \/ /\ part = "hub" /\ HubNext
        /\ UNCHANGED <<remoteVars, factorVars, accountVars, virtualVars>>
     \/ /\ part = "factor" /\ FactorNext
        /\ UNCHANGED <<remoteVars, hubVars, accountVars, virtualVars>>
     \/ /\ part = "account" /\ AccountsNext
        /\ UNCHANGED <<remoteVars, hubVars, factorVars, virtualVars>>
     \/ /\ part = "virtual" /\ VirtualNext
        /\ UNCHANGED <<remoteVars, hubVars, factorVars, accountVars>>

Spec ==
  Init /\ [][Next]_<<part, remoteVars, hubVars, factorVars, accountVars, virtualVars>>

(***************************************************************************)
(* The instances.                                                          *)
(***************************************************************************)
OneFile == {[path |-> "p", content |-> 1]}
=============================================================================
