--------------------------- MODULE CloudProviders ---------------------------
(***************************************************************************)
(* What the cloud providers create for a user cluster and how they remove  *)
(* it: InitializeCloudProvider and CleanUpCloudProvider of each provider   *)
(* as tables.  All of them follow one scheme.                              *)
(*                                                                         *)
(*  - Initialising goes through a list of resources.  One that is not      *)
(*    recorded yet is created, and then recorded together with a finalizer *)
(*    in one update of the Cluster.  "Recorded" is a field of the spec for *)
(*    some resources and the finalizer itself for the others.              *)
(*  - Cleaning up goes through a list of the same resources.  One whose    *)
(*    finalizer the Cluster has is deleted, and then the finalizer is      *)
(*    removed by an update.                                                *)
(*                                                                         *)
(* A resource and its finalizer share their name here.  The other          *)
(* providers (digitalocean, hetzner, packet, kubevirt, alibaba, anexia,    *)
(* bringyourown, fake) create nothing.  Steps that only look something up  *)
(* (default VPC, route table, floating IP pool, region) set no finalizer   *)
(* and are left out.                                                       *)
(***************************************************************************)
EXTENDS Naturals, Sequences

\* A resource that a field of the spec records, and one that only its finalizer records
BySpec(r) == [res |-> r, by |-> "spec", needs |-> {}]
ByFinalizer(r, needs) == [res |-> r, by |-> "finalizer", needs |-> needs]

AWSInitialize ==
  <<BySpec("sg"), BySpec("role"), BySpec("profile"), ByFinalizer("tags", {})>>
AWSCleanUp == <<"sg", "profile", "role", "tags">>

AzureInitialize ==
  <<BySpec("rg"), BySpec("vnet"), BySpec("subnet"), BySpec("routetable"),
    BySpec("sg"), BySpec("as")>>
AzureCleanUp == <<"sg", "routetable", "subnet", "vnet", "rg", "as">>

\* A router found at the subnet of the user is recorded without a finalizer,
\* as one that the user names is: see the recorded resources of Init
OpenstackInitialize ==
  <<BySpec("sg"), BySpec("network"), BySpec("subnet"), BySpec("router"),
    ByFinalizer("link", {"router"})>>
OpenstackCleanUp == <<"sg", "link", "subnet", "network", "router">>

\* The routes are created by the controllers of the user cluster
GCPInitialize ==
  <<ByFinalizer("fwself", {}), ByFinalizer("fwicmp", {}), ByFinalizer("routes", {})>>
GCPCleanUp == <<"fwself", "fwicmp", "routes">>

VSphereInitialize == <<BySpec("folder")>>
VSphereCleanUp == <<"folder">>

ProviderNames == {"aws", "azure", "openstack", "gcp", "vsphere", "none"}

InitializeCloudProvider(p) ==
  CASE p = "aws" -> AWSInitialize
    [] p = "azure" -> AzureInitialize
    [] p = "openstack" -> OpenstackInitialize
    [] p = "gcp" -> GCPInitialize
    [] p = "vsphere" -> VSphereInitialize
    [] p = "none" -> <<>>

CleanUpCloudProvider(p) ==
  CASE p = "aws" -> AWSCleanUp
    [] p = "azure" -> AzureCleanUp
    [] p = "openstack" -> OpenstackCleanUp
    [] p = "gcp" -> GCPCleanUp
    [] p = "vsphere" -> VSphereCleanUp
    [] p = "none" -> <<>>

CloudResources ==
  {"sg", "role", "profile", "tags", "rg", "vnet", "subnet", "routetable", "as",
   "network", "router", "link", "fwself", "fwicmp", "routes", "folder"}

\* Step s of InitializeCloudProvider has work to do for the copy c of the Cluster
Due(s, c) ==
  /\ IF s.by = "spec" THEN s.res \notin c.ids ELSE s.res \notin c.fins
  /\ s.needs \subseteq c.fins

\* The first step from position n on that has work to do, or one past the end
NextDue(p, n, c) ==
  LET steps == InitializeCloudProvider(p)
      due   == {i \in n .. Len(steps) : Due(steps[i], c)}
  IN  IF due = {} THEN Len(steps) + 1
      ELSE CHOOSE i \in due : \A j \in due : i =< j

\* The first resource from position n on whose finalizer c has, or one past the end
NextOwned(p, n, c) ==
  LET list  == CleanUpCloudProvider(p)
      owned == {i \in n .. Len(list) : list[i] \in c.fins}
  IN  IF owned = {} THEN Len(list) + 1
      ELSE CHOOSE i \in owned : \A j \in owned : i =< j

\* OpenStack creates networks, subnets and routers under a fixed name without
\* looking for one of that name; every other creation finds what exists
CreatedAgain(p, r) == p = "openstack" /\ r \in {"network", "subnet", "router"}

\* Creating r.  The routes of GCP are not created by the provider.
Created(p, r, w) ==
  [w EXCEPT ![r] = CASE r = "routes" -> @
                     [] @ = "present" /\ CreatedAgain(p, r) -> "double"
                     [] OTHER -> "present"]

\* OpenStack looks its network up by name: none or two of that name is an error,
\* which isNotFoundErr does not take for "not found"
LookupFails(p, w) == p = "openstack" /\ w["network"] = "double"
DeleteFails(p, r, w) == p = "openstack" /\ r = "network" /\ w["network"] # "present"

\* Deleting r, which is not an error when r is gone already.  What is left of
\* two resources is the one whose ID was not recorded; a resource group of
\* Azure goes with all it contains.
Deleted(p, r, w) ==
  [x \in DOMAIN w |->
     IF x = r /\ w[x] = "double" THEN "present"
     ELSE IF x = r \/ (p = "azure" /\ r = "rg" /\ x \in CloudResources) THEN "absent"
     ELSE w[x]]
=============================================================================
