--------------------------- MODULE MCTenantLifecycle ---------------------------
(***************************************************************************)
(* TenantLifecycle for TLC.  The passing run checks Covered, which has its *)
(* exceptions; the definition below is what the README of the sources says *)
(* without any, and TLC refutes it of the code.                            *)
(***************************************************************************)
EXTENDS TenantLifecycle

(* src/README.md:309-310: everything of a tenant is deleted when its           *)
(* TenantCluster is, by the finalizer on the TenantCluster.                    *)
EverythingDeleted == tc.life = "absent" => Labelled = {}
================================================================================
