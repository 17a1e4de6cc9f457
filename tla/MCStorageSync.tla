---------------------------- MODULE MCStorageSync ----------------------------
(***************************************************************************)
(* StorageSync for TLC.  The passing runs check its properties; each of    *)
(* the definitions below is what a comment of the sources says of a pass,  *)
(* and what TLC refutes of the code.                                       *)
(***************************************************************************)
EXTENDS StorageSync

(* storage_pass.go:31-33: every path that deletes a host PVC proves the volume *)
(* is out of every VM first.                                                   *)
EveryDeleteUnplugged == [][\A c \in Claims : DeletesHostPVC(c) => Out(c)]_vars

(* writeback.go:39-42: a finalizer is not released while a host object for it  *)
(* might survive.                                                              *)
ReleaseAfterHost == [][\A c \in Claims : ReleasesPin(c) => hostPVC[c] # "ours"]_vars
==============================================================================
