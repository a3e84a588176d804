----------------------------- MODULE NUMAMemory -----------------------------
(***************************************************************************)
(* The memory capacity of the NUMA nodes, read from sysfs.                 *)
(*                                                                         *)
(* sysfs maps the ID of each node directory to a record                    *)
(*   meminfo    <<the number of kB in the MemTotal line>>, or <<>> if the  *)
(*              file cannot be read, has no such line, or one without a    *)
(*              number                                                     *)
(*   hugepages  "present", "missing", or "unreadable": the directory       *)
(*   pages      page size in kB -> number of pages                         *)
(* Amounts are in bytes.                                                   *)
(***************************************************************************)
EXTENDS Integers, Sequences, TLC

\* corev1.ResourceHugePagesPrefix with the canonical form of the page size.
HugePageResourceName(size) ==
  CASE size = 64 -> "hugepages-64Ki" [] size = 2048 -> "hugepages-2Mi"

\* corev1.ResourceMemory and the names with the hugepages prefix.
MemoryNames == {"memory"} \cup {HugePageResourceName(size) : size \in {64, 2048}}

ReadTotalMemoryFromMeminfo(node) == 1024 * Head(node.meminfo)

GetHugepagesBytes(node) ==
  [name \in {HugePageResourceName(size) : size \in DOMAIN node.pages} |->
     LET size == CHOOSE s \in DOMAIN node.pages : HugePageResourceName(s) = name
     IN  node.pages[size] * (size * 1024)]

\* One node that cannot be read fails all.
CannotRead(sysfs) ==
  \E id \in DOMAIN sysfs : sysfs[id].meminfo = <<>> \/ sysfs[id].hugepages = "unreadable"

\* A node without a hugepages directory is left out, its memory with it.
GetNumaMemoryResources(sysfs) ==
  [id \in {i \in DOMAIN sysfs : sysfs[i].hugepages = "present"} |->
     LET hugepages == GetHugepagesBytes(sysfs[id])
     IN  [name \in {"memory"} \cup DOMAIN hugepages |->
            IF name = "memory" THEN ReadTotalMemoryFromMeminfo(sysfs[id]) ELSE hugepages[name]]]

\* The sums start from nothing and get one amount each.
GetMemoryResourcesCapacity(sysfs) ==
  LET resources == GetNumaMemoryResources(sysfs)
  IN  [id \in DOMAIN resources |-> [name \in DOMAIN resources[id] |-> 0 + resources[id][name]]]

=============================================================================
