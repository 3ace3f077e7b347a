---------------------------- MODULE HostPressure -----------------------------
(***************************************************************************)
(* What an agent makes of its host's memory and disks                      *)
(* (agent/resources.py, and resource_pressure in runner.py).  A host is    *)
(* its memory and the file systems mounted on it, by path; a probe that    *)
(* fails reads a memory of no size.  The load of the CPU is reported but   *)
(* decides nothing and is left out; per cents are rounded down.            *)
(***************************************************************************)
EXTENDS Integers, Sequences, SequencesExt

NoMemory == [total |-> 0, available |-> 0]

Bound(n) == IF n > 0 THEN n ELSE 0
PerCent(used, total) == IF total = 0 THEN 0 ELSE (Bound(used) * 100) \div total
Used(memory) == PerCent(memory.total - memory.available, memory.total)
Taken(disk) == PerCent(disk.total - disk.free, disk.total)

\* A path that does not exist is measured where its parent is, and what cannot
\* be measured at the root.
DiskAt(host, path) ==
  IF path \in DOMAIN host.disks THEN host.disks[path]
  ELSE IF path # <<>> /\ Front(path) \in DOMAIN host.disks THEN host.disks[Front(path)]
  ELSE host.disks[<<>>]

\* A reason names what ran short and the number that was read, so that a new
\* reading is a new reason.
Reason(condition, text, number) == IF condition THEN << <<text, number>> >> ELSE <<>>

\* A host whose memory cannot be probed is not short of it.
ShortOf(free, least) == free > 0 /\ free < least

MemoryReasons(memory, limits) ==
  Reason(Used(memory) >= limits.memoryPercent, "memory percent", Used(memory))
    \o Reason(ShortOf(memory.available, limits.minMemory), "memory", memory.available)
DiskReasons(disk, limits) ==
  Reason(Taken(disk) >= limits.diskPercent, "disk percent", Taken(disk))
    \o Reason(ShortOf(disk.free, limits.minDisk), "disk", disk.free)

\* evaluate_resource_pressure: the memory first, then the disks in the order of
\* the paths (the work directory, the shared roots).
Reasons(host, paths, limits) ==
  FoldLeft(LAMBDA found, path : found \o DiskReasons(DiskAt(host, path), limits),
           MemoryReasons(host.memory, limits), paths)

\* resource_pressure: without the guard nothing is short.
Pressure(guarded, host, paths, limits) ==
  IF guarded THEN Reasons(host, paths, limits) ELSE <<>>
Constrained(reasons) == reasons # <<>>
=============================================================================
