------------------------------ MODULE LLMCache ------------------------------
(***************************************************************************)
(* The LLM response cache (internal/llmcache) as the gitl processes of one *)
(* or several machines share it: the CLI and the MCP server use one        *)
(* directory per user (L1, disk.go) without any lock, and optionally one   *)
(* HTTP key-value store (L2, remote.go); llmcache.go composes the two.     *)
(* A temp file left behind by a crash, a failed write or a failed removal  *)
(* is never read again (its name is random), and nothing sweeps it: it is  *)
(* not part of the state.                                                  *)
(*                                                                         *)
(* Keys never interact (one file and one URL per key), so the model has    *)
(* one key.  Every process repeats the life of a review: look the key up;  *)
(* on a miss ask the model and, if it answers, store the answer.  Time is  *)
(* real time; every host's clock may be off by a constant, because         *)
(* CachedAt is written by one clock and judged by another.                 *)
(***************************************************************************)
EXTENDS Integers

CONSTANTS
  Procs, Hosts,   \* gitl processes, and the machines (users) they run on
  DiskHosts,      \* hosts with a usable cache directory; elsewhere L1 is nopCache
  HostOf,         \* the host of a process
  RemoteProcs,    \* processes configured with a (valid) cache.remote.url
  TTLOf,          \* cache.ttl_hours of each process
  Skew,           \* clock error of each host
  MaxTime,        \* bound: last instant of real time
  MaxFaults       \* bound: crashes and disk I/O errors

ASSUME HostAssumption ==
  HostOf \in [Procs -> Hosts] /\ DiskHosts \subseteq Hosts /\ RemoteProcs \subseteq Procs
\* cli.useCache: the cache is on only when ttl_hours > 0.
ASSUME TTLAssumption == TTLOf \in [Procs -> Nat \ {0}]
ASSUME SkewAssumption == Skew \in [Hosts -> Int]
ASSUME BoundAssumption == MaxTime \in Nat /\ MaxFaults \in Nat

(* An entry: its CachedAt, and, not in the file, the real time and the     *)
(* host at which the answer was stored.                                    *)
Instants == 0 .. MaxTime
Clock(h, t) == t + Skew[h]
NewEntry(h, t) == [cachedAt |-> Clock(h, t), stored |-> t, by |-> h]
Entries == [cachedAt : Int, stored : Instants, by : Hosts]

Absent == [file |-> "absent"]
Partial == [file |-> "partial"]     \* a file being written
Corrupt == [file |-> "corrupt"]     \* bytes that do not decode
Whole(e) == [file |-> "whole", entry |-> e]
WholeFiles == [file : {"whole"}, entry : Entries]
Files == {Absent, Partial, Corrupt} \cup WholeFiles

VARIABLES
  now,        \* real time
  disk,       \* the file <key>.json of each host
  remote,     \* the value stored under the key by the HTTP server
  inflight,   \* PUT bodies whose client has given up and the server may still apply
  pc,         \* program counter of each process
  buf,        \* the file or response body a process holds
  tmp,        \* the temp file of the process's current write; its name is never used again
  faults,     \* crashes and I/O errors so far
  served      \* the age and origin of the hit last returned to the process

vars == <<now, disk, remote, inflight, pc, buf, tmp, faults, served>>

NoHit == [hit |-> FALSE]
Hit(e) == [hit |-> TRUE, age |-> now - e.stored, by |-> e.by]

Init ==
  /\ now = 0
  /\ disk = [h \in Hosts |-> Absent]
  /\ remote = Absent
  /\ inflight = {}
  /\ pc = [p \in Procs |-> "idle"]
  /\ buf = [p \in Procs |-> Absent]
  /\ tmp = [p \in Procs |-> Absent]
  /\ faults = 0
  /\ served = [p \in Procs |-> NoHit]

Tick ==
  /\ now < MaxTime
  /\ now' = now + 1
  /\ UNCHANGED <<disk, remote, inflight, pc, buf, tmp, faults, served>>

(* A backfill and a store share putWithCachedAt. *)
Writing == {"backfillWrite", "storeWrite"}
Renaming == {"backfillRename", "storeRename"}

Goto(p, label) == pc' = [pc EXCEPT ![p] = label]

(* As Goto, when the bytes held are no longer used. *)
Leave(p, label) == Goto(p, label) /\ buf' = [buf EXCEPT ![p] = Absent]

Fault == faults < MaxFaults /\ faults' = faults + 1

(* decodeResponseAt: time.Since(CachedAt) > ttl, on the reader's clock. *)
Expired(p, e) == Clock(HostOf[p], now) - e.cachedAt > TTLOf[p]

-----------------------------------------------------------------------------
(* tiered.Get, the local part: diskCache.Get. *)

StartGet(p) ==
  /\ pc[p] = "idle"
  /\ Goto(p, "readDisk")
  /\ served' = [served EXCEPT ![p] = NoHit]
  /\ UNCHANGED <<now, disk, remote, inflight, buf, tmp, faults>>

(* os.ReadFile. *)
ReadDisk(p) ==
  /\ pc[p] = "readDisk"
  /\ IF HostOf[p] \in DiskHosts /\ disk[HostOf[p]] # Absent
     THEN /\ buf' = [buf EXCEPT ![p] = disk[HostOf[p]]]
          /\ Goto(p, "decode")
     ELSE Goto(p, "remoteGet") /\ UNCHANGED buf
  /\ UNCHANGED <<now, disk, remote, inflight, tmp, faults, served>>

ReadDiskFails(p) ==
  /\ pc[p] = "readDisk" /\ HostOf[p] \in DiskHosts
  /\ Fault
  /\ Goto(p, "remoteGet")
  /\ UNCHANGED <<now, disk, remote, inflight, buf, tmp, served>>

(* decodeResponse yields an entry, and one that is not expired. *)
Usable(p, f) == f.file = "whole" /\ ~Expired(p, f.entry)

DecodeHit(p) ==
  /\ pc[p] = "decode"
  /\ Usable(p, buf[p])
  /\ served' = [served EXCEPT ![p] = Hit(buf[p].entry)]
  /\ Leave(p, "idle")
  /\ UNCHANGED <<now, disk, remote, inflight, tmp, faults>>

DecodeMiss(p) ==
  /\ pc[p] = "decode"
  /\ ~Usable(p, buf[p])
  /\ Goto(p, "evict")
  /\ UNCHANGED <<now, disk, remote, inflight, buf, tmp, faults, served>>

(* Mutant: a corrupt entry is reported and left in place. *)
EvictExpiredOnly(p) ==
  /\ pc[p] = "evict"
  /\ disk' = IF buf[p] # Corrupt THEN [disk EXCEPT ![HostOf[p]] = Absent] ELSE disk
  /\ Leave(p, "remoteGet")
  /\ UNCHANGED <<now, remote, inflight, tmp, faults, served>>

(* os.Remove of the path, whatever the path names by now. *)
Evict(p) ==
  /\ pc[p] = "evict"
  /\ disk' = [disk EXCEPT ![HostOf[p]] = Absent]
  /\ Leave(p, "remoteGet")
  /\ UNCHANGED <<now, remote, inflight, tmp, faults, served>>

EvictFails(p) ==
  /\ pc[p] = "evict"
  /\ Fault
  /\ Leave(p, "remoteGet")
  /\ UNCHANGED <<now, disk, remote, inflight, tmp, served>>

-----------------------------------------------------------------------------
(* tiered.Get, the remote part: remoteCache.getWithCachedAt and backfill. *)

NoRemote(p) ==
  /\ pc[p] = "remoteGet" /\ p \notin RemoteProcs
  /\ Goto(p, "miss")
  /\ UNCHANGED <<now, disk, remote, inflight, buf, tmp, faults, served>>

(* Status 200 with an entry this process considers fresh. *)
RemoteHit(p) ==
  /\ pc[p] = "remoteGet" /\ p \in RemoteProcs
  /\ Usable(p, remote)
  /\ served' = [served EXCEPT ![p] = Hit(remote.entry)]
  /\ IF HostOf[p] \in DiskHosts
     THEN Goto(p, "backfill") /\ buf' = [buf EXCEPT ![p] = remote]
     ELSE Leave(p, "idle")
  /\ UNCHANGED <<now, disk, remote, inflight, tmp, faults>>

(* 404, an expired entry, any other status or a body that does not decode. *)
RemoteMiss(p) ==
  /\ pc[p] = "remoteGet" /\ p \in RemoteProcs
  /\ Goto(p, "miss")
  /\ UNCHANGED <<now, disk, remote, inflight, buf, tmp, faults, served>>

(* Mutant: a zero timeout, which net/http takes for none. *)
RemoteGetHangs(p) == pc[p] = "remoteGet" /\ FALSE /\ RemoteMiss(p)

(* http.Client.Timeout, never zero: newRemote clamps it. *)
RemoteGetTimeout(p) == RemoteMiss(p)

-----------------------------------------------------------------------------
(* diskCache.putWithCachedAt, for a backfill and for a store: mkdir, write *)
(* a temp file of a unique name, rename it into place.                     *)

(* Mutant: the backfill stamps the entry with the current time. *)
BackfillNow(p) ==
  /\ pc[p] = "backfill"
  /\ buf' = [buf EXCEPT ![p] = Whole([buf[p].entry EXCEPT !.cachedAt = Clock(HostOf[p], now)])]
  /\ Goto(p, "backfillWrite")
  /\ UNCHANGED <<now, disk, remote, inflight, tmp, faults, served>>

(* The entry keeps the CachedAt it had remotely. *)
Backfill(p) ==
  /\ pc[p] = "backfill"
  /\ Goto(p, "backfillWrite")
  /\ UNCHANGED <<now, disk, remote, inflight, buf, tmp, faults, served>>

(* After the L1 write: a backfill is over, a store goes on to L2. *)
AfterWrite(p) ==
  IF pc[p] \in {"backfillWrite", "backfillRename"} THEN "idle" ELSE "remotePut"

(* Mutant: the destination itself is opened for writing. *)
BeginWriteInPlace(p) ==
  /\ pc[p] \in Writing
  /\ HostOf[p] \in DiskHosts /\ tmp[p] = Absent
  /\ tmp' = [tmp EXCEPT ![p] = Partial]
  /\ disk' = [disk EXCEPT ![HostOf[p]] = Partial]
  /\ UNCHANGED <<now, remote, inflight, pc, buf, faults, served>>

BeginWrite(p) ==
  /\ pc[p] \in Writing
  /\ HostOf[p] \in DiskHosts /\ tmp[p] = Absent
  /\ tmp' = [tmp EXCEPT ![p] = Partial]
  /\ UNCHANGED <<now, disk, remote, inflight, pc, buf, faults, served>>

EndWrite(p) ==
  /\ pc[p] \in Writing /\ tmp[p] = Partial
  /\ tmp' = [tmp EXCEPT ![p] = buf[p]]
  /\ Goto(p, IF pc[p] = "backfillWrite" THEN "backfillRename" ELSE "storeRename")
  /\ UNCHANGED <<now, disk, remote, inflight, buf, faults, served>>

(* Mutant: the write goes on as if the temp file were complete. *)
WriteFailsUnnoticed(p) ==
  /\ pc[p] \in Writing /\ tmp[p] = Partial
  /\ Fault
  /\ Goto(p, IF pc[p] = "backfillWrite" THEN "backfillRename" ELSE "storeRename")
  /\ UNCHANGED <<now, disk, remote, inflight, buf, tmp, served>>

(* os.WriteFile fails, on a full disk say: the temp file stays behind. *)
WriteFails(p) ==
  /\ pc[p] \in Writing /\ tmp[p] = Partial
  /\ Fault
  /\ tmp' = [tmp EXCEPT ![p] = Absent]
  /\ Leave(p, AfterWrite(p))
  /\ UNCHANGED <<now, disk, remote, inflight, served>>

Rename(p) ==
  /\ pc[p] \in Renaming
  /\ disk' = [disk EXCEPT ![HostOf[p]] = tmp[p]]
  /\ tmp' = [tmp EXCEPT ![p] = Absent]
  /\ Leave(p, AfterWrite(p))
  /\ UNCHANGED <<now, remote, inflight, faults, served>>

(* A failed rename: the temp file is removed, unless that fails as well.   *)
RenameFails(p) ==
  /\ pc[p] \in Renaming
  /\ tmp' = [tmp EXCEPT ![p] = Absent]
  /\ Leave(p, AfterWrite(p))
  /\ UNCHANGED <<now, disk, remote, inflight, faults, served>>

(* The directory cannot be created or the temp file not opened; or L1 is   *)
(* nopCache, whose Put does nothing.                                       *)
WriteSkipped(p) ==
  /\ pc[p] \in Writing /\ tmp[p] = Absent
  /\ Leave(p, AfterWrite(p))
  /\ UNCHANGED <<now, disk, remote, inflight, tmp, faults, served>>

-----------------------------------------------------------------------------
(* A miss: the provider is asked; tiered.Put stores what it answers. *)

ProviderFails(p) ==
  /\ pc[p] = "miss"
  /\ Goto(p, "idle")
  /\ UNCHANGED <<now, disk, remote, inflight, buf, tmp, faults, served>>

(* diskCache.Put takes time.Now() as it starts. *)
StartPut(p) ==
  /\ pc[p] = "miss"
  /\ buf' = [buf EXCEPT ![p] = Whole(NewEntry(HostOf[p], now))]
  /\ Goto(p, "storeWrite")
  /\ UNCHANGED <<now, disk, remote, inflight, tmp, faults, served>>

NoRemotePut(p) ==
  /\ pc[p] = "remotePut" /\ p \notin RemoteProcs
  /\ Goto(p, "idle")
  /\ UNCHANGED <<now, disk, remote, inflight, buf, tmp, faults, served>>

(* remoteCache.Put encodes the answer again, with its own time.Now(). *)
RemotePut(p) ==
  /\ pc[p] = "remotePut" /\ p \in RemoteProcs
  /\ remote' = Whole(NewEntry(HostOf[p], now))
  /\ Goto(p, "idle")
  /\ UNCHANGED <<now, disk, inflight, buf, tmp, faults, served>>

(* The request fails or times out; a timed-out one may be applied later.   *)
(* Put returns nil either way.                                             *)
RemotePutFails(p) ==
  /\ pc[p] = "remotePut" /\ p \in RemoteProcs
  /\ \/ UNCHANGED inflight
     \/ inflight' = inflight \cup {NewEntry(HostOf[p], now)}
  /\ Goto(p, "idle")
  /\ UNCHANGED <<now, disk, remote, buf, tmp, faults, served>>

(* The HTTP server, external: it applies late requests in any order and    *)
(* drops values when it likes.                                             *)
ServerAppliesLate ==
  /\ \E e \in inflight :
       /\ remote' = Whole(e)
       /\ inflight' = inflight \ {e}
  /\ UNCHANGED <<now, disk, pc, buf, tmp, faults, served>>

ServerDrops ==
  /\ remote # Absent
  /\ remote' = Absent
  /\ UNCHANGED <<now, disk, inflight, pc, buf, tmp, faults, served>>

-----------------------------------------------------------------------------
(* The process is killed (Ctrl-C while it waits, SIGKILL): its temp file   *)
(* stays behind.                                                           *)
Crash(p) ==
  /\ pc[p] # "idle"
  /\ Fault
  /\ Leave(p, "idle")
  /\ tmp' = [tmp EXCEPT ![p] = Absent]
  /\ UNCHANGED <<now, disk, remote, inflight, served>>

(* A power loss stops every process of the host; as nothing is fsynced,    *)
(* the renamed file may come back with other bytes.                        *)
PowerLoss(h) ==
  /\ Fault
  /\ \/ UNCHANGED disk
     \/ disk[h] # Absent /\ disk' = [disk EXCEPT ![h] = Corrupt]
  /\ LET Here == {p \in Procs : HostOf[p] = h}
     IN /\ pc' = [p \in Procs |-> IF p \in Here THEN "idle" ELSE pc[p]]
        /\ tmp' = [p \in Procs |-> IF p \in Here THEN Absent ELSE tmp[p]]
        /\ buf' = [p \in Procs |-> IF p \in Here THEN Absent ELSE buf[p]]
  /\ UNCHANGED <<now, remote, inflight, served>>

-----------------------------------------------------------------------------
(* What a process does once its lookup has started and its computer runs:  *)
(* code and operating system always go on; the server need not answer, but *)
(* the client's timeout does.                                              *)
Runs(p) ==
  \/ ReadDisk(p) \/ DecodeHit(p) \/ DecodeMiss(p) \/ Evict(p)
  \/ NoRemote(p) \/ RemoteGetTimeout(p)
  \/ Backfill(p) \/ BeginWrite(p) \/ EndWrite(p) \/ Rename(p) \/ WriteSkipped(p)
  \/ ProviderFails(p) \/ NoRemotePut(p) \/ RemotePutFails(p)

Answers(p) == RemoteHit(p) \/ RemoteMiss(p) \/ StartPut(p) \/ RemotePut(p)

Fails(p) ==
  \/ ReadDiskFails(p) \/ EvictFails(p) \/ WriteFails(p) \/ RenameFails(p) \/ Crash(p)

Next ==
  \/ Tick
  \/ \E p \in Procs : StartGet(p) \/ Runs(p) \/ Answers(p) \/ Fails(p)
  \/ \E h \in DiskHosts : PowerLoss(h)
  \/ ServerAppliesLate \/ ServerDrops

Spec == Init /\ [][Next]_vars

FairSpec == Spec /\ \A p \in Procs : WF_vars(Runs(p))

-----------------------------------------------------------------------------
Labels ==
  {"idle", "readDisk", "decode", "evict", "remoteGet", "backfill", "miss", "remotePut"}
  \cup Writing \cup Renaming

TypeOK ==
  /\ now \in Instants
  /\ disk \in [Hosts -> Files]
  /\ remote \in {Absent} \cup WholeFiles
  /\ inflight \subseteq Entries
  /\ pc \in [Procs -> Labels]
  /\ buf \in [Procs -> Files]
  /\ tmp \in [Procs -> Files]
  /\ \A p \in Procs :
       /\ pc[p] \in Renaming => tmp[p] \in WholeFiles /\ tmp[p] = buf[p]
       /\ pc[p] \notin Renaming => tmp[p] \in {Absent, Partial}
       /\ tmp[p] = Partial => pc[p] \in Writing
  /\ faults \in 0 .. MaxFaults
  /\ \A p \in Procs : served[p].hit => served[p].age \in Instants /\ served[p].by \in Hosts

(* A lookup never serves an answer stored longer ago than the reader's     *)
(* TTL, give or take the difference between the two clocks involved, no    *)
(* matter through how many tiers and hosts it came: the backfill keeps the *)
(* original CachedAt, so an answer does not live 2 x TTL.                  *)
FreshHit ==
  \A p \in Procs : served[p].hit =>
    served[p].age <= TTLOf[p] + Skew[served[p].by] - Skew[HostOf[p]]

(* No process ever finds a half-written file under the key, whoever writes *)
(* and wherever a writer dies: what the temp file and the rename are for.  *)
NoTornEntry == \A h \in Hosts : disk[h] # Partial

(* A lookup, and the store after a miss, always come to an end, whatever   *)
(* the remote server does: the cache can slow a review down, never hang it.*)
LookupEnds == \A p \in Procs : pc[p] # "idle" ~> pc[p] = "idle"

(* An entry that does not decode does not stay: as long as somebody keeps  *)
(* reviewing, it is evicted or replaced, also if the model never answers.  *)
KeepsReviewing == \A p \in Procs : WF_vars(StartGet(p))
CorruptHeals ==
  KeepsReviewing => \A h \in Hosts : disk[h] = Corrupt ~> disk[h] # Corrupt

(* The eviction in Get removes "an expired entry" (disk.go, Get and its    *)
(* comment) or a corrupt one: never an entry that is fresh for the process *)
(* removing it.                                                            *)
EvictsOnlyDead ==
  [][\A p \in Procs :
       pc[p] = "evict" /\ pc'[p] = "remoteGet" /\ disk'[HostOf[p]] # disk[HostOf[p]] =>
         disk[HostOf[p]] = Corrupt \/ Expired(p, disk[HostOf[p]].entry)]_vars

(* Neither a silent server nor a corrupt entry can keep the cache from     *)
(* working.                                                                *)
LookupsRecover == LookupEnds /\ CorruptHeals
=============================================================================
