--------------------------- MODULE LLMCacheProofs ---------------------------
(***************************************************************************)
(* Freshness and atomicity of the cache, for any processes, hosts, TTLs    *)
(* and clock errors.                                                       *)
(*                                                                         *)
(* FreshHit is not inductive: the entry a process decodes may have come    *)
(* through other hosts' disks, backfills and late PUTs.  Dated says that   *)
(* wherever an entry is, its CachedAt is still the storing host's clock at *)
(* the instant it was stored.                                              *)
(***************************************************************************)
EXTENDS LLMCache, TLAPS

DatedEntries == {e \in Entries : e.stored <= now /\ e.cachedAt = Clock(e.by, e.stored)}
DatedFiles == {Absent, Partial, Corrupt} \cup {f \in WholeFiles : f.entry \in DatedEntries}

(* Every entry there is, on disks, in the server and under way to it, and  *)
(* in the hands of the processes.                                          *)
CountInv == now \in Instants /\ faults \in 0 .. MaxFaults

DiskInv == disk \in [Hosts -> DatedFiles \ {Partial}]

ServerInv == remote \in DatedFiles \cap ({Absent} \cup WholeFiles) /\ inflight \subseteq DatedEntries

(* A process that backfills or stores holds what it is to write, and       *)
(* renames its temp file when that holds it too.                           *)
HandsInv(label, b, t) ==
  /\ label \in {"backfill"} \cup Writing => b \in WholeFiles
  /\ label \in Renaming => t \in WholeFiles /\ t = b
  /\ label \notin Renaming => t \in {Absent, Partial}
  /\ t = Partial => label \in Writing

ProcsInv ==
  /\ pc \in [Procs -> Labels] /\ buf \in [Procs -> DatedFiles] /\ tmp \in [Procs -> DatedFiles]
  /\ \A p \in Procs : HandsInv(pc[p], buf[p], tmp[p])

(* A process decides on an entry and serves it in one step; from then on   *)
(* the hit is a fact of the past.                                          *)
FreshFor(p, r) ==
  r.hit => /\ r.age \in Instants /\ r.by \in Hosts
           /\ r.age <= TTLOf[p] + Skew[r.by] - Skew[HostOf[p]]

ServedInv ==
  /\ served = [p \in Procs |-> served[p]]
  /\ \A p \in Procs : FreshFor(p, served[p])

IInv == CountInv /\ DiskInv /\ ServerInv /\ ProcsInv /\ ServedInv

-----------------------------------------------------------------------------
(* The kinds of files exclude each other.                                  *)
LEMMA Kinds ==
  /\ {Absent, Partial, Corrupt} \subseteq Files \ WholeFiles
  /\ Absent # Partial /\ Corrupt # Partial
  /\ WholeFiles \subseteq Files
  /\ \A f \in Files : f.file = "whole" => f \in WholeFiles
  /\ \A f \in WholeFiles : f.file = "whole" /\ f.entry \in Entries
  /\ \A e \in Entries : Whole(e) \in WholeFiles /\ Whole(e).entry = e
<1>1. {Absent, Partial, Corrupt} \subseteq Files \ WholeFiles
  BY DEF Absent, Partial, Corrupt, Files, WholeFiles
<1>2. Absent # Partial /\ Corrupt # Partial
  BY DEF Absent, Partial, Corrupt
<1>3. \A f \in Files : f.file = "whole" => f \in WholeFiles
  BY DEF Absent, Partial, Corrupt, Files
<1>4. \A f \in WholeFiles : f.file = "whole" /\ f.entry \in Entries
  BY DEF WholeFiles
<1>5. \A e \in Entries : Whole(e) \in WholeFiles /\ Whole(e).entry = e
  BY DEF WholeFiles, Whole
<1> QED
  BY <1>1, <1>2, <1>3, <1>4, <1>5 DEF Files

(* An entry is dated when it is made, and stays so.                        *)
LEMMA NewEntryDated ==
  ASSUME now \in Instants, NEW h \in Hosts
  PROVE  NewEntry(h, now) \in DatedEntries
BY SkewAssumption, BoundAssumption DEF NewEntry, DatedEntries, Entries, Clock, Instants

LEMMA DatedKept ==
  ASSUME now \in Instants, now' \in Instants, now <= now'
  PROVE  DatedEntries \subseteq DatedEntries' /\ DatedFiles \subseteq DatedFiles'
<1>1. DatedEntries \subseteq DatedEntries'
  BY DEF DatedEntries, Entries, Clock, Instants
<1> QED
  BY <1>1 DEF DatedFiles

LEMMA DatedSame ==
  ASSUME UNCHANGED now
  PROVE  DatedEntries' = DatedEntries /\ DatedFiles' = DatedFiles
<1>1. DatedEntries' = DatedEntries
  BY DEF DatedEntries
<1> QED
  BY <1>1 DEF DatedFiles

LEMMA DatedFacts ==
  /\ DatedFiles \subseteq Files
  /\ {Absent, Partial, Corrupt} \subseteq DatedFiles
  /\ \A f \in DatedFiles : f.file = "whole" => f \in WholeFiles /\ f.entry \in DatedEntries
  /\ \A e \in DatedEntries : Whole(e) \in DatedFiles \cap WholeFiles
BY Kinds DEF DatedFiles, DatedEntries

(* What a process may use and was stored in time is a fresh hit.           *)
LEMMA FreshOf ==
  ASSUME now \in Instants, NEW p \in Procs, NEW e \in DatedEntries, ~Expired(p, e)
  PROVE  FreshFor(p, Hit(e))
<1>1. Hit(e).hit /\ Hit(e).age = now - e.stored /\ Hit(e).by = e.by
  BY DEF Hit
<1>2. e.stored \in Instants /\ e.by \in Hosts /\ e.cachedAt = e.stored + Skew[e.by] /\ e.stored <= now
  BY DEF DatedEntries, Entries, Clock
<1>3. Skew[e.by] \in Int /\ Skew[HostOf[p]] \in Int /\ TTLOf[p] \in Nat
  BY <1>2, SkewAssumption, HostAssumption, TTLAssumption
<1>4. now \in Int /\ e.stored \in Int /\ e.cachedAt \in Int
  BY <1>2, <1>3, BoundAssumption DEF Instants
<1>5. now + Skew[HostOf[p]] - e.cachedAt <= TTLOf[p]
  BY <1>3, <1>4 DEF Expired, Clock
<1> QED
  BY <1>1, <1>2, <1>3, <1>4, <1>5, BoundAssumption DEF Instants, FreshFor

-----------------------------------------------------------------------------
LEMMA InitInv == Init => IInv
<1> SUFFICES ASSUME Init PROVE IInv
  OBVIOUS
<1>1. CountInv
  BY BoundAssumption DEF Init, CountInv, Instants
<1>2. DiskInv /\ ServerInv
  BY Kinds, DatedFacts DEF Init, DiskInv, ServerInv
<1>3. ProcsInv
  BY Kinds, DatedFacts DEF Init, ProcsInv, HandsInv, Labels, Writing, Renaming
<1>4. ServedInv
  BY DEF Init, ServedInv, FreshFor, NoHit
<1> QED
  BY <1>1, <1>2, <1>3, <1>4 DEF IInv

-----------------------------------------------------------------------------
(* The shapes of steps. *)

LEMMA DiskStep ==
  ASSUME DiskInv, UNCHANGED now, NEW h \in Hosts, NEW f \in DatedFiles \ {Partial},
         disk' = [disk EXCEPT ![h] = f]
  PROVE  DiskInv'
BY DatedSame DEF DiskInv

LEMMA DiskSame == ASSUME DiskInv, UNCHANGED <<now, disk>> PROVE DiskInv'
BY DatedSame DEF DiskInv

LEMMA ServerSame == ASSUME ServerInv, UNCHANGED <<now, remote, inflight>> PROVE ServerInv'
BY DatedSame DEF ServerInv

LEMMA ProcsSame == ASSUME ProcsInv, UNCHANGED <<now, pc, buf, tmp>> PROVE ProcsInv'
BY DatedSame DEF ProcsInv

LEMMA ServedSame == ASSUME ServedInv, UNCHANGED served PROVE ServedInv'
BY DEF ServedInv

LEMMA ServedStep ==
  ASSUME ServedInv, NEW p \in Procs, NEW r, FreshFor(p, r), served' = [served EXCEPT ![p] = r]
  PROVE  ServedInv'
BY DEF ServedInv

(* A process moves on, with what it holds and its temp file. *)
LEMMA ProcStep ==
  ASSUME ProcsInv, UNCHANGED now, NEW p \in Procs,
         NEW label \in Labels, NEW b \in DatedFiles, NEW t \in DatedFiles, HandsInv(label, b, t),
         pc' = [pc EXCEPT ![p] = label], buf' = [buf EXCEPT ![p] = b], tmp' = [tmp EXCEPT ![p] = t]
  PROVE  ProcsInv'
<1>1. pc' \in [Procs -> Labels] /\ buf' \in [Procs -> DatedFiles] /\ tmp' \in [Procs -> DatedFiles]
  BY DEF ProcsInv
<1>2. ASSUME NEW q \in Procs PROVE HandsInv(pc'[q], buf'[q], tmp'[q])
  <2>1. CASE q = p
    <3>1. pc'[p] = label /\ buf'[p] = b /\ tmp'[p] = t
      BY DEF ProcsInv
    <3> QED
      BY <2>1, <3>1
  <2>2. CASE q # p
    <3>1. pc'[q] = pc[q] /\ buf'[q] = buf[q] /\ tmp'[q] = tmp[q]
      BY <2>2 DEF ProcsInv
    <3> QED
      BY <3>1 DEF ProcsInv
  <2> QED
    BY <2>1, <2>2
<1>3. DatedFiles' = DatedFiles
  BY DatedSame
<1>4. (\A q \in Procs : HandsInv(pc[q], buf[q], tmp[q]))'
  BY <1>2 DEF HandsInv
<1> QED
  BY <1>1, <1>3, <1>4 DEF ProcsInv

(* It keeps what it holds and its temp file. *)
LEMMA GotoStep ==
  ASSUME ProcsInv, UNCHANGED <<now, buf, tmp>>, NEW p \in Procs,
         NEW label \in Labels, HandsInv(label, buf[p], tmp[p]), Goto(p, label)
  PROVE  ProcsInv'
<1>1. buf[p] \in DatedFiles /\ tmp[p] \in DatedFiles
  BY DEF ProcsInv
<1>2. buf' = [buf EXCEPT ![p] = buf[p]] /\ tmp' = [tmp EXCEPT ![p] = tmp[p]]
  BY DEF ProcsInv
<1>3. UNCHANGED now /\ pc' = [pc EXCEPT ![p] = label]
  BY DEF Goto
<1> QED
  BY <1>1, <1>2, <1>3, ProcStep, ZenonT(30)

(* It drops what it holds, and has no temp file any more. *)
LEMMA LeaveStep ==
  ASSUME ProcsInv, UNCHANGED now, NEW p \in Procs,
         NEW label \in Labels \ ({"backfill"} \cup Writing \cup Renaming), Leave(p, label),
         tmp' = [tmp EXCEPT ![p] = Absent]
  PROVE  ProcsInv'
<1>1. HandsInv(label, Absent, Absent)
  BY Kinds DEF HandsInv
<1> QED
  BY <1>1, ProcStep, DatedFacts DEF Leave, Goto

(* Outside a write there is no temp file. *)
LEMMA NoTmp ==
  ASSUME ProcsInv, NEW p \in Procs, pc[p] \notin Writing \cup Renaming
  PROVE  tmp[p] = Absent /\ tmp = [tmp EXCEPT ![p] = Absent]
BY DEF ProcsInv, HandsInv

-----------------------------------------------------------------------------
(* Each part of the invariant, step by step. *)

LEMMA TickInv == IInv /\ Tick => IInv'
<1> SUFFICES ASSUME IInv, Tick PROVE IInv'
  OBVIOUS
<1>1. now \in Instants /\ now' \in Instants /\ now <= now'
  BY BoundAssumption DEF IInv, CountInv, Tick, Instants
<1>2. DatedEntries \subseteq DatedEntries' /\ DatedFiles \subseteq DatedFiles'
  BY <1>1, DatedKept
<1>3. CountInv'
  BY <1>1 DEF IInv, CountInv, Tick
<1>4. DiskInv' /\ ServerInv'
  BY <1>2 DEF IInv, DiskInv, ServerInv, Tick
<1>5. ProcsInv'
  BY <1>2 DEF IInv, ProcsInv, Tick
<1>6. ServedInv'
  BY ServedSame DEF IInv, Tick
<1> QED
  BY <1>3, <1>4, <1>5, <1>6 DEF IInv

LEMMA CountSame ==
  ASSUME CountInv, UNCHANGED now, UNCHANGED faults \/ Fault
  PROVE  CountInv'
BY BoundAssumption DEF CountInv, Fault

LEMMA CountStep == IInv /\ Next => CountInv'
<1> SUFFICES ASSUME IInv, Next PROVE CountInv'
  OBVIOUS
<1>0. CountInv
  BY DEF IInv, CountInv
<1>1. CASE Tick
  BY <1>1, TickInv DEF IInv
<1>2. ASSUME NEW p \in Procs, StartGet(p) \/ Runs(p) \/ Answers(p) PROVE CountInv'
  <2>1. UNCHANGED <<now, faults>>
    BY <1>2 DEF StartGet, Runs, Answers, ReadDisk, DecodeHit, DecodeMiss, Evict, NoRemote,
                RemoteGetTimeout, Backfill, BeginWrite, EndWrite, Rename, WriteSkipped, ProviderFails,
                NoRemotePut, RemotePutFails, RemoteHit, RemoteMiss, StartPut, RemotePut
  <2> QED
    BY <1>0, <2>1, CountSame
<1>3. ASSUME NEW p \in Procs, Fails(p) PROVE CountInv'
  <2>1. UNCHANGED now /\ (UNCHANGED faults \/ Fault)
    BY <1>3 DEF Fails, ReadDiskFails, EvictFails, WriteFails, RenameFails, Crash
  <2> QED
    BY <1>0, <2>1, CountSame
<1>4. ASSUME NEW h \in DiskHosts, PowerLoss(h) PROVE CountInv'
  <2>1. UNCHANGED now /\ Fault
    BY <1>4 DEF PowerLoss
  <2> QED
    BY <1>0, <2>1, CountSame
<1>5. CASE ServerAppliesLate \/ ServerDrops
  <2>1. UNCHANGED <<now, faults>>
    BY <1>5 DEF ServerAppliesLate, ServerDrops
  <2> QED
    BY <1>0, <2>1, CountSame
<1> QED
  BY <1>1, <1>2, <1>3, <1>4, <1>5 DEF Next

(* What is renamed into place is whole, and a power loss leaves a file     *)
(* that does not decode: nothing half-written gets the entry's name.       *)
LEMMA DiskPreserved == IInv /\ Next => DiskInv'
<1> SUFFICES ASSUME IInv, Next PROVE DiskInv'
  OBVIOUS
<1>0. DiskInv /\ ProcsInv
  BY DEF IInv
<1>1. CASE Tick
  BY <1>1, TickInv DEF IInv
<1>2. ASSUME NEW p \in Procs, Evict(p) PROVE DiskInv'
  <2>1. HostOf[p] \in Hosts /\ Absent \in DatedFiles \ {Partial}
    BY HostAssumption, Kinds, DatedFacts
  <2>2. UNCHANGED now /\ disk' = [disk EXCEPT ![HostOf[p]] = Absent]
    BY <1>2 DEF Evict
  <2> QED
    BY <1>0, <2>1, <2>2, DiskStep
<1>3. ASSUME NEW p \in Procs, Rename(p) PROVE DiskInv'
  <2>1. HostOf[p] \in Hosts
    BY HostAssumption
  <2>2. tmp[p] \in DatedFiles \ {Partial}
    BY <1>0, <1>3, Kinds DEF ProcsInv, HandsInv, Rename
  <2>3. UNCHANGED now /\ disk' = [disk EXCEPT ![HostOf[p]] = tmp[p]]
    BY <1>3 DEF Rename
  <2> QED
    BY <1>0, <2>1, <2>2, <2>3, DiskStep, ZenonT(30)
<1>4. ASSUME NEW h \in DiskHosts, PowerLoss(h) PROVE DiskInv'
  <2>1. h \in Hosts /\ Corrupt \in DatedFiles \ {Partial}
    BY HostAssumption, Kinds, DatedFacts
  <2>2. UNCHANGED now /\ (UNCHANGED disk \/ disk' = [disk EXCEPT ![h] = Corrupt])
    BY <1>4 DEF PowerLoss
  <2> QED
    BY <1>0, <2>1, <2>2, DiskStep, DiskSame
<1>5. ASSUME NEW p \in Procs, StartGet(p) \/ Runs(p) \/ Answers(p), ~Evict(p), ~Rename(p) PROVE DiskInv'
  <2>1. UNCHANGED <<now, disk>>
    BY <1>5 DEF StartGet, Runs, Answers, ReadDisk, DecodeHit, DecodeMiss, NoRemote,
                RemoteGetTimeout, Backfill, BeginWrite, EndWrite, WriteSkipped, ProviderFails,
                NoRemotePut, RemotePutFails, RemoteHit, RemoteMiss, StartPut, RemotePut
  <2> QED
    BY <1>0, <2>1, DiskSame
<1>6. ASSUME NEW p \in Procs, Fails(p) PROVE DiskInv'
  <2>1. UNCHANGED <<now, disk>>
    BY <1>6 DEF Fails, ReadDiskFails, EvictFails, WriteFails, RenameFails, Crash
  <2> QED
    BY <1>0, <2>1, DiskSame
<1>7. CASE ServerAppliesLate \/ ServerDrops
  BY <1>0, <1>7, DiskSame DEF ServerAppliesLate, ServerDrops
<1> QED
  BY <1>1, <1>2, <1>3, <1>4, <1>5, <1>6, <1>7 DEF Next

(* Values reach the server under the CachedAt their writer gave them, also *)
(* when it applies them late.                                              *)
LEMMA ServerPreserved == IInv /\ Next => ServerInv'
<1> SUFFICES ASSUME IInv, Next PROVE ServerInv'
  OBVIOUS
<1>0. ServerInv /\ now \in Instants
  BY DEF IInv, CountInv
<1>1. CASE Tick
  BY <1>1, TickInv DEF IInv
<1>2. ASSUME NEW p \in Procs, RemotePut(p) \/ RemotePutFails(p) PROVE ServerInv'
  <2> DEFINE e == NewEntry(HostOf[p], now)
  <2>1. e \in DatedEntries
    BY <1>0, NewEntryDated, HostAssumption
  <2>2. UNCHANGED now
    BY <1>2 DEF RemotePut, RemotePutFails
  <2>3. remote' \in {remote, Whole(e)} /\ inflight' \in {inflight, inflight \cup {e}}
    BY <1>2 DEF RemotePut, RemotePutFails
  <2> HIDE DEF e
  <2> QED
    BY <1>0, <2>1, <2>2, <2>3, DatedFacts, DatedSame DEF ServerInv
<1>3. CASE ServerAppliesLate
  <2>1. PICK e \in inflight : remote' = Whole(e) /\ inflight' = inflight \ {e}
    BY <1>3 DEF ServerAppliesLate
  <2>2. e \in DatedEntries /\ UNCHANGED now
    BY <1>0, <1>3 DEF ServerInv, ServerAppliesLate
  <2> QED
    BY <1>0, <2>1, <2>2, DatedFacts, DatedSame DEF ServerInv
<1>4. CASE ServerDrops
  BY <1>0, <1>4, DatedFacts, DatedSame DEF ServerInv, ServerDrops
<1>5. ASSUME NEW p \in Procs, StartGet(p) \/ Runs(p) \/ Answers(p), ~RemotePut(p), ~RemotePutFails(p)
      PROVE ServerInv'
  <2>1. UNCHANGED <<now, remote, inflight>>
    BY <1>5 DEF StartGet, Runs, Answers, ReadDisk, DecodeHit, DecodeMiss, Evict, NoRemote,
                RemoteGetTimeout, Backfill, BeginWrite, EndWrite, Rename, WriteSkipped, ProviderFails,
                NoRemotePut, RemoteHit, RemoteMiss, StartPut
  <2> QED
    BY <1>0, <2>1, ServerSame
<1>6. ASSUME NEW p \in Procs, Fails(p) PROVE ServerInv'
  <2>1. UNCHANGED <<now, remote, inflight>>
    BY <1>6 DEF Fails, ReadDiskFails, EvictFails, WriteFails, RenameFails, Crash
  <2> QED
    BY <1>0, <2>1, ServerSame
<1>7. ASSUME NEW h \in DiskHosts, PowerLoss(h) PROVE ServerInv'
  BY <1>0, <1>7, ServerSame DEF PowerLoss
<1> QED
  BY <1>1, <1>2, <1>3, <1>4, <1>5, <1>6, <1>7 DEF Next

(* A hit is served in the step that judges the entry, which is dated.      *)
LEMMA ServedPreserved == IInv /\ Next => ServedInv'
<1> SUFFICES ASSUME IInv, Next PROVE ServedInv'
  OBVIOUS
<1>0. ServedInv /\ now \in Instants
  BY DEF IInv, CountInv
<1>1. ASSUME NEW p \in Procs, StartGet(p) PROVE ServedInv'
  <2>1. FreshFor(p, NoHit)
    BY DEF FreshFor, NoHit
  <2>2. served' = [served EXCEPT ![p] = NoHit]
    BY <1>1 DEF StartGet
  <2> QED
    BY <1>0, <2>1, <2>2, ServedStep
<1>2. ASSUME NEW p \in Procs, NEW f \in DatedFiles, Usable(p, f),
             served' = [served EXCEPT ![p] = Hit(f.entry)]
      PROVE  ServedInv'
  <2>1. f.entry \in DatedEntries /\ ~Expired(p, f.entry)
    BY <1>2, DatedFacts DEF Usable
  <2>2. FreshFor(p, Hit(f.entry))
    BY <1>0, <2>1, FreshOf
  <2> QED
    BY <1>0, <1>2, <2>2, ServedStep, ZenonT(30)
<1>3. ASSUME NEW p \in Procs, DecodeHit(p) PROVE ServedInv'
  <2>1. buf[p] \in DatedFiles
    BY DEF IInv, ProcsInv
  <2> QED
    BY <1>2, <1>3, <2>1 DEF DecodeHit
<1>4. ASSUME NEW p \in Procs, RemoteHit(p) PROVE ServedInv'
  <2>1. remote \in DatedFiles
    BY DEF IInv, ServerInv
  <2> QED
    BY <1>2, <1>4, <2>1 DEF RemoteHit
<1>5. ASSUME NEW p \in Procs, Runs(p) \/ Answers(p), ~DecodeHit(p), ~RemoteHit(p) PROVE ServedInv'
  <2>1. UNCHANGED served
    BY <1>5 DEF Runs, Answers, ReadDisk, DecodeMiss, Evict, NoRemote, RemoteGetTimeout, Backfill,
                BeginWrite, EndWrite, Rename, WriteSkipped, ProviderFails, NoRemotePut,
                RemotePutFails, RemoteMiss, StartPut, RemotePut
  <2> QED
    BY <1>0, <2>1, ServedSame
<1>6. ASSUME NEW p \in Procs, Fails(p) PROVE ServedInv'
  <2>1. UNCHANGED served
    BY <1>6 DEF Fails, ReadDiskFails, EvictFails, WriteFails, RenameFails, Crash
  <2> QED
    BY <1>0, <2>1, ServedSame
<1>7. ASSUME NEW h \in DiskHosts, PowerLoss(h) PROVE ServedInv'
  BY <1>0, <1>7, ServedSame DEF PowerLoss
<1>8. CASE Tick \/ ServerAppliesLate \/ ServerDrops
  BY <1>0, <1>8, ServedSame DEF Tick, ServerAppliesLate, ServerDrops
<1> QED
  BY <1>1, <1>3, <1>4, <1>5, <1>6, <1>7, <1>8 DEF Next

-----------------------------------------------------------------------------
(* A process outside a write moves to a place where nothing is owed, or    *)
(* drops what it holds.                                                    *)
Plain == Labels \ ({"backfill"} \cup Writing \cup Renaming)

LEMMA GotoPlain ==
  ASSUME ProcsInv, UNCHANGED <<now, buf, tmp>>, NEW p \in Procs, pc[p] \in Plain,
         NEW label \in Plain, Goto(p, label)
  PROVE  ProcsInv'
<1>1. HandsInv(label, buf[p], tmp[p])
  BY NoTmp, Kinds DEF HandsInv, Plain
<1> QED
  BY <1>1, GotoStep DEF Plain

LEMMA LeavePlain ==
  ASSUME ProcsInv, UNCHANGED <<now, tmp>>, NEW p \in Procs, pc[p] \in Plain \cup {"backfill"},
         NEW label \in Plain, Leave(p, label)
  PROVE  ProcsInv'
<1>1. tmp' = [tmp EXCEPT ![p] = Absent]
  BY NoTmp DEF Plain, Writing, Renaming
<1> QED
  BY <1>1, LeaveStep DEF Plain

LEMMA PlainLabels ==
  /\ Plain = {"idle", "readDisk", "decode", "evict", "remoteGet", "miss", "remotePut"}
  /\ Labels = Plain \cup {"backfill"} \cup Writing \cup Renaming
  /\ "backfill" \notin Writing \cup Renaming /\ Writing \cap Renaming = {}
  /\ \A label \in Plain : label \notin {"backfill"} \cup Writing \cup Renaming
BY DEF Plain, Labels, Writing, Renaming

(* A process that looks the key up. *)
LEMMA ReadingStep ==
  ASSUME IInv, NEW p \in Procs,
         \/ StartGet(p) \/ ReadDisk(p) \/ DecodeHit(p) \/ DecodeMiss(p) \/ Evict(p) \/ NoRemote(p)
         \/ RemoteHit(p) \/ RemoteMiss(p) \/ ReadDiskFails(p) \/ EvictFails(p)
  PROVE  ProcsInv'
<1>0. ProcsInv /\ DiskInv /\ ServerInv
  BY DEF IInv
<1>1. CASE \/ StartGet(p) \/ DecodeMiss(p) \/ NoRemote(p) \/ RemoteMiss(p) \/ ReadDiskFails(p)
           \/ (ReadDisk(p) /\ Goto(p, "remoteGet") /\ UNCHANGED buf)
  <2>1. UNCHANGED <<now, buf, tmp>> /\ pc[p] \in Plain
    BY <1>1, PlainLabels DEF StartGet, DecodeMiss, NoRemote, RemoteMiss, ReadDiskFails, ReadDisk
  <2>2. \E label \in Plain : Goto(p, label)
    BY <1>1, PlainLabels DEF StartGet, DecodeMiss, NoRemote, RemoteMiss, ReadDiskFails, ReadDisk
  <2> QED
    BY <1>0, <2>1, <2>2, GotoPlain
<1>2. CASE DecodeHit(p) \/ Evict(p) \/ EvictFails(p) \/ (RemoteHit(p) /\ Leave(p, "idle"))
  <2>1. UNCHANGED <<now, tmp>> /\ pc[p] \in Plain
    BY <1>2, PlainLabels DEF DecodeHit, Evict, EvictFails, RemoteHit
  <2>2. \E label \in Plain : Leave(p, label)
    BY <1>2, PlainLabels DEF DecodeHit, Evict, EvictFails, RemoteHit
  <2> QED
    BY <1>0, <2>1, <2>2, LeavePlain
<1>3. CASE ReadDisk(p) /\ Goto(p, "decode") /\ buf' = [buf EXCEPT ![p] = disk[HostOf[p]]]
  <2>1. disk[HostOf[p]] \in DatedFiles
    BY <1>0, HostAssumption DEF DiskInv
  <2>2. UNCHANGED <<now, tmp>> /\ pc[p] \in Plain
    BY <1>3, PlainLabels DEF ReadDisk
  <2>4. tmp' = [tmp EXCEPT ![p] = Absent]
    BY <1>0, <2>2, NoTmp, PlainLabels
  <2>3. HandsInv("decode", disk[HostOf[p]], Absent)
    BY Kinds DEF HandsInv, Writing, Renaming
  <2> QED
    BY <1>0, <1>3, <2>1, <2>2, <2>3, <2>4, ProcStep, DatedFacts, PlainLabels, ZenonT(30) DEF Goto
<1>4. CASE RemoteHit(p) /\ Goto(p, "backfill") /\ buf' = [buf EXCEPT ![p] = remote]
  <2>1. remote \in DatedFiles /\ remote \in WholeFiles
    BY <1>0, <1>4, DatedFacts DEF ServerInv, RemoteHit, Usable
  <2>2. UNCHANGED <<now, tmp>> /\ pc[p] \in Plain
    BY <1>4, PlainLabels DEF RemoteHit
  <2>4. tmp' = [tmp EXCEPT ![p] = Absent]
    BY <1>0, <2>2, NoTmp, PlainLabels
  <2>3. HandsInv("backfill", remote, Absent)
    BY <2>1, PlainLabels, Kinds DEF HandsInv
  <2> QED
    BY <1>0, <1>4, <2>1, <2>2, <2>3, <2>4, ProcStep, DatedFacts, PlainLabels, ZenonT(30) DEF Goto
<1> QED
  BY <1>1, <1>2, <1>3, <1>4 DEF ReadDisk, RemoteHit

(* A process that backfills or stores. *)
LEMMA WritingStep ==
  ASSUME IInv, NEW p \in Procs,
         \/ Backfill(p) \/ BeginWrite(p) \/ EndWrite(p) \/ Rename(p) \/ WriteSkipped(p)
         \/ WriteFails(p) \/ RenameFails(p) \/ StartPut(p)
  PROVE  ProcsInv'
<1>0. /\ ProcsInv
      /\ buf[p] \in DatedFiles /\ tmp[p] \in DatedFiles
      /\ HandsInv(pc[p], buf[p], tmp[p])
  BY DEF IInv, ProcsInv
<1>1. CASE Backfill(p)
  <2>1. tmp[p] = Absent
    BY <1>0, <1>1, NoTmp, PlainLabels DEF Backfill
  <2>2. HandsInv("backfillWrite", buf[p], tmp[p])
    BY <1>0, <1>1, <2>1, Kinds DEF HandsInv, Backfill, Writing, Renaming
  <2> QED
    BY <1>0, <1>1, <2>2, GotoStep DEF Backfill, Labels, Writing
<1>2. CASE BeginWrite(p)
  <2>1. HandsInv(pc[p], buf[p], Partial)
    BY <1>0, <1>2, PlainLabels DEF HandsInv, BeginWrite
  <2>2. UNCHANGED <<now, pc, buf>> /\ tmp' = [tmp EXCEPT ![p] = Partial] /\ pc[p] \in Labels
    BY <1>2, PlainLabels DEF BeginWrite
  <2>3. pc' = [pc EXCEPT ![p] = pc[p]] /\ buf' = [buf EXCEPT ![p] = buf[p]]
    BY <1>0, <2>2 DEF ProcsInv
  <2> QED
    BY <1>0, <2>1, <2>2, <2>3, ProcStep, DatedFacts, ZenonT(30)
<1>3. CASE EndWrite(p)
  <2> DEFINE label == IF pc[p] = "backfillWrite" THEN "backfillRename" ELSE "storeRename"
  <2>1. label \in Labels /\ label \in Renaming /\ label \notin {"backfill"} \cup Writing
    BY DEF Labels, Renaming, Writing
  <2>2. buf[p] \in WholeFiles
    BY <1>0, <1>3 DEF HandsInv, EndWrite
  <2>3. HandsInv(label, buf[p], buf[p])
    BY <2>1, <2>2, Kinds DEF HandsInv
  <2>4. UNCHANGED <<now, buf>> /\ tmp' = [tmp EXCEPT ![p] = buf[p]] /\ pc' = [pc EXCEPT ![p] = label]
    BY <1>3 DEF EndWrite, Goto
  <2>5. buf' = [buf EXCEPT ![p] = buf[p]]
    BY <1>0, <2>4 DEF ProcsInv
  <2> HIDE DEF label
  <2> QED
    BY <1>0, <2>1, <2>3, <2>4, <2>5, ProcStep, ZenonT(30)
<1>4. CASE Rename(p) \/ WriteFails(p) \/ RenameFails(p)
  <2>1. AfterWrite(p) \in Plain
    BY PlainLabels DEF AfterWrite
  <2>2. UNCHANGED now /\ Leave(p, AfterWrite(p)) /\ tmp' = [tmp EXCEPT ![p] = Absent]
    BY <1>4 DEF Rename, WriteFails, RenameFails
  <2> QED
    BY <1>0, <2>1, <2>2, LeaveStep DEF Plain
<1>5. CASE WriteSkipped(p)
  <2>1. AfterWrite(p) \in Plain
    BY PlainLabels DEF AfterWrite
  <2>2. UNCHANGED <<now, tmp>> /\ Leave(p, AfterWrite(p)) /\ tmp[p] = Absent
    BY <1>5 DEF WriteSkipped
  <2>3. tmp' = [tmp EXCEPT ![p] = Absent]
    BY <1>0, <2>2 DEF ProcsInv
  <2> QED
    BY <1>0, <2>1, <2>2, <2>3, LeaveStep DEF Plain
<1>6. CASE StartPut(p)
  <2> DEFINE b == Whole(NewEntry(HostOf[p], now))
  <2>1. b \in DatedFiles /\ b \in WholeFiles
    BY NewEntryDated, HostAssumption, DatedFacts DEF IInv, CountInv
  <2>2. UNCHANGED <<now, tmp>> /\ pc[p] \in Plain /\ Goto(p, "storeWrite") /\ buf' = [buf EXCEPT ![p] = b]
    BY <1>6, PlainLabels DEF StartPut
  <2>3. tmp[p] = Absent /\ tmp' = [tmp EXCEPT ![p] = Absent]
    BY <1>0, <2>2, NoTmp, PlainLabels
  <2> HIDE DEF b
  <2>4. HandsInv("storeWrite", b, Absent)
    BY <2>1, Kinds DEF HandsInv, Writing, Renaming
  <2>5. "storeWrite" \in Labels /\ pc' = [pc EXCEPT ![p] = "storeWrite"]
    BY <2>2 DEF Labels, Writing, Goto
  <2> QED
    BY <1>0, <2>1, <2>2, <2>3, <2>4, <2>5, ProcStep, DatedFacts, ZenonT(30)
<1> QED
  BY <1>1, <1>2, <1>3, <1>4, <1>5, <1>6

(* What holds of processes is kept by every step. *)
LEMMA ProcsPreserved == IInv /\ Next => ProcsInv'
<1> SUFFICES ASSUME IInv, Next PROVE ProcsInv'
  OBVIOUS
<1>0. ProcsInv
  BY DEF IInv
<1>1. CASE Tick
  BY <1>1, TickInv DEF IInv
<1>2. ASSUME NEW p \in Procs,
             ProviderFails(p) \/ NoRemotePut(p) \/ RemotePut(p) \/ RemotePutFails(p)
      PROVE  ProcsInv'
  <2>1. UNCHANGED <<now, buf, tmp>> /\ pc[p] \in Plain /\ "idle" \in Plain /\ Goto(p, "idle")
    BY <1>2, PlainLabels DEF ProviderFails, NoRemotePut, RemotePut, RemotePutFails
  <2> QED
    BY <1>0, <2>1, GotoPlain
<1>3. ASSUME NEW p \in Procs, Crash(p) PROVE ProcsInv'
  <2>1. UNCHANGED now /\ Leave(p, "idle") /\ tmp' = [tmp EXCEPT ![p] = Absent] /\ "idle" \in Plain
    BY <1>3, PlainLabels DEF Crash
  <2> QED
    BY <1>0, <2>1, LeaveStep DEF Plain
<1>4. ASSUME NEW p \in Procs, StartGet(p) \/ Runs(p) \/ Answers(p) \/ Fails(p) PROVE ProcsInv'
  BY <1>2, <1>3, <1>4, ReadingStep, WritingStep DEF Runs, Answers, Fails, RemoteGetTimeout
<1>5. ASSUME NEW h \in DiskHosts, PowerLoss(h) PROVE ProcsInv'
  <2> DEFINE Here == {p \in Procs : HostOf[p] = h}
  <2>1. /\ UNCHANGED now
        /\ pc' = [p \in Procs |-> IF p \in Here THEN "idle" ELSE pc[p]]
        /\ tmp' = [p \in Procs |-> IF p \in Here THEN Absent ELSE tmp[p]]
        /\ buf' = [p \in Procs |-> IF p \in Here THEN Absent ELSE buf[p]]
    BY <1>5 DEF PowerLoss
  <2>2. "idle" \in Labels /\ HandsInv("idle", Absent, Absent)
    BY Kinds DEF HandsInv, Labels, Writing, Renaming
  <2> HIDE DEF Here
  <2>3. ASSUME NEW p \in Procs PROVE HandsInv(pc'[p], buf'[p], tmp'[p])
    BY <1>0, <2>1, <2>2 DEF ProcsInv
  <2>4. (\A p \in Procs : HandsInv(pc[p], buf[p], tmp[p]))'
    BY <2>3 DEF HandsInv
  <2>5. pc' \in [Procs -> Labels] /\ buf' \in [Procs -> DatedFiles] /\ tmp' \in [Procs -> DatedFiles]
    BY <1>0, <2>1, <2>2, DatedFacts DEF ProcsInv
  <2> QED
    BY <2>1, <2>4, <2>5, DatedSame DEF ProcsInv
<1>6. CASE ServerAppliesLate \/ ServerDrops
  BY <1>0, <1>6, ProcsSame DEF ServerAppliesLate, ServerDrops
<1> QED
  BY <1>1, <1>4, <1>5, <1>6 DEF Next

LEMMA StepInv == IInv /\ [Next]_vars => IInv'
<1> SUFFICES ASSUME IInv, [Next]_vars PROVE IInv'
  OBVIOUS
<1>1. CASE Next
  BY <1>1, CountStep, DiskPreserved, ServerPreserved, ProcsPreserved, ServedPreserved DEF IInv
<1>2. CASE UNCHANGED vars
  <2>1. CountInv'
    BY <1>2 DEF IInv, CountInv, vars
  <2>2. DiskInv' /\ ServerInv' /\ ProcsInv' /\ ServedInv'
    BY <1>2, DiskSame, ServerSame, ProcsSame, ServedSame DEF IInv, vars
  <2> QED
    BY <2>1, <2>2 DEF IInv
<1> QED
  BY <1>1, <1>2

-----------------------------------------------------------------------------
LEMMA InvImplies == IInv => TypeOK /\ NoTornEntry /\ FreshHit
<1> SUFFICES ASSUME IInv PROVE TypeOK /\ NoTornEntry /\ FreshHit
  OBVIOUS
<1>1. NoTornEntry
  BY DEF IInv, DiskInv, NoTornEntry
<1>2. FreshHit
  BY DEF IInv, ServedInv, FreshFor, FreshHit
<1>3. now \in Instants /\ faults \in 0 .. MaxFaults
  BY DEF IInv, CountInv
<1>4. disk \in [Hosts -> Files] /\ remote \in {Absent} \cup WholeFiles /\ inflight \subseteq Entries
  BY DatedFacts DEF IInv, DiskInv, ServerInv, DatedEntries
<1>5. pc \in [Procs -> Labels] /\ buf \in [Procs -> Files] /\ tmp \in [Procs -> Files]
  BY DatedFacts DEF IInv, ProcsInv
<1>6. \A p \in Procs :
        /\ pc[p] \in Renaming => tmp[p] \in WholeFiles /\ tmp[p] = buf[p]
        /\ pc[p] \notin Renaming => tmp[p] \in {Absent, Partial}
        /\ tmp[p] = Partial => pc[p] \in Writing
  BY DEF IInv, ProcsInv, HandsInv
<1>7. \A p \in Procs : served[p].hit => served[p].age \in Instants /\ served[p].by \in Hosts
  BY DEF IInv, ServedInv, FreshFor
<1> QED
  BY <1>1, <1>2, <1>3, <1>4, <1>5, <1>6, <1>7 DEF TypeOK

(* The variables keep their types, whatever processes, hosts and faults.   *)
THEOREM TypeCorrect == Spec => []TypeOK
BY InitInv, StepInv, InvImplies, PTL DEF Spec

(* Nobody finds a half-written entry: the temp file and the rename do what *)
(* they are for, for any number of processes without a lock.               *)
THEOREM NoTornEntryHolds == Spec => []NoTornEntry
BY InitInv, StepInv, InvImplies, PTL DEF Spec

(* A hit is never older than the reader's TTL plus the difference of the   *)
(* two clocks, through any number of tiers, hosts and late PUTs.           *)
THEOREM FreshHitHolds == Spec => []FreshHit
BY InitInv, StepInv, InvImplies, PTL DEF Spec
=============================================================================
