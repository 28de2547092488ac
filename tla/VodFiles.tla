------------------------------ MODULE VodFiles ------------------------------
(***************************************************************************)
(* The files the server makes beside a recorded file when it is first      *)
(* played over HTTP: the HLS playlist and its segments (vod_hls.c, under a *)
(* mutex that the first request creates) and the FLV copy                  *)
(* (vod_flv_cache.c, under none).  Requests run on the threads of the VOD  *)
(* pool.  Each file is written under a temporary name and renamed; a name  *)
(* is bound to an inode, an open file keeps its inode whatever becomes of  *)
(* the name.  The recorded file itself does not change.                    *)
(***************************************************************************)
EXTENDS Integers, FiniteSets

CONSTANTS
    Workers,    \* threads of the pool
    Segments,   \* the segments of the playlist, by name
    MaxFailed   \* bound: files a write fails on

VodFilesAssumption == Workers # {} /\ IsFiniteSet(Workers) /\ MaxFailed \in Nat
                      /\ IsFiniteSet(Segments) /\ Segments \cap {"m3u8", "flv"} = {}

VARIABLES
    path,      \* the inode under each file's name, 0 for none
    tmp,       \* the inode under its temporary name
    data,      \* the parts written to each inode
    job,       \* the file each thread was asked for
    making,    \* the file it makes at the moment
    pc,        \* where it is
    fp,        \* the inode it writes
    mu,        \* g_vod_hls_mu: which mutex, 0 before the first
    held,      \* who holds each mutex
    failed     \* files a writer failed on

vars == <<path, tmp, data, job, making, pc, fp, mu, held, failed>>

Files == {"m3u8", "flv"} \cup Segments
Hls == Files \ {"flv"}
Nobody == "nobody"
Halves == {1, 2}
Inodes == 1..(2 * Cardinality(Files) + Cardinality(Workers))
Mutexes == 1..Cardinality(Workers)

Init ==
    /\ path = [f \in Files |-> 0] /\ tmp = [f \in Files |-> 0]
    /\ data = [i \in Inodes |-> {}]
    /\ job = [w \in Workers |-> "m3u8"] /\ making = [w \in Workers |-> "m3u8"]
    /\ pc = [w \in Workers |-> "idle"] /\ fp = [w \in Workers |-> 0]
    /\ mu = 0 /\ held = [m \in Mutexes |-> Nobody] /\ failed = {}

Goto(w, l) == pc' = [pc EXCEPT ![w] = l]
Home(w) == Goto(w, "idle") /\ making' = [making EXCEPT ![w] = "m3u8"]
           /\ job' = [job EXCEPT ![w] = "m3u8"]
Stay == UNCHANGED <<job, making>>

\* An inode without a name that nobody has open is gone.
Used(i) == i \in {path[f] : f \in Files} \cup {tmp[f] : f \in Files} \cup {fp[w] : w \in Workers}
Collected == data' = [i \in Inodes |-> IF Used(i)' THEN data[i] ELSE {}]

\* playlist_file_valid, segment_file_valid, zms_vod_flv_cache_valid: the file
\* is there with some size and not older than the recorded one; a file that
\* is still written to has its size already.
Valid(f) == path[f] # 0

\* zms_vod_hls_has_static_pack: any playlist beside the file, the one made
\* here as well.
StaticPack == Valid("m3u8")
-----------------------------------------------------------------------------
(* Requests.                                                               *)

\* zms_http_vod_hls_serve and zms_http_vod_flv_start: what is there is sent
\* at once, a segment missing beside a playlist is a 404, for the rest the
\* pool goes to work.
Ask(w, f) ==
    /\ pc[w] = "idle" /\ ~Valid(f) /\ (f \in Hls => ~StaticPack)
    /\ job' = [job EXCEPT ![w] = f]
    /\ making' = [making EXCEPT ![w] = IF f = "flv" THEN "flv" ELSE "m3u8"]
    /\ Goto(w, IF f = "flv" THEN "flv" ELSE "segment")
    /\ UNCHANGED <<path, tmp, data, fp, mu, held, failed>>

\* zms_vod_hls_ensure_segment, for a playlist its call of
\* zms_vod_hls_ensure_playlist only.
EnsureSegment(w) ==
    /\ pc[w] = "segment"
    /\ IF job[w] # "m3u8" /\ StaticPack THEN Home(w) ELSE Goto(w, "playlist") /\ Stay
    /\ UNCHANGED <<path, tmp, data, fp, mu, held, failed>>

\* The next thing to make once the playlist is there.
AfterPlaylist(w) ==
    IF Valid(job[w]) THEN Home(w)
    ELSE Goto(w, "mutex") /\ making' = [making EXCEPT ![w] = job[w]] /\ UNCHANGED job

\* zms_vod_hls_ensure_playlist before the lock.
EnsurePlaylist(w) ==
    /\ pc[w] = "playlist"
    /\ IF StaticPack THEN AfterPlaylist(w) ELSE Goto(w, "mutex") /\ Stay
    /\ UNCHANGED <<path, tmp, data, fp, mu, held, failed>>

\* g_vod_hls_mu is made by whoever finds none, with nothing to keep a second
\* from doing the same.
TestMutex(w) ==
    /\ pc[w] = "mutex" /\ Goto(w, IF mu = 0 THEN "create" ELSE "lock")
    /\ UNCHANGED <<path, tmp, data, job, making, fp, mu, held, failed>>

CreateMutex(w) ==
    /\ pc[w] = "create" /\ mu' = mu + 1 /\ Goto(w, "lock")
    /\ UNCHANGED <<path, tmp, data, job, making, fp, held, failed>>

Lock(w) ==
    /\ pc[w] = "lock" /\ held[mu] = Nobody
    /\ held' = [held EXCEPT ![mu] = w] /\ Goto(w, "inside")
    /\ UNCHANGED <<path, tmp, data, job, making, fp, mu, failed>>

\* Under the lock the question is asked again (playlist_cache_valid); a
\* playlist to be made takes all segments with it (vod_hls_purge_segments).
Purged == [f \in Files |-> IF f \in Segments THEN 0 ELSE path[f]]

Recheck(w) ==
    /\ pc[w] = "inside"
    /\ Goto(w, IF Valid(making[w]) THEN "unlock" ELSE "open")
    /\ path' = IF ~Valid(making[w]) /\ making[w] = "m3u8" THEN Purged ELSE path
    /\ UNCHANGED <<tmp, job, making, fp, mu, held, failed>> /\ Collected

\* The unlock reads g_vod_hls_mu once more.
Unlock(w) ==
    /\ pc[w] = "unlock" /\ held' = [held EXCEPT ![mu] = Nobody]
    /\ IF making[w] = "m3u8" /\ StaticPack THEN AfterPlaylist(w) ELSE Home(w)
    /\ UNCHANGED <<path, tmp, data, fp, mu, failed>>

\* zms_vod_flv_cache_ensure has neither a lock nor a second look.
EnsureFlv(w) ==
    /\ pc[w] = "flv" /\ IF Valid("flv") THEN Home(w) ELSE Goto(w, "open") /\ Stay
    /\ UNCHANGED <<path, tmp, data, fp, mu, held, failed>>
-----------------------------------------------------------------------------
(* Writing a file: build_playlist_file, write_segment_file and the end of  *)
(* zms_vod_flv_cache_ensure.                                               *)

Done(w) == IF making[w] = "flv" THEN Home(w) ELSE Goto(w, "unlock") /\ Stay

FreshInode == CHOOSE i \in Inodes : ~Used(i) /\ \A j \in Inodes : ~Used(j) => i <= j

\* A bug: the file is written under its own name.
OpenInPlace(w) ==
    /\ pc[w] = "open"
    /\ LET f == making[w]
           i == FreshInode
       IN /\ tmp' = [tmp EXCEPT ![f] = i] /\ fp' = [fp EXCEPT ![w] = i]
          /\ path' = [path EXCEPT ![f] = i] /\ data' = [data EXCEPT ![i] = {}]
    /\ Goto(w, "write")
    /\ UNCHANGED <<job, making, mu, held, failed>>

\* fopen(tmp, "wb"): an existing file keeps its inode and is emptied.
Open(w) ==
    /\ pc[w] = "open"
    /\ LET f == making[w]
           i == IF tmp[f] # 0 THEN tmp[f] ELSE FreshInode
       IN /\ tmp' = [tmp EXCEPT ![f] = i] /\ fp' = [fp EXCEPT ![w] = i]
          /\ data' = [data EXCEPT ![i] = {}]
    /\ Goto(w, "write")
    /\ UNCHANGED <<path, job, making, mu, held, failed>>

\* Every writer has its own place in the file and writes from the start on;
\* for the FLV copy this is mux_lane_to_file.
Write(w, half, at, next) ==
    /\ pc[w] = at /\ Goto(w, next)
    /\ data' = [data EXCEPT ![fp[w]] = @ \cup {half}]
    /\ UNCHANGED <<path, tmp, job, making, fp, mu, held, failed>>

\* A write that fails takes the temporary name away.
WriteFails(w) ==
    /\ pc[w] \in {"write", "write on"} /\ Cardinality(failed \cup {making[w]}) <= MaxFailed
    /\ failed' = failed \cup {making[w]} /\ tmp' = [tmp EXCEPT ![making[w]] = 0]
    /\ fp' = [fp EXCEPT ![w] = 0] /\ Done(w)
    /\ UNCHANGED <<path, mu, held>> /\ Collected

\* fclose, remove(path) ...
RemoveOld(w) ==
    /\ pc[w] = "remove" /\ path' = [path EXCEPT ![making[w]] = 0]
    /\ fp' = [fp EXCEPT ![w] = 0] /\ Goto(w, "rename")
    /\ UNCHANGED <<tmp, job, making, mu, held, failed>> /\ Collected

\* ... and rename, which fails when another has renamed the file already.
Rename(w) ==
    /\ pc[w] = "rename"
    /\ LET f == making[w] IN
       /\ path' = IF tmp[f] # 0 THEN [path EXCEPT ![f] = tmp[f]] ELSE path
       /\ tmp' = [tmp EXCEPT ![f] = 0]
    /\ Done(w)
    /\ UNCHANGED <<fp, mu, held, failed>> /\ Collected

\* What a thread of the pool does (zms_vod_thread_pool_run).
Worker(w) ==
    \/ EnsureSegment(w) \/ EnsurePlaylist(w) \/ TestMutex(w) \/ CreateMutex(w) \/ Lock(w)
    \/ Recheck(w) \/ Unlock(w) \/ EnsureFlv(w)
    \/ Open(w) \/ Write(w, 1, "write", "write on") \/ Write(w, 2, "write on", "remove")
    \/ WriteFails(w) \/ RemoveOld(w) \/ Rename(w)

Next == \E w \in Workers : Worker(w) \/ \E f \in Files : Ask(w, f)

Spec == Init /\ [][Next]_vars
-----------------------------------------------------------------------------
(* Properties.                                                             *)

TypeOK ==
    /\ path \in [Files -> Inodes \cup {0}] /\ tmp \in [Files -> Inodes \cup {0}]
    /\ data \in [Inodes -> SUBSET Halves] /\ job \in [Workers -> Files]
    /\ making \in [Workers -> Files] /\ fp \in [Workers -> Inodes \cup {0}]
    /\ mu \in 0..Cardinality(Workers) /\ held \in [Mutexes -> Workers \cup {Nobody}]
    /\ failed \subseteq Files

Whole(f) == path[f] # 0 => data[path[f]] = Halves

\* Two threads found no mutex and made one each.
Split == mu > 1

\* Unless the mutex was made twice, a playlist or segment a request can find
\* is complete at any moment, also when writing one fails half-way.
HlsWhole == ~Split => \A f \in Hls : Whole(f)

\* The FLV copy may be seen half-written when two requests make it at once,
\* and so may the others after a split; but when everyone has finished and
\* no one failed, what is left under the name is complete.
Settled == \A f \in Files :
    f \notin failed /\ (\A w \in Workers : pc[w] = "idle" \/ making[w] # f) => Whole(f)
=============================================================================
