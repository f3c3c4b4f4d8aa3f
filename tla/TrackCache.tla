------------------------------ MODULE TrackCache ------------------------------
(***************************************************************************)
(* The on-disk track cache of src/cache.rs: an LRU of finished Ogg files,  *)
(* its metadata file, and the fetchers of src/audio that land files in it. *)
(*                                                                         *)
(* Every public operation of Manager runs under one mutex.  The code run   *)
(* under it is split here where a crash of the process tells two points    *)
(* apart: the in-memory update with its file deletions, each round of the  *)
(* eviction loop, and the save.  "lock" names what its holder does next.   *)
(***************************************************************************)
EXTENDS Integers, Sequences, FiniteSets, Functions

CONSTANTS
    Track,          \* Spotify track ids
    Stem,           \* Stem[t]: the "<artist> - <title>" file name of t
    NoTrack,        \* no put or drop in progress
    NoDownload,     \* no fetch in progress
    Sizes,          \* Sizes[t]: the sizes a finished file of t may have
    Limits,         \* values of cache_max_mb
    Gate,           \* TOUCH_PERSIST_SECS
    MaxIndex,       \* bound: the largest " (idx)" of a file name
    MaxNow,         \* bound: the clock
    MaxRequests,    \* bound: admin requests between their save and their set_max_mb
    MaxRestarts     \* bound: crashes of the process

ASSUME TrackAssumption == NoTrack \notin Track /\ IsFiniteSet(Track)
ASSUME StemAssumption == DOMAIN Stem = Track
ASSUME SizeAssumption == Sizes \in [Track -> SUBSET Nat] /\ Limits \subseteq Nat
ASSUME GateAssumption == Gate \in Nat \ {0}
ASSUME BoundAssumption == {MaxIndex, MaxNow, MaxRequests, MaxRestarts} \subseteq Nat

VARIABLES
    files,      \* finished files in the cache directory: path -> [track, size]
    meta,       \* _metadata.json: track -> entry, as last saved
    entries,    \* Inner.entries: track -> entry
    order,      \* Inner.order, oldest first
    total,      \* Inner.total_size_bytes
    max,        \* Inner.max_bytes
    lock,       \* "free", or what the holder of the mutex does next
    subject,    \* the track that the holder of the mutex puts or drops
    dl,         \* the fetch that holds TrackPreparer.download_lock
    config,     \* cache_max_mb in the configuration file
    toApply,    \* limits saved by an admin request that has yet to set_max_mb
    now,        \* now_unix()
    restarts,   \* crashes so far
    saveOk,     \* history: the last save succeeded
    used        \* history: when this process last put or looked up each cached track

memory == <<entries, order, total, max, lock, subject>>
vars == <<files, meta, memory, dl, config, toApply, now, restarts, saveOk, used>>

-----------------------------------------------------------------------------
Path == Range(Stem) \X (0..MaxIndex)
File == [track : Track, size : Nat]
Entry == [stamp : Nat, path : Path, size : Nat]
Download == [stage : {"encoding", "landed", "measured"}, track : Track,
             path : Path, size : Nat, stamp : Nat]

ASSUME DownloadAssumption == NoDownload \notin Download

IsPartialFun(f, S, T) == DOMAIN f \subseteq S /\ f \in [DOMAIN f -> T]
Without(f, x) == Restrict(f, DOMAIN f \ {x})
With(f, x, y) == [z \in DOMAIN f \cup {x} |-> IF z = x THEN y ELSE f[z]]

\* order.retain(|id| id != track_id) on a queue of distinct ids.
Retain(s, t) ==
    IF \E k \in 1..Len(s) : s[k] = t
    THEN LET k == CHOOSE k \in 1..Len(s) : s[k] = t
         IN  [i \in 1..Len(s) - 1 |-> IF i < k THEN s[i] ELSE s[i + 1]]
    ELSE s

\* (total - size).max(0)
Less(n, size) == IF size < n THEN n - size ELSE 0

\* The bytes the entries account for, one element per byte: its cardinality is
\* the sum of the file sizes.
Bytes(e) == UNION {{x} \X (1..e[x].size) : x \in DOMAIN e}

Init ==
    /\ files = <<>> /\ meta = <<>> /\ entries = <<>>
    /\ order = <<>> /\ total = 0
    /\ max \in Limits /\ config = max /\ toApply = {}
    /\ lock = "free" /\ subject = NoTrack /\ dl = NoDownload
    /\ now = 0 /\ restarts = 0 /\ saveOk = TRUE
    /\ used = <<>>

-----------------------------------------------------------------------------
(* get_path: three outcomes for an entry.                                  *)

\* The file vanished underneath us.
GetVanished(t) ==
    /\ lock = "free" /\ t \in DOMAIN entries
    /\ entries[t].path \notin DOMAIN files
    /\ lock' = "vanished" /\ subject' = t
    /\ UNCHANGED <<files, meta, entries, order, total, max, dl, config, toApply, now,
                   restarts, saveOk, used>>

\* Mutated Remove: the entry goes, its place in the queue stays.
RemoveKeepsPlace ==
    /\ lock = "vanished"
    /\ entries' = Without(entries, subject)
    /\ total' = Less(total, entries[subject].size)
    /\ files' = Without(files, entries[subject].path)
    /\ used' = Without(used, subject)
    /\ lock' = "dirty" /\ subject' = NoTrack
    /\ UNCHANGED <<meta, order, max, dl, config, toApply, now, restarts, saveOk>>

\* The entry goes, with whatever a fetcher has renamed to its path meanwhile.
Remove ==
    /\ lock = "vanished"
    /\ entries' = Without(entries, subject)
    /\ order' = Retain(order, subject)
    /\ total' = Less(total, entries[subject].size)
    /\ files' = Without(files, entries[subject].path)
    /\ used' = Without(used, subject)
    /\ lock' = "dirty" /\ subject' = NoTrack
    /\ UNCHANGED <<meta, max, dl, config, toApply, now, restarts, saveOk>>

Recent(t) == now - entries[t].stamp < Gate

\* A hit within the gate leaves recency and metadata alone.
GetRecent(t) ==
    /\ lock = "free" /\ t \in DOMAIN entries
    /\ entries[t].path \in DOMAIN files
    /\ Recent(t)
    /\ used' = [used EXCEPT ![t] = now]
    /\ UNCHANGED <<files, meta, memory, dl, config, toApply, now, restarts, saveOk>>

\* Mutated GetTouched: the stamp is renewed, the queue left as it is.
TouchInPlace(t) ==
    /\ lock = "free" /\ t \in DOMAIN entries
    /\ entries[t].path \in DOMAIN files
    /\ ~Recent(t)
    /\ entries' = [entries EXCEPT ![t].stamp = now]
    /\ lock' = "dirty"
    /\ used' = [used EXCEPT ![t] = now]
    /\ UNCHANGED <<files, meta, order, total, max, subject, dl, config, toApply, now,
                   restarts, saveOk>>

\* Mutated GetTouched: the new stamp is not saved.
TouchInMemory(t) ==
    /\ lock = "free" /\ t \in DOMAIN entries
    /\ entries[t].path \in DOMAIN files
    /\ ~Recent(t)
    /\ entries' = [entries EXCEPT ![t].stamp = now]
    /\ order' = Append(Retain(order, t), t)
    /\ used' = [used EXCEPT ![t] = now]
    /\ UNCHANGED <<files, meta, total, max, lock, subject, dl, config, toApply, now,
                   restarts, saveOk>>

\* A hit on a stale entry moves it to the back and persists.
GetTouched(t) ==
    /\ lock = "free" /\ t \in DOMAIN entries
    /\ entries[t].path \in DOMAIN files
    /\ ~Recent(t)
    /\ entries' = [entries EXCEPT ![t].stamp = now]
    /\ order' = Append(Retain(order, t), t)
    /\ lock' = "dirty"
    /\ used' = [used EXCEPT ![t] = now]
    /\ UNCHANGED <<files, meta, total, max, subject, dl, config, toApply, now,
                   restarts, saveOk>>

-----------------------------------------------------------------------------
(* A fetch.  It starts under download_lock after get_path found nothing,   *)
(* picks its file name with track_path once the audio is there, encodes to *)
(* a scratch file, renames it into place and calls put, which measures the *)
(* file before it takes the mutex.                                         *)

FirstFree(s, i) ==
    /\ <<s, i>> \notin DOMAIN files
    /\ \A j \in 0..i - 1 : <<s, j>> \in DOMAIN files

TrackPath(t) ==
    /\ lock = "free" /\ dl = NoDownload
    /\ t \notin DOMAIN entries
    /\ \E i \in 0..MaxIndex :
          /\ FirstFree(Stem[t], i)
          /\ dl' = [stage |-> "encoding", track |-> t, path |-> <<Stem[t], i>>,
                     size |-> 0, stamp |-> 0]
    /\ UNCHANGED <<files, meta, memory, config, toApply, now, restarts, saveOk, used>>

\* Encoding or renaming fails, or clear deleted the scratch file.
FetchFails ==
    /\ dl # NoDownload /\ dl.stage = "encoding"
    /\ dl' = NoDownload
    /\ UNCHANGED <<files, meta, memory, config, toApply, now, restarts, saveOk, used>>

Rename ==
    /\ dl # NoDownload /\ dl.stage = "encoding"
    /\ \E s \in Sizes[dl.track] : files' = With(files, dl.path, [track |-> dl.track, size |-> s])
    /\ dl' = [dl EXCEPT !.stage = "landed"]
    /\ UNCHANGED <<meta, memory, config, toApply, now, restarts, saveOk, used>>

\* The size and the time of the new entry, before the mutex is taken.
Measure ==
    /\ dl # NoDownload /\ dl.stage = "landed"
    /\ dl' = [dl EXCEPT !.stage = "measured",
                        !.size = IF dl.path \in DOMAIN files THEN files[dl.path].size ELSE 0,
                        !.stamp = now]
    /\ UNCHANGED <<files, meta, memory, config, toApply, now, restarts, saveOk, used>>

\* Mutated Put: the new track joins the queue at the end that is evicted first.
PutAtFront ==
    /\ dl # NoDownload /\ dl.stage = "measured" /\ lock = "free"
    /\ dl.track \notin DOMAIN entries
    /\ entries' = With(entries, dl.track, [stamp |-> dl.stamp, path |-> dl.path, size |-> dl.size])
    /\ order' = <<dl.track>> \o order
    /\ total' = total + dl.size
    /\ subject' = dl.track
    /\ used' = With(used, dl.track, now)
    /\ lock' = "evict"
    /\ dl' = NoDownload
    /\ UNCHANGED <<files, meta, max, config, toApply, now, restarts, saveOk>>

\* An older entry of the track goes first, with its file unless it is this one.
Put ==
    /\ dl # NoDownload /\ dl.stage = "measured" /\ lock = "free"
    /\ LET t == dl.track
           replaces == t \in DOMAIN entries
           old == entries[t]
       IN  /\ entries' = With(entries, t, [stamp |-> dl.stamp, path |-> dl.path,
                                             size |-> dl.size])
           /\ order' = Append(Retain(order, t), t)
           /\ total' = (IF replaces THEN Less(total, old.size) ELSE total) + dl.size
           /\ files' = IF replaces /\ old.path # dl.path THEN Without(files, old.path) ELSE files
           /\ subject' = t
           /\ used' = With(used, t, now)
    /\ lock' = "evict"
    /\ dl' = NoDownload
    /\ UNCHANGED <<meta, max, config, toApply, now, restarts, saveOk>>

-----------------------------------------------------------------------------
(* evict_if_needed and save, run by the holder of the mutex.               *)

EvictOldest ==
    /\ lock = "evict" /\ total > max /\ order # <<>>
    /\ LET oldest == Head(order)
       IN  /\ entries' = Without(entries, oldest)
           /\ total' = Less(total, entries[oldest].size)
           /\ files' = Without(files, entries[oldest].path)
           /\ used' = Without(used, oldest)
    /\ order' = Tail(order)
    /\ UNCHANGED <<meta, max, lock, subject, dl, config, toApply, now, restarts, saveOk>>

\* Mutated EvictDone: one eviction at most.
EvictOnce ==
    /\ lock = "evict"
    /\ lock' = "trimmed" /\ subject' = NoTrack
    /\ UNCHANGED <<files, meta, entries, order, total, max, dl, config, toApply, now,
                   restarts, saveOk, used>>

EvictDone ==
    /\ lock = "evict" /\ (total <= max \/ order = <<>>)
    /\ lock' = "trimmed" /\ subject' = NoTrack
    /\ UNCHANGED <<files, meta, entries, order, total, max, dl, config, toApply, now,
                   restarts, saveOk, used>>

\* Written to a temporary and renamed over the old one; a failure is ignored.
Save ==
    /\ lock \in {"trimmed", "dirty"}
    /\ \/ meta' = entries /\ saveOk' = TRUE
       \/ meta' = meta /\ saveOk' = FALSE
    /\ lock' = "free"
    /\ UNCHANGED <<files, entries, order, total, max, subject, dl, config, toApply, now,
                   restarts, used>>

-----------------------------------------------------------------------------
(* The admin page: handle_admin_cache saves the configuration, then calls  *)
(* set_max_mb; handle_admin_cache_clear calls clear.                       *)

SaveLimit(m) ==
    /\ Cardinality(toApply) < MaxRequests
    /\ config' = m
    /\ toApply' = toApply \cup {m}
    /\ UNCHANGED <<files, meta, memory, dl, now, restarts, saveOk, used>>

SetMax(m) ==
    /\ lock = "free" /\ m \in toApply
    /\ max' = m /\ toApply' = toApply \ {m}
    /\ lock' = "evict"
    /\ UNCHANGED <<files, meta, entries, order, total, subject, dl, config, now, restarts,
                   saveOk, used>>

\* Mutated Clear: the total is not reset.
ClearKeepsTotal ==
    /\ lock = "free"
    /\ entries' = <<>> /\ order' = <<>> /\ files' = <<>> /\ used' = <<>>
    /\ lock' = "dirty"
    /\ UNCHANGED <<meta, total, max, subject, dl, config, toApply, now, restarts, saveOk>>

Clear ==
    /\ lock = "free"
    /\ entries' = <<>> /\ order' = <<>> /\ total' = 0
    /\ files' = <<>> /\ used' = <<>>
    /\ lock' = "dirty"
    /\ UNCHANGED <<meta, max, subject, dl, config, toApply, now, restarts, saveOk>>

-----------------------------------------------------------------------------
(* The environment: the clock, a file deleted by hand, and a crash at any  *)
(* point followed by Manager::new, which sweeps scratch files and loads    *)
(* the entries whose file is there, oldest stamp first, ties in any order. *)

Tick ==
    /\ now < MaxNow
    /\ now' = now + 1
    /\ UNCHANGED <<files, meta, memory, dl, config, toApply, restarts, saveOk, used>>

FileVanishes(p) ==
    /\ p \in DOMAIN files
    /\ files' = Without(files, p)
    /\ UNCHANGED <<meta, memory, dl, config, toApply, now, restarts, saveOk, used>>

\* The ways to line up the tracks of S by the stamps in e.
LoadOrders(e, S) ==
    {o \in [1..Cardinality(S) -> S] :
        \A i, j \in 1..Cardinality(S) :
            i < j => o[i] # o[j] /\ e[o[i]].stamp <= e[o[j]].stamp}

Restart ==
    /\ restarts < MaxRestarts
    /\ restarts' = restarts + 1
    /\ LET kept == {t \in DOMAIN meta : meta[t].path \in DOMAIN files}
       IN  /\ entries' = Restrict(meta, kept)
           /\ order' \in LoadOrders(meta, kept)
           /\ total' = Cardinality(Bytes(entries'))
           /\ used' = [t \in kept |-> meta[t].stamp]
    /\ max' = config /\ lock' = "free" /\ subject' = NoTrack
    /\ dl' = NoDownload /\ toApply' = {} /\ saveOk' = TRUE
    /\ UNCHANGED <<files, meta, config, now>>

-----------------------------------------------------------------------------
Lookup == (\E t \in Track : GetVanished(t) \/ GetRecent(t) \/ GetTouched(t)) \/ Remove
Fetch == (\E t \in Track : TrackPath(t)) \/ FetchFails \/ Rename \/ Measure \/ Put
Holder == EvictOldest \/ EvictDone \/ Save
Admin == (\E m \in Limits : SaveLimit(m) \/ SetMax(m)) \/ Clear
Environment == Tick \/ (\E p \in Path : FileVanishes(p)) \/ Restart

Next == Lookup \/ Fetch \/ Holder \/ Admin \/ Environment

Spec == Init /\ [][Next]_vars

-----------------------------------------------------------------------------
(* Properties.                                                             *)

\* Every variable has its type.
TypeOK ==
    /\ IsPartialFun(files, Path, File)
    /\ IsPartialFun(meta, Track, Entry)
    /\ IsPartialFun(entries, Track, Entry)
    /\ order \in Seq(Track)
    /\ total \in Nat
    /\ max \in Limits /\ config \in Limits /\ toApply \subseteq Limits
    /\ lock \in {"free", "vanished", "evict", "trimmed", "dirty"}
    /\ subject \in Track \cup {NoTrack}
    /\ dl \in Download \cup {NoDownload}
    /\ now \in Nat /\ restarts \in Nat /\ saveOk \in BOOLEAN
    /\ used \in [DOMAIN entries -> Nat]

\* The eviction queue holds every cached track exactly once: an entry missing
\* from it could never be evicted, a duplicate would stop the loop too early.
OrderIsPermutation ==
    /\ Range(order) = DOMAIN entries
    /\ \A i, j \in 1..Len(order) : order[i] = order[j] => i = j

\* The running total is the sum of the sizes of the entries, through every put,
\* replacement, eviction, clear and reload: it never drifts from what it counts.
TotalIsSum == total = Cardinality(Bytes(entries))

\* Whenever evict_if_needed returns the accounted size is within the limit, also
\* when its loop ends because the queue ran empty.
WithinLimit == lock = "trimmed" => total <= max

\* Eviction is least recently used up to the persistence gate: if x stands before
\* y in the queue, x was not used more than Gate after y, although a hit
\* within the gate moves nothing and restarts rebuild the queue from the stamps.
LruWithinGate ==
    \A i, j \in 1..Len(order) : i < j => used[order[i]] < used[order[j]] + Gate

\* put never evicts the track it adds unless that track alone exceeds the limit.
FreshSurvives ==
    [][lock = "evict" /\ lock' = "evict" /\ subject \in DOMAIN entries \ DOMAIN entries'
          => entries[subject].size > max]_vars

\* A restart outside the mutex after a successful save loses no entry whose file
\* is on disk, and changes none: everything worth persisting was persisted.
RestartKeeps ==
    [][restarts' # restarts /\ lock = "free" /\ saveOk =>
          \A t \in DOMAIN entries :
             entries[t].path \in DOMAIN files =>
                t \in DOMAIN entries' /\ entries'[t] = entries[t]]_vars

\* cache.rs:71, "Path of a cached track": the file get_path answers with holds the
\* audio of the track asked for.
OwnAudio ==
    \A t \in DOMAIN entries :
        entries[t].path \in DOMAIN files => files[entries[t].path].track = t
=============================================================================
