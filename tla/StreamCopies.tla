----------------------------- MODULE StreamCopies -----------------------------
(***************************************************************************)
(* The streaming copies that src/server/stream.rs builds in /dev/shm: a    *)
(* copy of a cached file with ReplayGain applied, a low-data transcode of  *)
(* it, or a low-data transcode of a normalized copy.  prewarm builds one   *)
(* ahead of time, play_track builds the one it is missing; both run in     *)
(* tasks of their own, and nothing but the set prewarming and the names of *)
(* the files keeps them apart.                                             *)
(*                                                                         *)
(* A step is what runs between two awaits, or between two operations on    *)
(* the directory that another task can see.  prune lists the directory     *)
(* and removes in one step: two prunes that overlap choose from the same   *)
(* files.  The modification times by which prune sorts are those of the    *)
(* last write, just before the rename; here the order is that of the       *)
(* renames.                                                                *)
(***************************************************************************)
EXTENDS Naturals, Sequences, SequencesExt, FiniteSets

CONSTANTS
    Task,           \* the tasks spawned by prewarm and play_track
    File,           \* paths of cached files
    NoFile,         \* what a task without a job works on
    Above,          \* files of more than 144k, which low data mode transcodes
    MaxCopies       \* MAX_TEMP_COPIES

ASSUME FileAssumption == NoFile \notin File /\ Above \subseteq File
ASSUME MaxAssumption == MaxCopies \in Nat \ {0}
ASSUME TaskAssumption == IsFiniteSet(Task)

VARIABLES
    normalize,  \* normalization() is Stream, for files not normalized on disk
    lowData,    \* low_data_streaming()
    prewarming, \* StreamManager.prewarming
    copies,     \* names of the finished copies, oldest first
    torn,       \* names whose finished copy is not whole
    scratch,    \* names of the .tmp. files
    written,    \* scratch files whose content is complete
    pc,         \* where each task is
    job,        \* what each task runs for: prewarm or play_track
    file,       \* the file it was given
    variant,    \* TempArtifact, or raw for none
    inner       \* whether it encodes from a normalized copy

config == <<normalize, lowData>>
disk == <<copies, torn, scratch, written>>
mine == <<job, file, variant, inner>>
streamCopies == <<config, prewarming, disk, pc, mine>>

Variant == {"normalized", "lowData", "lowDataNormalized"}
Name == File \X Variant

\* plan_temp_artifact.
Planned(f) ==
    IF lowData /\ f \in Above
    THEN IF normalize THEN "lowDataNormalized" ELSE "lowData"
    ELSE IF normalize THEN "normalized" ELSE "raw"

Target(p) == <<file[p], variant[p]>>
Normalized(p) == <<file[p], "normalized">>

\* Mutated Scratch: a scratch name made of the target alone, without random_hex.
ScratchByName(p, n) == <<n, n>>

\* The scratch file in which p builds n: its name starts with random hex digits.
Scratch(p, n) == <<p, n>>

Has(n) == \E i \in 1..Len(copies) : copies[i] = n

\* No two copies have one name.
Without(n) ==
    IF Has(n) THEN RemoveAt(copies, CHOOSE i \in 1..Len(copies) : copies[i] = n) ELSE copies

CopiesInit ==
    /\ normalize = FALSE /\ lowData = FALSE
    /\ prewarming = {}
    /\ copies = <<>> /\ torn = {} /\ scratch = {} /\ written = {}
    /\ pc = [p \in Task |-> "idle"]
    /\ job = [p \in Task |-> "play"]
    /\ file = [p \in Task |-> NoFile]
    /\ variant = [p \in Task |-> "raw"]
    /\ inner = [p \in Task |-> FALSE]

Goto(p, from, to) == pc[p] = from /\ pc' = [pc EXCEPT ![p] = to]

\* The task of p ends.
EndTask(p) ==
    /\ pc' = [pc EXCEPT ![p] = "idle"]
    /\ job' = [job EXCEPT ![p] = "play"]
    /\ file' = [file EXCEPT ![p] = NoFile]
    /\ variant' = [variant EXCEPT ![p] = "raw"]
    /\ UNCHANGED inner

-----------------------------------------------------------------------------
(* prewarm, and the start of play_track.                                   *)

Begin(p, f, j, to) ==
    /\ Goto(p, "idle", to)
    /\ job' = [job EXCEPT ![p] = j]
    /\ file' = [file EXCEPT ![p] = f]
    /\ variant' = [variant EXCEPT ![p] = Planned(f)]
    /\ UNCHANGED <<config, prewarming, disk, inner>>

\* Mutated Prewarm: a file that needs no copy is prewarmed too.
PrewarmAnyway(p, f) ==
    /\ ~Has(<<f, Planned(f)>>)
    /\ Begin(p, f, "prewarm", "claim")

Prewarm(p, f) ==
    /\ Planned(f) # "raw"
    /\ ~Has(<<f, Planned(f)>>)
    /\ Begin(p, f, "prewarm", "claim")

\* Mutated Claim: a file that is being prewarmed is claimed once more.
ClaimAgain(p) ==
    /\ Goto(p, "claim", "ensure")
    /\ prewarming' = prewarming \cup {file[p]}
    /\ UNCHANGED <<config, disk, mine>>

Claim(p) ==
    /\ Goto(p, "claim", "ensure")
    /\ file[p] \notin prewarming
    /\ prewarming' = prewarming \cup {file[p]}
    /\ UNCHANGED <<config, disk, mine>>

ClaimTaken(p) ==
    /\ pc[p] = "claim"
    /\ file[p] \in prewarming
    /\ EndTask(p)
    /\ UNCHANGED <<config, prewarming, disk>>

\* play_track has swapped the pipe before it spawns the task.
Play(p, f) == Begin(p, f, "play", IF Planned(f) = "raw" THEN "open" ELSE "wait")

WaitOver(p) ==
    /\ Goto(p, "wait", "ensure")
    /\ file[p] \notin prewarming
    /\ UNCHANGED <<config, prewarming, disk, mine>>

\* Sixty polls have found the file still being prewarmed.
WaitTimeout(p) ==
    /\ Goto(p, "wait", "ensure")
    /\ file[p] \in prewarming
    /\ UNCHANGED <<config, prewarming, disk, mine>>

-----------------------------------------------------------------------------
(* ensure_stream_temp.                                                     *)

\* The task is done with its copy: play_track opens it, or the cached file if it has none, and
\* prewarm leaves its set.
CopyDone(p) ==
    /\ pc' = [pc EXCEPT ![p] = IF job[p] = "play" THEN "open" ELSE "release"]
    /\ inner' = [inner EXCEPT ![p] = FALSE]
    /\ variant' = [variant EXCEPT ![p] = "raw"]

EnsureFound(p) ==
    /\ pc[p] = "ensure"
    /\ Has(Target(p))
    /\ CopyDone(p)
    /\ UNCHANGED <<config, prewarming, disk, job, file>>

EnsureMissing(p) ==
    /\ Goto(p, "ensure", IF variant[p] = "lowDataNormalized" THEN "inner" ELSE "start")
    /\ ~Has(Target(p))
    /\ UNCHANGED <<config, prewarming, disk, mine>>

\* The nested call for the normalized copy.
InnerFound(p) ==
    /\ Goto(p, "inner", "start")
    /\ Has(Normalized(p))
    /\ inner' = [inner EXCEPT ![p] = TRUE]
    /\ UNCHANGED <<config, prewarming, disk, job, file, variant>>

\* copy or ffmpeg opens its input and creates the scratch file for n.
Create(p, n) ==
    /\ scratch' = scratch \cup {Scratch(p, n)}
    /\ written' = written \ {Scratch(p, n)}
    /\ UNCHANGED <<copies, torn>>

InnerStart(p) ==
    /\ Goto(p, "inner", "innerBuild")
    /\ ~Has(Normalized(p))
    /\ Create(p, Normalized(p))
    /\ UNCHANGED <<config, prewarming, mine>>

\* The cached file may be evicted or deleted at any time.  If it is gone, no scratch file
\* is made, and the nested call returns None.
InnerNoFile(p) ==
    /\ Goto(p, "inner", "start")
    /\ ~Has(Normalized(p))
    /\ UNCHANGED <<config, prewarming, disk, mine>>

Start(p) ==
    /\ Goto(p, "start", "build")
    /\ inner[p] => Has(Normalized(p))
    /\ Create(p, Target(p))
    /\ UNCHANGED <<config, prewarming, mine>>

\* Nobody else writes to the scratch file of p.
WritesAlone(p, n) ==
    \A q \in Task \ {p} :
        ~ \/ pc[q] = "build" /\ Scratch(q, Target(q)) = Scratch(p, n)
          \/ pc[q] = "innerBuild" /\ Scratch(q, Normalized(q)) = Scratch(p, n)

\* The encoder of p has ended well.
Complete(p, n) ==
    written' = IF Scratch(p, n) \in scratch /\ WritesAlone(p, n)
               THEN written \cup {Scratch(p, n)} ELSE written

InnerBuilt(p) ==
    /\ Goto(p, "innerBuild", "innerRename")
    /\ Complete(p, Normalized(p))
    /\ UNCHANGED <<config, prewarming, copies, torn, scratch, mine>>

\* Frees the normalized copy, whose only reader is this encode.
Freed(p) == IF inner[p] THEN Without(Normalized(p)) ELSE copies

Built(p) ==
    /\ Goto(p, "build", "rename")
    /\ Complete(p, Target(p))
    /\ copies' = Freed(p)
    /\ UNCHANGED <<config, prewarming, torn, scratch, mine>>

\* The scratch file of p becomes the newest copy, in place of an older one.
Rename(p, n) ==
    /\ Scratch(p, n) \in scratch
    /\ copies' = Append(Without(n), n)
    /\ torn' = IF Scratch(p, n) \in written THEN torn \ {n} ELSE torn \cup {n}
    /\ scratch' = scratch \ {Scratch(p, n)}
    /\ written' = written \ {Scratch(p, n)}

InnerRenamed(p) ==
    /\ Goto(p, "innerRename", "innerPrune")
    /\ Rename(p, Normalized(p))
    /\ UNCHANGED <<config, prewarming, mine>>

Renamed(p) ==
    /\ Goto(p, "rename", "prune")
    /\ Rename(p, Target(p))
    /\ UNCHANGED <<config, prewarming, mine>>

NewestOf(s) == SubSeq(s, Len(s) - MaxCopies + 1, Len(s))

\* prune_norm_cache.
Prune ==
    /\ copies' = IF Len(copies) > MaxCopies THEN NewestOf(copies) ELSE copies
    /\ UNCHANGED <<torn, scratch, written>>

InnerPruned(p) ==
    /\ Goto(p, "innerPrune", "start")
    /\ Prune
    /\ inner' = [inner EXCEPT ![p] = TRUE]
    /\ UNCHANGED <<config, prewarming, job, file, variant>>

Pruned(p) ==
    /\ pc[p] = "prune"
    /\ Prune
    /\ CopyDone(p)
    /\ UNCHANGED <<config, prewarming, job, file>>

\* The copy, rsgain or the rename failed: the nested call returns None.
InnerFails(p) ==
    /\ pc[p] \in {"innerBuild", "innerRename"}
    /\ pc[p] = "innerRename" => Scratch(p, Normalized(p)) \notin scratch
    /\ pc' = [pc EXCEPT ![p] = "start"]
    /\ scratch' = scratch \ {Scratch(p, Normalized(p))}
    /\ written' = written \ {Scratch(p, Normalized(p))}
    /\ UNCHANGED <<config, prewarming, copies, torn, mine>>

\* Mutated Fails: what a failed encoder has written is left behind.
FailsDirty(p) ==
    /\ \/ pc[p] = "start" /\ (inner[p] => ~Has(Normalized(p)))
       \/ pc[p] = "build"
       \/ pc[p] = "rename" /\ Scratch(p, Target(p)) \notin scratch
    /\ CopyDone(p)
    /\ copies' = IF pc[p] = "rename" THEN copies ELSE Freed(p)
    /\ UNCHANGED <<config, prewarming, torn, scratch, written, job, file>>

\* The input is gone (the cached file, or a normalized copy that another task has freed or
\* pruned), the encoder or the rename failed: play_track falls back on the
\* cached file itself.
Fails(p) ==
    /\ \/ pc[p] = "start" /\ (inner[p] => ~Has(Normalized(p)))
       \/ pc[p] = "build"
       \/ pc[p] = "rename" /\ Scratch(p, Target(p)) \notin scratch
    /\ CopyDone(p)
    /\ copies' = IF pc[p] = "rename" THEN copies ELSE Freed(p)
    /\ scratch' = scratch \ {Scratch(p, Target(p))}
    /\ written' = written \ {Scratch(p, Target(p))}
    /\ UNCHANGED <<config, prewarming, torn, job, file>>

-----------------------------------------------------------------------------
(* The end of both tasks.                                                  *)

Release(p) ==
    /\ pc[p] = "release"
    /\ prewarming' = prewarming \ {file[p]}
    /\ EndTask(p)
    /\ UNCHANGED <<config, disk>>

\* play_track opens what is left of its source.  An open stream keeps reading a file that
\* is removed later (module Pipe); if there is nothing to open, the pipe stays silent.
Open(p) ==
    /\ pc[p] = "open"
    /\ EndTask(p)
    /\ UNCHANGED <<config, prewarming, disk>>

-----------------------------------------------------------------------------
(* Around the tasks.                                                       *)

\* The admin saves other settings.
Settings(n, l) ==
    /\ normalize' = n /\ lowData' = l
    /\ UNCHANGED <<prewarming, disk, pc, mine>>

\* StreamManager::shutdown removes the directory while tasks still run.
Shutdown ==
    /\ copies' = <<>> /\ torn' = {} /\ scratch' = {} /\ written' = {}
    /\ UNCHANGED <<config, prewarming, pc, mine>>

\* The process ends, at any point, and StreamManager::new starts from an empty directory.
CopiesRestart ==
    /\ copies' = <<>> /\ torn' = {} /\ scratch' = {} /\ written' = {}
    /\ prewarming' = {}
    /\ pc' = [p \in Task |-> "idle"]
    /\ job' = [p \in Task |-> "play"]
    /\ file' = [p \in Task |-> NoFile]
    /\ variant' = [p \in Task |-> "raw"]
    /\ inner' = [p \in Task |-> FALSE]
    /\ UNCHANGED config

Encoder(p) ==
    InnerBuilt(p) \/ InnerFails(p) \/ Built(p) \/ Fails(p)

Advance(p) ==
    \/ Claim(p) \/ ClaimTaken(p)
    \/ WaitOver(p) \/ WaitTimeout(p)
    \/ EnsureFound(p) \/ EnsureMissing(p)
    \/ InnerFound(p) \/ InnerStart(p) \/ InnerNoFile(p)
    \/ InnerRenamed(p) \/ InnerPruned(p)
    \/ Start(p) \/ Renamed(p) \/ Pruned(p)
    \/ Release(p) \/ Open(p)

CopiesNext ==
    \/ \E p \in Task :
          \/ \E f \in File : Prewarm(p, f) \/ Play(p, f)
          \/ Advance(p) \/ Encoder(p)
    \/ \E n, l \in BOOLEAN : Settings(n, l)
    \/ Shutdown \/ CopiesRestart

CopiesSpec == CopiesInit /\ [][CopiesNext]_streamCopies

-----------------------------------------------------------------------------
(* Properties.                                                             *)

\* Every variable has its type, a copy is listed once and only finished builds are marked.
CopiesTypeOK ==
    /\ normalize \in BOOLEAN /\ lowData \in BOOLEAN
    /\ prewarming \subseteq File
    /\ copies \in Seq(Name) /\ IsInjective(copies) /\ torn \subseteq Name
    /\ scratch \subseteq Task \X Name /\ written \subseteq scratch
    /\ pc \in [Task -> {"idle", "claim", "wait", "ensure", "inner", "innerBuild",
                        "innerRename", "innerPrune", "start", "build", "rename", "prune",
                        "release", "open"}]
    /\ job \in [Task -> {"prewarm", "play"}]
    /\ file \in [Task -> File \cup {NoFile}]
    /\ variant \in [Task -> Variant \cup {"raw"}]
    /\ inner \in [Task -> BOOLEAN]

\* A task that holds an entry of prewarming.
Prewarms(p) == job[p] = "prewarm" /\ pc[p] \notin {"idle", "claim"}

\* A copy that can be opened is complete, although a play that has waited its 6 seconds
\* builds the file that a prewarm is building too (prepare_stream_temp).
WholeCopies == torn = {}

\* The directory holds MaxCopies copies, one more for each task that has yet to prune, and
\* a scratch file for a build under way only (ensure_stream_temp, prune_norm_cache).
MemoryBounded ==
    /\ Len(copies) <= MaxCopies + Cardinality({p \in Task : pc[p] \in {"prune", "innerPrune"}})
    /\ \A s \in scratch :
          \/ pc[s[1]] \in {"build", "rename"} /\ s[2] = Target(s[1])
          \/ pc[s[1]] \in {"innerBuild", "innerRename"} /\ s[2] = Normalized(s[1])

\* The entries of prewarming are the files of the prewarms that run, one each: none is
\* built twice by prewarms, and none is left marked and so never prewarmed again.
PrewarmingMatches ==
    /\ prewarming = {file[p] : p \in {q \in Task : Prewarms(q)}}
    /\ \A p, q \in Task : Prewarms(p) /\ Prewarms(q) /\ file[p] = file[q] => p = q
=============================================================================
