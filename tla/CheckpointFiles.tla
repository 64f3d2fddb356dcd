-------------------------- MODULE CheckpointFiles --------------------------
(***************************************************************************)
(* The checkpoint directory of one node, for the checkpointers whose files *)
(* are partial and kept by key (a hash map PingPong; Hobbes with a filter):*)
(* captures write the keys put since the capture before, a background      *)
(* thread collapses all files but the newest into one, and a process that  *)
(* comes up after a crash puts back what the files hold, the oldest first. *)
(*                                                                         *)
(* What a capture takes as its snapshot is the matter of Checkpointing;    *)
(* here it is the database at one moment.  A file is the records written   *)
(* to it: they go through a stdio buffer, and a crash keeps any part.      *)
(***************************************************************************)
EXTENDS Integers, FiniteSets, Functions

CONSTANTS
  Keys,
  MaxPuts,      \* bound on the puts; the n-th puts value n
  MaxFiles,     \* bound on the captures
  MaxCrashes

ASSUME FilesAssumption ==
  IsFiniteSet(Keys) /\ {MaxPuts, MaxFiles, MaxCrashes} \subseteq Nat

VARIABLES
  up,        \* the process runs
  data,      \* the database
  puts, clock, crashes,
  dirty_keys, \* the keys put since the last capture took its snapshot
  files,     \* the directory: <<number, kind>> -> [records, open, torn]
  capture,   \* the file a capture writes, <<>> if none does
  collapse,  \* of the collapser: the file it writes, those left to merge,
             \* ... and whether it has removed one
  snapshot,  \* history: what the last capture took
  saved,     \* history: what the last finished capture took, or recovery found
  cut        \* history: a collapse has ended early with files removed, and
             \* ... no whole checkpoint has been finished since

counters == <<puts, clock, crashes>>
history == <<snapshot, saved, cut>>
fileVars == <<up, data, counters, dirty_keys, files, capture, collapse, history>>

Nothing == [k \in {} |-> 0]
Idle == [to |-> <<>>, left |-> {}, removed |-> FALSE]

FilesInit ==
  /\ up = TRUE /\ data = Nothing
  /\ puts = 0 /\ clock = 0 /\ crashes = 0
  /\ dirty_keys = {} /\ files = Nothing
  /\ capture = <<>> /\ collapse = Idle
  /\ snapshot = Nothing /\ saved = Nothing
  /\ cut = FALSE

With(f, x, y) == [z \in DOMAIN f \cup {x} |-> IF z = x THEN y ELSE f[z]]

(* The decorator marks the key.                                            *)
Put(k) ==
  /\ up /\ puts < MaxPuts
  /\ puts' = puts + 1
  /\ data' = With(data, k, puts + 1)
  /\ dirty_keys' = dirty_keys \cup {k}
  /\ UNCHANGED <<up, clock, crashes, files, capture, collapse, history>>

(* Variant of Number that counts the files there are.                      *)
Number_ByCount == Cardinality(DOMAIN files) + 1

(* The seconds of time(NULL): two captures are never in the same one.      *)
Number == clock + 1

New(records) == [records |-> records, open |-> TRUE, torn |-> FALSE]

(* BackgroundedCheckpointer opens its file and goes through the dirty keys;*)
(* the records are not on disk before the file is closed.                  *)
OpenCapture ==
  /\ up /\ capture = <<>> /\ clock < MaxFiles
  /\ clock' = clock + 1
  /\ capture' = <<Number, "chkpnt">>
  /\ files' = With(files, capture', New(Restrict(data, dirty_keys)))
  /\ snapshot' = data
  /\ dirty_keys' = {}
  /\ UNCHANGED <<up, data, puts, crashes, collapse, saved, cut>>

CloseCapture ==
  /\ up /\ capture # <<>>
  /\ files' = [files EXCEPT ![capture].open = FALSE]
  /\ capture' = <<>>
  /\ saved' = snapshot
  /\ cut' = (cut /\ DOMAIN files[capture].records # DOMAIN snapshot)
  /\ UNCHANGED <<up, data, counters, dirty_keys, collapse, snapshot>>

-----------------------------------------------------------------------------
(* GetFileListing sorts by the number in the name; names with the same     *)
(* number come in any order.                                               *)
Newest(S) == {f \in S : \A g \in S : g[1] <= f[1]}

(* Variant of Merging that takes the newest file as well.                  *)
Merging_All == {DOMAIN files}

(* files.erase(files.end()) takes the last entry off, in libstdc++.        *)
Merging == {DOMAIN files \ {f} : f \in Newest(DOMAIN files)}

StartCollapse ==
  /\ up /\ collapse = Idle
  /\ \E merging \in Merging :
       /\ Cardinality(merging) >= 2
       /\ \E f \in Newest(merging) :
            LET to == <<f[1], "collapsed">> IN
            /\ to \notin DOMAIN files
            /\ files' = With(files, to, New(Nothing))
            /\ collapse' = [to |-> to, left |-> merging, removed |-> FALSE]
  /\ UNCHANGED <<up, data, counters, dirty_keys, capture, history>>

(* Variant of Merged without the key chain.                                *)
Merged_Over(old, new) == [k \in DOMAIN old \cup DOMAIN new |-> IF k \in DOMAIN new THEN new[k] ELSE old[k]]

(* The first record seen of a key counts: the files come newest first.     *)
Merged(old, new) == [k \in DOMAIN old \cup DOMAIN new |-> IF k \in DOMAIN old THEN old[k] ELSE new[k]]

(* What can be read of a file: if somebody still has it open for writing,  *)
(* any part.                                                               *)
Readable(file) ==
  IF file.open THEN {Restrict(file.records, K) : K \in SUBSET DOMAIN file.records}
  ELSE {file.records}

(* One round of the collapser's loop.  A torn record makes it return: the  *)
(* file stays, and what it has written so far is never closed.  (Reading a *)
(* file and removing it are one step: with the records in both files at    *)
(* once, a crash in between keeps no less than one before.)                *)
MergeFile ==
  /\ up /\ collapse # Idle
  /\ \E f \in Newest(collapse.left) : \E read \in Readable(files[f]) :
       LET to == collapse.to
           left == collapse.left \ {f}
           total == [files[to] EXCEPT !.records = Merged(@, read)]
       IN
       IF files[f].torn
       THEN /\ files' = [files EXCEPT ![to] = total]
            /\ collapse' = Idle
            /\ cut' = (cut \/ collapse.removed)
       ELSE /\ files' = [Restrict(files, DOMAIN files \ {f}) EXCEPT
                           ![to] = [total EXCEPT !.open = (left # {})]]
            /\ collapse' = IF left = {} THEN Idle
                           ELSE [collapse EXCEPT !.left = left, !.removed = TRUE]
            /\ cut' = cut
  /\ UNCHANGED <<up, data, counters, dirty_keys, capture, snapshot, saved>>

-----------------------------------------------------------------------------
(* The process ends.  Of an open file there is what was flushed: some of   *)
(* the records, perhaps a part of one more.                                *)
Crash ==
  /\ up /\ crashes < MaxCrashes
  /\ crashes' = crashes + 1
  /\ up' = FALSE
  /\ \E lost \in [{f \in DOMAIN files : files[f].open} -> SUBSET Keys],
        torn \in [{f \in DOMAIN files : files[f].open} -> BOOLEAN] :
       /\ \A f \in DOMAIN lost :
            lost[f] \subseteq DOMAIN files[f].records /\ (torn[f] => lost[f] # {})
       /\ files' = [f \in DOMAIN files |->
            IF f \in DOMAIN lost
            THEN [records |-> Restrict(files[f].records, DOMAIN files[f].records \ lost[f]),
                  open |-> FALSE, torn |-> torn[f]]
            ELSE files[f]]
  /\ data' = Nothing /\ dirty_keys' = {}
  /\ capture' = <<>> /\ collapse' = Idle
  /\ cut' = (cut \/ collapse.removed)
  /\ UNCHANGED <<puts, clock, snapshot, saved>>

(* The files that decide about k when all are put back, oldest first.      *)
Holders(S, k) == {f \in S : k \in DOMAIN files[f].records}
Latest(S, k) == Newest(Holders(S, k))
Held(S) == {k \in Keys : Holders(S, k) # {}}

(* RecoverFromCheckpoint on each file, into the empty storage of a new     *)
(* process: it puts what it can read, and every put marks the key.         *)
Recover ==
  /\ ~ up /\ up' = TRUE
  /\ \E from \in [Held(DOMAIN files) -> DOMAIN files] :
       /\ \A k \in DOMAIN from : from[k] \in Latest(DOMAIN files, k)
       /\ data' = [k \in DOMAIN from |-> files[from[k]].records[k]]
  /\ dirty_keys' = DOMAIN data'
  /\ snapshot' = data' /\ saved' = data'
  /\ UNCHANGED <<counters, files, capture, collapse, cut>>

FilesNext ==
  \/ \E k \in Keys : Put(k)
  \/ OpenCapture \/ CloseCapture
  \/ StartCollapse \/ MergeFile
  \/ Crash \/ Recover

FilesSpec == FilesInit /\ [][FilesNext]_fileVars

-----------------------------------------------------------------------------
(* Collapsing changes nothing (checkpointer.h:136-143): at every moment,   *)
(* with a capture and a collapse under way, the files other than the one   *)
(* being captured, read oldest first, give exactly what the last finished  *)
(* capture saw, or the last recovery restored.  Not while cut is true.     *)
FilesHoldSaved ==
  up /\ ~ cut =>
    LET S == DOMAIN files \ {capture} IN
    /\ Held(S) = DOMAIN saved
    /\ \A k \in Held(S) : \A f \in Latest(S, k) : files[f].records[k] = saved[k]

At(d, k) == IF k \in DOMAIN d THEN {d[k]} ELSE {}

(* checkpointer.h:59-65: after a crash every key comes back as the last    *)
(* finished checkpoint has it, or as the one that the crash interrupted    *)
(* would have had it; none that was saved is missing.  Not while cut is    *)
(* true: then a file was removed before the one that replaces it was       *)
(* closed.                                                                 *)
RecoversRecent ==
  ~ up /\ ~ cut =>
    LET S == DOMAIN files IN
    /\ DOMAIN saved \subseteq Held(S)
    /\ \A k \in Held(S) : \A f \in Latest(S, k) :
         files[f].records[k] \in At(saved, k) \cup At(snapshot, k)

(* checkpointer.h:59-60: "Given a filename and the version being restored, *)
(* any checkpointer must be able to issue historical puts and restore the  *)
(* database."  As RecoversRecent, but whatever the collapser was doing.    *)
RecoversAlways ==
  ~ up =>
    LET S == DOMAIN files IN
    /\ DOMAIN saved \subseteq Held(S)
    /\ \A k \in Held(S) : \A f \in Latest(S, k) :
         files[f].records[k] \in At(saved, k) \cup At(snapshot, k)
=============================================================================
