--------------------------- MODULE SnapshotStore ---------------------------
(* The directories checkpoints ("ckpt") and portable snapshots ("snap") are  *)
(* saved to (main.cpp save_checkpoint, save_snapshot; cosim_host.cpp         *)
(* cosim_host_save_portable, cosim_host_load_portable).  A save writes its   *)
(* files into a .tmp directory, renames it, points latest.txt at it and      *)
(* removes what is beyond the number to keep.  A snapshot's RAM is a         *)
(* keyframe shared with its neighbours and the pages that differ from it.    *)
(* Each file operation is a step, so that the process may die between any    *)
(* two of them; .tmp directories are never looked at and are left out.       *)
EXTENDS Integers, Sequences, FiniteSets, FiniteSetsExt

CONSTANTS
  Pages,        \* pages of guest RAM
  Keep,         \* --snapshot-keep, --checkpoint-keep; 0 keeps everything
  KeyUses,      \* snapshots that share one keyframe
  Failing       \* <<kind, step>>: the writes that may fail

ASSUME KeepAssumption == Keep \in Nat /\ KeyUses \in Nat \ {0} /\ IsFiniteSet(Pages)

Kinds == {"ckpt", "snap"}

VARIABLES
  dirs,         \* dirs[k]: cycle -> what the directory of that name holds
  latest,       \* latest[k]: the cycle latest.txt names, None: no file, or an empty one
  keys,         \* keyframes: cycle in the name -> [whole, ram]
  key,          \* g_key_ram, g_key_name, g_key_uses of this process
  job,          \* the save under way
  spoiled       \* spoiled[k]: a save came at or before the cycle of an entry, or a
                \* failed write was not noticed

store == <<dirs, latest, keys, key, job, spoiled>>

None == -1
NoKey == [name |-> None, ram |-> <<>>, uses |-> 0]
NoJob == [at |-> "none"]

StoreInit ==
  /\ dirs = [k \in Kinds |-> <<>>] /\ latest = [k \in Kinds |-> None] /\ keys = <<>>
  /\ key = NoKey /\ job = NoJob /\ spoiled = [k \in Kinds |-> FALSE]

With(f, n, v) == [m \in DOMAIN f \union {n} |-> IF m = n THEN v ELSE f[m]]
Without(f, n) == [m \in DOMAIN f \ {n} |-> f[m]]

--------------------------------------------------------------------------
(* Saving.                                                                *)

\* The files of a save, in the order they are written.
Steps(k) ==
  IF k = "ckpt" THEN <<"model", "cosim", "harness", "meta", "replace", "rename", "truncate", "latest", "prune">>
  ELSE <<"state", "cosim", "key", "keyed", "diff", "harness", "meta", "replace", "rename", "truncate",
         "latest", "prune", "sweep">>
\* A failed write of these ends the save; the others are not looked at.
Checked(k) == IF k = "ckpt" THEN {"cosim"} ELSE {"state", "cosim", "key", "diff", "harness"}

After(k, at) ==
  LET s == Steps(k) IN
  LET i == CHOOSE j \in 1..Len(s) : s[j] = at IN
  IF i = Len(s) THEN "none" ELSE s[i + 1]
Step(j) == IF After(j.kind, j.at) = "none" THEN NoJob ELSE [j EXCEPT !.at = After(j.kind, j.at)]

\* machine: what is to come back at a restore.
Begin(k, now, mem, machine) ==
  /\ job' = [at |-> Head(Steps(k)), kind |-> k, cycle |-> now, ram |-> mem, err |-> "none",
             entry |-> [whole |-> TRUE, meta |-> TRUE, cut |-> FALSE, key |-> None, diff |-> <<>>,
                       machine |-> machine]]
  /\ spoiled' = [spoiled EXCEPT ![k] = @ \/ \E n \in DOMAIN dirs[k] : n >= now]
  /\ UNCHANGED <<dirs, latest, keys, key>>

\* The pages that differ from the keyframe in memory.
Diff(mem) == IF key.ram = <<>> THEN {} ELSE {p \in Pages : mem[p] # key.ram[p]}
\* A new keyframe: none yet, more than a quarter of the pages differ, or used up.
NewKey(mem) == \/ key.ram = <<>> \/ Cardinality(Diff(mem)) > Cardinality(Pages) \div 4
               \/ key.uses >= KeyUses

\* A file of the temporary directory.  cosim_host_save_portable reports a
\* failure (err = "late") only after its last file.  A failed write that is
\* not checked leaves a directory that is not whole.  Restoring it ends the
\* program, but for a harness.bin cut off behind its first words: read_pod
\* does not look at the stream, and what is missing is never noticed (cut).
WriteFile ==
  /\ job.at \in {"model", "state", "cosim", "harness", "meta"}
  /\ \/ job' = Step(job) /\ UNCHANGED spoiled
     \/ /\ <<job.kind, job.at>> \in Failing /\ job.at \in Checked(job.kind)
        /\ job' = IF <<job.kind, job.at>> = <<"snap", "cosim">> THEN Step([job EXCEPT !.err = "late"])
                  ELSE [job EXCEPT !.at = "failed"]
        /\ UNCHANGED spoiled
     \/ /\ <<job.kind, job.at>> \in Failing /\ job.at \notin Checked(job.kind)
        /\ job' = Step([job EXCEPT !.err = "unseen", !.entry.meta = job.at # "meta",
                                   !.entry.whole = job.at = "meta",
                                   !.entry.cut = job.at = "harness"])
        /\ spoiled' = [spoiled EXCEPT ![job.kind] = TRUE]
  /\ UNCHANGED <<dirs, latest, keys, key>>

\* cosim_host_save_portable's keyframe, if it needs one: the file is there
\* before it is whole.  Name and copy in memory are taken also when the
\* write failed.
WriteKey ==
  /\ job.at = "key"
  /\ IF NewKey(job.ram) THEN keys' = With(keys, job.cycle, [whole |-> FALSE, ram |-> job.ram])
     ELSE UNCHANGED keys
  /\ job' = IF NewKey(job.ram) THEN Step(job) ELSE [job EXCEPT !.at = "diff"]
  /\ UNCHANGED <<dirs, latest, key, spoiled>>

KeyWritten ==
  /\ job.at = "keyed"
  /\ key' = [name |-> job.cycle, ram |-> job.ram, uses |-> 0]
  /\ \/ /\ keys' = [keys EXCEPT ![job.cycle].whole = TRUE] /\ job' = Step(job)
     \/ /\ <<"snap", "key">> \in Failing
        /\ job' = Step([job EXCEPT !.err = "late"]) /\ UNCHANGED keys
  /\ UNCHANGED <<dirs, latest, spoiled>>

WriteDiff ==
  /\ job.at = "diff"
  /\ key' = [key EXCEPT !.uses = @ + 1]
  /\ \/ job' = [job EXCEPT !.at = IF job.err = "late" THEN "failed" ELSE "harness",
                           !.entry.key = key.name,
                           !.entry.diff = [p \in Diff(job.ram) |-> job.ram[p]]]
     \/ <<"snap", "diff">> \in Failing /\ job' = [job EXCEPT !.at = "failed"]
  /\ UNCHANGED <<dirs, latest, keys, spoiled>>

\* fs::remove_all is not atomic: a directory may be left with a part of its
\* files, among them perhaps meta.txt.
Damage(k, n) == \E m \in {FALSE, dirs[k][n].meta} :
                  dirs' = [dirs EXCEPT ![k][n].whole = FALSE, ![k][n].meta = m]
Remove(k, n) == IF dirs[k][n].whole THEN Damage(k, n) ELSE dirs' = [dirs EXCEPT ![k] = Without(@, n)]

Replace ==
  /\ job.at = "replace"
  /\ IF job.cycle \in DOMAIN dirs[job.kind] THEN Remove(job.kind, job.cycle) /\ UNCHANGED job
     ELSE job' = Step(job) /\ UNCHANGED dirs
  /\ UNCHANGED <<latest, keys, key, spoiled>>

Rename ==
  /\ job.at = "rename"
  /\ dirs' = [dirs EXCEPT ![job.kind] = With(@, job.cycle, job.entry)]
  /\ job' = Step(job)
  /\ UNCHANGED <<latest, keys, key, spoiled>>

\* latest.txt is opened, which empties it, and then written.
WriteLatest ==
  /\ job.at \in {"truncate", "latest"}
  /\ latest' = [latest EXCEPT ![job.kind] = IF job.at = "truncate" THEN None ELSE job.cycle]
  /\ job' = Step(job)
  /\ UNCHANGED <<dirs, keys, key, spoiled>>

\* The oldest names go, whole or not.
Prune ==
  LET d == DOMAIN dirs[job.kind] IN
  /\ job.at = "prune"
  /\ IF Keep # 0 /\ Cardinality(d) > Keep THEN Remove(job.kind, Min(d)) /\ UNCHANGED job
     ELSE job' = Step(job) /\ UNCHANGED dirs
  /\ UNCHANGED <<latest, keys, key, spoiled>>

UsedByNewest == {dirs["snap"][n].key : n \in {m \in DOMAIN dirs["snap"] : m = Max(DOMAIN dirs["snap"])}}

\* The keyframes named by the meta.txt of a remaining snapshot.
Used == {dirs["snap"][n].key : n \in {m \in DOMAIN dirs["snap"] : dirs["snap"][m].meta}}

Sweep ==
  /\ job.at = "sweep"
  /\ \/ \E n \in DOMAIN keys \ Used : keys' = Without(keys, n) /\ UNCHANGED job
     \/ DOMAIN keys \subseteq Used /\ job' = NoJob /\ UNCHANGED keys
  /\ UNCHANGED <<dirs, latest, key, spoiled>>

SaveStep == WriteFile \/ WriteKey \/ KeyWritten \/ WriteDiff \/ Replace \/ Rename \/ WriteLatest \/ Prune \/ Sweep

--------------------------------------------------------------------------
(* Restoring.                                                             *)

\* cosim_host_load_portable: the keyframe, then the pages over it.
Rebuilt(e) == [p \in Pages |-> IF p \in DOMAIN e.diff THEN e.diff[p] ELSE keys[e.key].ram[p]]

\* A checkpoint holds its RAM in the model; a snapshot needs its keyframe.
CanRestore(k, n) ==
  /\ n \in DOMAIN dirs[k] /\ dirs[k][n].whole
  /\ k = "snap" => dirs[k][n].key \in DOMAIN keys /\ keys[dirs[k][n].key].whole
RestoredRam(k, n) == IF k = "snap" THEN Rebuilt(dirs[k][n]) ELSE dirs[k][n].machine.ram

\* A process begins with nothing in memory.
NewProcess == key' = NoKey /\ job' = NoJob /\ UNCHANGED <<dirs, latest, keys, spoiled>>

--------------------------------------------------------------------------
\* As long as every save is of a later cycle than the entries it finds and no
\* write failed without notice: each directory that is whole restores to
\* exactly the RAM of its save, whatever keyframes were removed since; and
\* wherever the process dies, latest.txt is empty or names such a directory,
\* and there is one if there ever was.
SnapshotRestores ==
  \A k \in Kinds : ~spoiled[k] =>
    LET whole == {n \in DOMAIN dirs[k] : dirs[k][n].whole} IN
    /\ \A n \in whole : CanRestore(k, n) /\ RestoredRam(k, n) = dirs[k][n].machine.ram
    /\ latest[k] # None => latest[k] \in whole
    /\ DOMAIN dirs[k] # {} => whole # {}
=============================================================================
