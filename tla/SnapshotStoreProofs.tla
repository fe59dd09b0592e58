------------------------ MODULE SnapshotStoreProofs ------------------------
(***************************************************************************)
(* Proofs about SnapshotStore: what every file operation of a save keeps,  *)
(* for any pages, any number of directories to keep and any set of writes  *)
(* that may fail.                                                          *)
(***************************************************************************)
EXTENDS SnapshotStore, FiniteSetTheorems, TLAPS

\* Every non-empty set of cycle numbers has a smallest one, which Min finds.
LEMMA MinOfNat ==
  ASSUME NEW S, S \subseteq Nat, S # {}
  PROVE  Min(S) \in S /\ \A n \in S : Min(S) <= n
<1>1. \E x \in S : \A y \in S : ~(<<y, x>> \in OpToRel(<, Nat))
  BY NatLessThanWellFounded, WFMin, Zenon
<1>2. PICK x \in S : \A y \in S : ~(<<y, x>> \in OpToRel(<, Nat))
  BY <1>1
<1>3. \A y \in S : <<y, x>> \in Nat \X Nat /\ <<y, x>>[1] = y /\ <<y, x>>[2] = x
  BY <1>2
<1>4. \A y \in S : ~(y < x)
  BY <1>2, <1>3 DEF OpToRel
<1>5. \A y \in S : x <= y
  BY <1>4
<1> QED
  BY <1>5 DEF Min

\* With more than one directory the oldest is not the newest.
LEMMA OldestNotNewest ==
  ASSUME NEW S, S \subseteq Nat, NEW c \in S, \A n \in S : n <= c, Cardinality(S) > 1
  PROVE  Min(S) \in S /\ Min(S) # c
<1>1. S # {c}
  BY FS_Singleton
<1>2. PICK n \in S : n # c
  BY <1>1
<1>3. n \in Nat /\ c \in Nat /\ n < c
  BY <1>2
<1>4. Min(S) \in S /\ Min(S) <= n
  BY MinOfNat
<1> QED
  BY <1>3, <1>4
-----------------------------------------------------------------------------
(* The inductive invariant.  `dead' says that the process will save no more:  *)
(* it is allowed to have a keyframe in memory whose file is broken.           *)

Contents == {0, 1}
Rams == [Pages -> Contents]
Machines == [ram : Rams, cycle : Nat, clocks : Int, strayed : BOOLEAN, early : BOOLEAN]
Diffs == UNION {[D -> Contents] : D \in SUBSET Pages}
Entries == [whole : BOOLEAN, meta : BOOLEAN, cut : BOOLEAN, key : Int, diff : Diffs, machine : Machines]

\* Where a save is before its directory is renamed, and after.
CkptBefore == {"model", "cosim", "harness", "meta", "replace", "rename", "failed"}
SnapBefore == {"state", "cosim", "key", "keyed", "diff", "harness", "meta", "replace", "rename", "failed"}
CkptAfter == {"truncate", "latest", "prune"}
SnapAfter == {"truncate", "latest", "prune", "sweep"}
Underway(k) == job.at # "none" /\ job.kind = k

DirsType ==
  /\ DOMAIN dirs = Kinds
  /\ \A k \in Kinds : IsFiniteSet(DOMAIN dirs[k]) /\ DOMAIN dirs[k] \subseteq Nat
                      /\ \A n \in DOMAIN dirs[k] : dirs[k][n] \in Entries
LatestType == latest \in [Kinds -> Int]
KeysType == DOMAIN keys \subseteq Nat /\ \A n \in DOMAIN keys : keys[n] \in [whole : BOOLEAN, ram : Rams]
KeyType == key \in [name : Int, ram : Rams \union {<<>>}, uses : Nat] /\ (key.name = None => key.ram = <<>>)
SpoiledType == spoiled \in [Kinds -> BOOLEAN]
Places == CkptBefore \union CkptAfter \union SnapBefore \union SnapAfter
PlacesOf(k) == IF k = "ckpt" THEN CkptBefore \union CkptAfter ELSE SnapBefore \union SnapAfter
Jobs == [at : Places, kind : Kinds, cycle : Nat, ram : Rams, err : {"none", "late", "unseen"}, entry : Entries]
JobType ==
  \/ job = NoJob
  \/ /\ job \in Jobs /\ job.at \in PlacesOf(job.kind)
     /\ job.entry.machine.ram = job.ram /\ key.name <= job.cycle

StoreTypes == DirsType /\ LatestType /\ KeysType /\ KeyType /\ SpoiledType /\ JobType

\* The keyframe an entry names is there, and gives the RAM of its save.
Restores(e) == /\ e.key \in DOMAIN keys /\ keys[e.key].whole
               /\ Rebuilt(e) = e.machine.ram

\* A directory that is whole can be restored; meta.txt protects its keyframe.
WholeRestores ==
  ~spoiled["snap"] => \A n \in DOMAIN dirs["snap"] :
    /\ dirs["snap"][n].key <= n
    /\ dirs["snap"][n].whole => dirs["snap"][n].meta /\ Restores(dirs["snap"][n])

\* The keyframe in memory is the one on disk.
KeySound(dead) ==
  (~spoiled["snap"] /\ key.name # None /\ ~dead /\ ~(Underway("snap") /\ (job.at = "keyed" \/ job.err = "late"))) =>
    /\ key.name \in DOMAIN keys /\ keys[key.name].whole /\ keys[key.name].ram = key.ram

\* Which directory latest.txt names, and that one is always left.
LatestWhole(k) ==
  ~spoiled[k] =>
    /\ latest[k] # None => latest[k] \in DOMAIN dirs[k] /\ dirs[k][latest[k]].whole
    /\ DOMAIN dirs[k] # {} => \E n \in DOMAIN dirs[k] : dirs[k][n].whole

\* A save that is under way: its directory is the newest.
JobOrder(k) ==
  Underway(k) /\ ~spoiled[k] =>
    /\ job.entry.whole /\ job.entry.meta
    /\ job.at \notin SnapAfter => \A n \in DOMAIN dirs[k] : n < job.cycle
    /\ job.at \in SnapAfter => /\ job.cycle \in DOMAIN dirs[k] /\ dirs[k][job.cycle].whole
                               /\ \A n \in DOMAIN dirs[k] : n <= job.cycle
    /\ job.at = "prune" => latest[k] = job.cycle

\* The snapshot's directory, in the making and made, uses the keyframe in memory.
JobKey ==
  Underway("snap") /\ ~spoiled["snap"] =>
    /\ job.err # "unseen"
    /\ job.at \in {"harness", "meta", "replace", "rename"} \union SnapAfter => job.err # "late"
    /\ job.at = "keyed" => job.cycle \in DOMAIN keys /\ keys[job.cycle].ram = job.ram
    /\ job.at \in {"diff", "harness", "meta", "replace", "rename"} \union SnapAfter => key.name # None
    /\ job.at \in {"harness", "meta", "replace", "rename"} => job.entry.key = key.name /\ Restores(job.entry)
    /\ job.at \in SnapAfter => dirs["snap"][job.cycle].key = key.name

StoreSafe(dead) ==
  /\ WholeRestores /\ KeySound(dead) /\ JobKey
  /\ \A k \in Kinds : LatestWhole(k) /\ JobOrder(k)

-----------------------------------------------------------------------------
\* The order of the files of a checkpoint.
LEMMA AfterCkpt ==
  /\ After("ckpt", "model") = "cosim" /\ After("ckpt", "cosim") = "harness" /\ After("ckpt", "harness") = "meta"
  /\ After("ckpt", "meta") = "replace" /\ After("ckpt", "replace") = "rename"
  /\ After("ckpt", "rename") = "truncate" /\ After("ckpt", "truncate") = "latest"
  /\ After("ckpt", "latest") = "prune" /\ After("ckpt", "prune") = "none"
BY DEF After, Steps

\* And for a snapshot.
LEMMA AfterSnap ==
  /\ After("snap", "state") = "cosim" /\ After("snap", "cosim") = "key" /\ After("snap", "key") = "keyed"
  /\ After("snap", "keyed") = "diff" /\ After("snap", "harness") = "meta"
  /\ After("snap", "meta") = "replace" /\ After("snap", "replace") = "rename"
  /\ After("snap", "rename") = "truncate" /\ After("snap", "truncate") = "latest"
  /\ After("snap", "latest") = "prune" /\ After("snap", "prune") = "sweep"
BY DEF After, Steps

\* The next file of a save changes nothing but the place.
LEMMA StepFields ==
  ASSUME NEW j \in Jobs, NEW a \in Places, After(j.kind, j.at) = a
  PROVE  /\ Step(j) \in Jobs /\ Step(j).at = a /\ Step(j).kind = j.kind /\ Step(j).cycle = j.cycle
         /\ Step(j).ram = j.ram /\ Step(j).err = j.err /\ Step(j).entry = j.entry
<1>1. a # "none"
  BY DEF Places, CkptBefore, CkptAfter, SnapBefore, SnapAfter
<1>2. Step(j) = [j EXCEPT !.at = a]
  BY <1>1 DEF Step
<1> QED
  BY <1>2 DEF Jobs

\* The next place after one of the files that are not about RAM.
LEMMA AfterFile ==
  ASSUME NEW k \in Kinds, NEW at \in {"model", "state", "cosim", "harness", "meta"}, at \in PlacesOf(k)
  PROVE  /\ k = "ckpt" => After(k, at) \in {"cosim", "harness", "meta", "replace"}
         /\ k = "snap" => \/ at \in {"state", "cosim"} /\ After(k, at) \in {"cosim", "key"}
                          \/ at \in {"harness", "meta"} /\ After(k, at) \in {"meta", "replace"}
         /\ After(k, at) \in Places /\ After(k, at) \in PlacesOf(k)
         /\ k = "snap" /\ at = "cosim" => After(k, at) = "key"
BY AfterCkpt, AfterSnap
   DEF Kinds, PlacesOf, Places, CkptBefore, CkptAfter, SnapBefore, SnapAfter

\* A file of the temporary directory is written, or not.
LEMMA WriteFileInv ==
  ASSUME StoreTypes, StoreSafe(FALSE), WriteFile
  PROVE  StoreTypes' /\ StoreSafe(FALSE)'
<1> DEFINE Same == /\ job'.kind = job.kind /\ job'.cycle = job.cycle /\ job'.ram = job.ram
                   /\ job'.entry.key = job.entry.key /\ job'.entry.diff = job.entry.diff
                   /\ job'.entry.machine = job.entry.machine
           Written == job'.at = After(job.kind, job.at) /\ job'.err = job.err /\ job'.entry = job.entry
           LateFailure == /\ job.kind = "snap" /\ job'.at = "key" /\ job.at = "cosim" /\ job'.err = "late"
                          /\ job'.entry = job.entry
           Failure == job'.at = "failed" /\ job'.err = job.err /\ job'.entry = job.entry
           Unseen == job'.at = After(job.kind, job.at) /\ spoiled' = [spoiled EXCEPT ![job.kind] = TRUE]
<1>0. /\ job.at \in {"model", "state", "cosim", "harness", "meta"} /\ job \in Jobs /\ job.at \in PlacesOf(job.kind)
      /\ UNCHANGED <<dirs, latest, keys, key>> /\ job.kind \in Kinds
  BY DEF WriteFile, StoreTypes, JobType, NoJob, Jobs
<1>a. /\ job.kind = "ckpt" => After(job.kind, job.at) \in {"cosim", "harness", "meta", "replace"}
      /\ job.kind = "snap" => \/ job.at \in {"state", "cosim"} /\ After(job.kind, job.at) \in {"cosim", "key"}
                              \/ job.at \in {"harness", "meta"} /\ After(job.kind, job.at) \in {"meta", "replace"}
      /\ After(job.kind, job.at) \in Places /\ After(job.kind, job.at) \in PlacesOf(job.kind)
      /\ job.kind = "snap" /\ job.at = "cosim" => After(job.kind, job.at) = "key"
  BY <1>0, AfterFile
<1>b. /\ job' \in Jobs /\ Same
      /\ (UNCHANGED spoiled /\ (Written \/ LateFailure \/ Failure)) \/ Unseen
  <2>1. CASE job' = Step(job) /\ UNCHANGED spoiled
    BY <1>0, <1>a, <2>1, StepFields
  <2>2. CASE job' = Step([job EXCEPT !.err = "late"]) /\ job.kind = "snap" /\ job.at = "cosim" /\ UNCHANGED spoiled
    <3>1. [job EXCEPT !.err = "late"] \in Jobs
      BY <1>0 DEF Jobs
    <3>2. /\ [job EXCEPT !.err = "late"].kind = job.kind /\ [job EXCEPT !.err = "late"].at = job.at
          /\ [job EXCEPT !.err = "late"].cycle = job.cycle /\ [job EXCEPT !.err = "late"].ram = job.ram
          /\ [job EXCEPT !.err = "late"].entry = job.entry /\ [job EXCEPT !.err = "late"].err = "late"
      BY <1>0 DEF Jobs
    <3> QED
      BY <1>a, <2>2, <3>1, <3>2, StepFields
  <2>3. CASE job' = [job EXCEPT !.at = "failed"] /\ UNCHANGED spoiled
    BY <1>0, <2>3 DEF Jobs, Places, CkptBefore
  <2>4. CASE /\ job' = Step([job EXCEPT !.err = "unseen", !.entry.meta = job.at # "meta",
                                         !.entry.whole = job.at = "meta",
                                         !.entry.cut = job.at = "harness"])
             /\ spoiled' = [spoiled EXCEPT ![job.kind] = TRUE]
    <3> DEFINE j == [job EXCEPT !.err = "unseen", !.entry.meta = job.at # "meta",
                                !.entry.whole = job.at = "meta", !.entry.cut = job.at = "harness"]
    <3>1. /\ j \in Jobs /\ j.kind = job.kind /\ j.at = job.at /\ j.cycle = job.cycle /\ j.ram = job.ram
          /\ j.entry.key = job.entry.key /\ j.entry.diff = job.entry.diff /\ j.entry.machine = job.entry.machine
      BY <1>0 DEF Jobs, Entries
    <3> HIDE DEF j
    <3>2. job' = Step(j)
      BY <2>4 DEF j
    <3> QED
      BY <1>a, <2>4, <3>1, <3>2, StepFields
  <2> QED
    BY <2>1, <2>2, <2>3, <2>4 DEF WriteFile
<1>1. StoreTypes'
  <2>1. DirsType' /\ LatestType' /\ KeysType' /\ KeyType'
    BY <1>0 DEF StoreTypes, DirsType, LatestType, KeysType, KeyType
  <2>2. SpoiledType'
    BY <1>b DEF StoreTypes, SpoiledType
  <2>3. JobType'
    <3>1. job'.at \in PlacesOf(job'.kind)
      BY <1>0, <1>a, <1>b DEF PlacesOf, CkptBefore, SnapBefore
    <3>2. job'.entry.machine.ram = job'.ram /\ key'.name <= job'.cycle
      BY <1>0, <1>b DEF StoreTypes, JobType, NoJob
    <3> QED
      BY <1>b, <3>1, <3>2 DEF JobType
  <2> QED
    BY <2>1, <2>2, <2>3 DEF StoreTypes
<1>c. \A k \in Kinds : /\ spoiled[k] \in BOOLEAN /\ (spoiled[k] => spoiled'[k])
                       /\ Unseen /\ k = job.kind => spoiled'[k]
                       /\ k # job.kind => spoiled'[k] = spoiled[k]
                       /\ ~Unseen => spoiled'[k] = spoiled[k]
  BY <1>0, <1>b DEF StoreTypes, SpoiledType
<1>2. WholeRestores'
  BY <1>0, <1>c DEF StoreSafe, WholeRestores, Restores, Rebuilt, Kinds
<1>3. KeySound(FALSE)'
  BY <1>0, <1>a, <1>b, <1>c DEF StoreSafe, KeySound, Underway, Kinds
<1>4. JobKey'
  BY <1>0, <1>a, <1>b, <1>c DEF StoreSafe, JobKey, Underway, Kinds, SnapAfter, Restores, Rebuilt
<1>5. ASSUME NEW k \in Kinds
      PROVE  LatestWhole(k)' /\ JobOrder(k)'
  <2>1. LatestWhole(k)'
    BY <1>0, <1>c DEF StoreSafe, LatestWhole
  <2>2. JobOrder(k)'
    BY <1>0, <1>a, <1>b, <1>c DEF StoreSafe, JobOrder, Underway, Kinds, SnapAfter
  <2> QED
    BY <2>1, <2>2
<1> QED
  BY <1>1, <1>2, <1>3, <1>4, <1>5 DEF StoreSafe

\* Names of keyframes in use are older than a save that is under way.
LEMMA KeysOlder ==
  ASSUME StoreTypes, StoreSafe(FALSE), Underway("snap"), job.at \notin SnapAfter, ~spoiled["snap"],
         NEW n \in DOMAIN dirs["snap"]
  PROVE  dirs["snap"][n].key # job.cycle
<1>1. n \in Nat /\ job.cycle \in Nat /\ dirs["snap"][n].key \in Int
  BY DEF StoreTypes, DirsType, JobType, Jobs, NoJob, Kinds, Underway, Entries
<1>2. n < job.cycle /\ dirs["snap"][n].key <= n
  BY DEF StoreSafe, JobOrder, WholeRestores, Kinds
<1> QED
  BY <1>1, <1>2

\* The keyframe's file is opened, if a new one is due.
LEMMA WriteKeyInv ==
  ASSUME StoreTypes, StoreSafe(FALSE), WriteKey
  PROVE  StoreTypes' /\ StoreSafe(FALSE)'
<1> DEFINE Opened == /\ NewKey(job.ram) /\ job'.at = "keyed"
                     /\ keys' = With(keys, job.cycle, [whole |-> FALSE, ram |-> job.ram])
           Kept == ~NewKey(job.ram) /\ job'.at = "diff" /\ keys' = keys
<1>0. /\ job.at = "key" /\ job \in Jobs /\ job.kind = "snap" /\ Underway("snap")
      /\ UNCHANGED <<dirs, latest, key, spoiled>>
  BY DEF WriteKey, StoreTypes, JobType, NoJob, Jobs, Kinds, PlacesOf, CkptBefore, CkptAfter, Underway
<1>b. /\ job' \in Jobs /\ (Opened \/ Kept)
      /\ job'.kind = job.kind /\ job'.cycle = job.cycle /\ job'.ram = job.ram /\ job'.entry = job.entry
      /\ job'.err = job.err
  <2>1. CASE NewKey(job.ram)
    <3>1. "keyed" \in Places
      BY DEF Places, SnapBefore
    <3> QED
      BY <1>0, <2>1, <3>1, StepFields, AfterSnap DEF WriteKey
  <2>2. CASE ~NewKey(job.ram)
    BY <1>0, <2>2 DEF WriteKey, Jobs, Places, SnapBefore
  <2> QED
    BY <2>1, <2>2
<1>c. /\ DOMAIN keys \subseteq DOMAIN keys' /\ \A n \in DOMAIN keys : n # job.cycle => keys'[n] = keys[n]
      /\ Opened => job.cycle \in DOMAIN keys' /\ keys'[job.cycle] = [whole |-> FALSE, ram |-> job.ram]
      /\ Kept => keys' = keys
  BY <1>b DEF With
<1>1. StoreTypes'
  <2>1. DirsType' /\ LatestType' /\ KeyType' /\ SpoiledType'
    BY <1>0 DEF StoreTypes, DirsType, LatestType, KeyType, SpoiledType
  <2>2. KeysType'
    <3>1. job.cycle \in Nat /\ [whole |-> FALSE, ram |-> job.ram] \in [whole : BOOLEAN, ram : Rams]
      BY <1>0 DEF Jobs
    <3> QED
      BY <1>b, <3>1 DEF StoreTypes, KeysType, With
  <2>3. JobType'
    <3>1. job'.at \in PlacesOf(job'.kind)
      BY <1>0, <1>b DEF PlacesOf, SnapBefore
    <3>2. job'.entry.machine.ram = job'.ram /\ key'.name <= job'.cycle
      BY <1>0, <1>b DEF StoreTypes, JobType, NoJob
    <3> QED
      BY <1>b, <3>1, <3>2 DEF JobType
  <2> QED
    BY <2>1, <2>2, <2>3 DEF StoreTypes
<1>2. WholeRestores'
  <2>1. ASSUME ~spoiled["snap"], NEW n \in DOMAIN dirs["snap"], dirs["snap"][n].whole
        PROVE  Restores(dirs["snap"][n])'
    <3>1. Restores(dirs["snap"][n]) /\ dirs["snap"][n].key # job.cycle
      BY <1>0, <2>1, KeysOlder DEF StoreSafe, WholeRestores, SnapAfter
    <3> QED
      BY <1>0, <1>c, <3>1 DEF Restores, Rebuilt
  <2> QED
    BY <1>0, <2>1 DEF StoreSafe, WholeRestores
<1>3. KeySound(FALSE)'
  BY <1>0, <1>b, <1>c DEF StoreSafe, KeySound, Underway
<1>4. JobKey'
  <2>1. ~NewKey(job.ram) => key.name # None
    BY DEF NewKey, StoreTypes, KeyType
  <2>2. Opened => keys'[job.cycle].ram = job.ram
    BY <1>c
  <2> QED
    BY <1>0, <1>b, <1>c, <2>1, <2>2 DEF StoreSafe, JobKey, Underway, SnapAfter
<1>5. ASSUME NEW k \in Kinds
      PROVE  LatestWhole(k)' /\ JobOrder(k)'
  <2>1. LatestWhole(k)'
    BY <1>0 DEF StoreSafe, LatestWhole
  <2>2. JobOrder(k)'
    BY <1>0, <1>b DEF StoreSafe, JobOrder, Underway, Kinds, SnapAfter
  <2> QED
    BY <2>1, <2>2
<1> QED
  BY <1>1, <1>2, <1>3, <1>4, <1>5 DEF StoreSafe

\* The keyframe is complete, or its write has failed: memory takes it in both cases.
LEMMA KeyWrittenInv ==
  ASSUME StoreTypes, StoreSafe(FALSE), KeyWritten
  PROVE  StoreTypes' /\ StoreSafe(FALSE)'
<1> DEFINE Whole == keys' = [keys EXCEPT ![job.cycle].whole = TRUE] /\ job'.err = job.err
           Broken == keys' = keys /\ job'.err = "late"
<1>0. /\ job.at = "keyed" /\ job \in Jobs /\ job.kind = "snap" /\ Underway("snap")
      /\ UNCHANGED <<dirs, latest, spoiled>> /\ key' = [name |-> job.cycle, ram |-> job.ram, uses |-> 0]
  BY DEF KeyWritten, StoreTypes, JobType, NoJob, Jobs, Kinds, PlacesOf, CkptBefore, CkptAfter, Underway
<1>b. /\ job' \in Jobs /\ job'.at = "diff" /\ (Whole \/ Broken)
      /\ job'.kind = job.kind /\ job'.cycle = job.cycle /\ job'.ram = job.ram /\ job'.entry = job.entry
  <2>0. "diff" \in Places
    BY DEF Places, SnapBefore
  <2>1. CASE keys' = [keys EXCEPT ![job.cycle].whole = TRUE] /\ job' = Step(job)
    BY <1>0, <2>0, <2>1, StepFields, AfterSnap
  <2>2. CASE keys' = keys /\ job' = Step([job EXCEPT !.err = "late"])
    <3> DEFINE j == [job EXCEPT !.err = "late"]
    <3>1. /\ j \in Jobs /\ j.kind = job.kind /\ j.at = job.at /\ j.cycle = job.cycle /\ j.ram = job.ram
          /\ j.entry = job.entry /\ j.err = "late"
      BY <1>0 DEF Jobs
    <3> HIDE DEF j
    <3>2. job' = Step(j)
      BY <2>2 DEF j
    <3> QED
      BY <1>0, <2>0, <2>2, <3>1, <3>2, StepFields, AfterSnap
  <2> QED
    BY <2>1, <2>2 DEF KeyWritten
<1>c. /\ DOMAIN keys' = DOMAIN keys /\ \A n \in DOMAIN keys : n # job.cycle => keys'[n] = keys[n]
      /\ job.cycle \in DOMAIN keys => /\ keys'[job.cycle].ram = keys[job.cycle].ram
                                      /\ Whole => keys'[job.cycle].whole
  BY <1>b DEF StoreTypes, KeysType
<1>1. StoreTypes'
  <2>1. DirsType' /\ LatestType' /\ SpoiledType'
    BY <1>0 DEF StoreTypes, DirsType, LatestType, SpoiledType
  <2>2. KeysType'
    BY <1>b DEF StoreTypes, KeysType
  <2>3. KeyType'
    BY <1>0 DEF KeyType, Jobs, None
  <2>4. JobType'
    <3>1. job'.at \in PlacesOf(job'.kind)
      BY <1>0, <1>b DEF PlacesOf, SnapBefore
    <3>2. job'.entry.machine.ram = job'.ram
      BY <1>0, <1>b DEF StoreTypes, JobType, NoJob
    <3>3. key'.name <= job'.cycle
      BY <1>0, <1>b DEF Jobs
    <3> QED
      BY <1>b, <3>1, <3>2, <3>3 DEF JobType
  <2> QED
    BY <2>1, <2>2, <2>3, <2>4 DEF StoreTypes
<1>2. WholeRestores'
  <2>1. ASSUME ~spoiled["snap"], NEW n \in DOMAIN dirs["snap"], dirs["snap"][n].whole
        PROVE  Restores(dirs["snap"][n])'
    <3>1. Restores(dirs["snap"][n]) /\ dirs["snap"][n].key # job.cycle
      BY <1>0, <2>1, KeysOlder DEF StoreSafe, WholeRestores, SnapAfter
    <3> QED
      BY <1>0, <1>c, <3>1 DEF Restores, Rebuilt
  <2> QED
    BY <1>0, <2>1 DEF StoreSafe, WholeRestores
<1>3. KeySound(FALSE)'
  <2>1. ~spoiled["snap"] => job.cycle \in DOMAIN keys /\ keys[job.cycle].ram = job.ram
    BY <1>0 DEF StoreSafe, JobKey
  <2> QED
    BY <1>0, <1>b, <1>c, <2>1 DEF KeySound, Underway
<1>4. JobKey'
  <2>1. key'.name # None
    BY <1>0 DEF Jobs, None
  <2> QED
    BY <1>0, <1>b, <2>1 DEF StoreSafe, JobKey, Underway, SnapAfter
<1>5. ASSUME NEW k \in Kinds
      PROVE  LatestWhole(k)' /\ JobOrder(k)'
  <2>1. LatestWhole(k)'
    BY <1>0 DEF StoreSafe, LatestWhole
  <2>2. JobOrder(k)'
    BY <1>0, <1>b DEF StoreSafe, JobOrder, Underway, Kinds, SnapAfter
  <2> QED
    BY <2>1, <2>2
<1> QED
  BY <1>1, <1>2, <1>3, <1>4, <1>5 DEF StoreSafe

\* The keyframe in memory and the pages that differ give the RAM that is saved.
LEMMA DiffRebuilds ==
  ASSUME StoreTypes, NEW mem \in Rams, key.name \in DOMAIN keys, keys[key.name].ram = key.ram,
         NEW e, e.key = key.name, e.diff = [p \in Diff(mem) |-> mem[p]], e.machine.ram = mem
  PROVE  Rebuilt(e) = mem
<1>1. key.ram \in Rams
  BY DEF StoreTypes, KeysType
<1>2. ASSUME NEW p \in Pages
      PROVE  (IF p \in DOMAIN e.diff THEN e.diff[p] ELSE keys[e.key].ram[p]) = mem[p]
  <2>1. CASE key.ram = <<>>
    <3>1. DOMAIN key.ram = Pages
      BY <1>1 DEF Rams
    <3>2. DOMAIN <<>> = {}
      OBVIOUS
    <3> QED
      BY <2>1, <3>1, <3>2
  <2>2. CASE key.ram # <<>>
    <3>1. DOMAIN e.diff = {q \in Pages : mem[q] # key.ram[q]}
      BY <2>2 DEF Diff
    <3>2. p \in DOMAIN e.diff => e.diff[p] = mem[p]
      OBVIOUS
    <3> QED
      BY <3>1, <3>2
  <2> QED
    BY <2>1, <2>2
<1>3. mem = [p \in Pages |-> mem[p]]
  BY DEF Rams
<1> QED
  BY <1>2, <1>3 DEF Rebuilt

\* The pages that differ from the keyframe are written.
LEMMA WriteDiffInv ==
  ASSUME StoreTypes, StoreSafe(FALSE), WriteDiff
  PROVE  StoreTypes' /\ StoreSafe(FALSE)'
<1> DEFINE d == [p \in Diff(job.ram) |-> job.ram[p]]
           Written == /\ job'.at = (IF job.err = "late" THEN "failed" ELSE "harness")
                      /\ job'.entry.key = key.name /\ job'.entry.diff = d
           Failure == job'.at = "failed" /\ job'.entry = job.entry
<1>0. /\ job.at = "diff" /\ job \in Jobs /\ job.kind = "snap" /\ Underway("snap")
      /\ UNCHANGED <<dirs, latest, keys, spoiled>> /\ key' = [key EXCEPT !.uses = @ + 1]
  BY DEF WriteDiff, StoreTypes, JobType, NoJob, Jobs, Kinds, PlacesOf, CkptBefore, CkptAfter, Underway
<1>a. key'.name = key.name /\ key'.ram = key.ram /\ key.name \in Int
  BY <1>0 DEF StoreTypes, KeyType
<1>d. d \in Diffs
  <2>1. Diff(job.ram) \subseteq Pages
    BY DEF Diff
  <2>2. d \in [Diff(job.ram) -> Contents]
    BY <1>0, <2>1 DEF Jobs, Rams
  <2> QED
    BY <2>1, <2>2 DEF Diffs
<1>b. /\ job' \in Jobs /\ (Written \/ Failure) /\ job'.err = job.err
      /\ job'.kind = job.kind /\ job'.cycle = job.cycle /\ job'.ram = job.ram
      /\ job'.entry.whole = job.entry.whole /\ job'.entry.meta = job.entry.meta
      /\ job'.entry.machine = job.entry.machine
  <2>1. CASE job' = [job EXCEPT !.at = IF job.err = "late" THEN "failed" ELSE "harness",
                                !.entry.key = key.name, !.entry.diff = d]
    <3> HIDE DEF d
    <3> QED
      BY <1>0, <1>a, <1>d, <2>1 DEF Jobs, Entries, Places, SnapBefore
  <2>2. CASE job' = [job EXCEPT !.at = "failed"]
    BY <1>0, <2>2 DEF Jobs, Places, SnapBefore
  <2> QED
    BY <2>1, <2>2 DEF WriteDiff
<1>1. StoreTypes'
  <2>1. DirsType' /\ LatestType' /\ KeysType' /\ SpoiledType'
    BY <1>0 DEF StoreTypes, DirsType, LatestType, KeysType, SpoiledType
  <2>2. KeyType'
    BY <1>0 DEF StoreTypes, KeyType
  <2>3. JobType'
    <3>1. job'.at \in PlacesOf(job'.kind)
      BY <1>0, <1>b DEF PlacesOf, SnapBefore
    <3>2. job'.entry.machine.ram = job'.ram /\ key'.name <= job'.cycle
      BY <1>0, <1>a, <1>b DEF StoreTypes, JobType, NoJob
    <3> QED
      BY <1>b, <3>1, <3>2 DEF JobType
  <2> QED
    BY <2>1, <2>2, <2>3 DEF StoreTypes
<1>2. WholeRestores'
  BY <1>0 DEF StoreSafe, WholeRestores, Restores, Rebuilt
<1>3. KeySound(FALSE)'
  BY <1>0, <1>a, <1>b DEF StoreSafe, KeySound, Underway
<1>4. JobKey'
  <2>1. ASSUME ~spoiled["snap"], Written, job.err # "late"
        PROVE  job'.entry.key = key.name /\ Restores(job.entry)'
    <3>1. key.name \in DOMAIN keys /\ keys[key.name].whole /\ keys[key.name].ram = key.ram
      BY <1>0, <2>1 DEF StoreSafe, KeySound, JobKey, Underway
    <3>2. job.ram \in Rams /\ job'.entry.machine.ram = job.ram
      BY <1>0, <1>b DEF Jobs, StoreTypes, JobType, NoJob
    <3>3. [p \in Pages |-> IF p \in DOMAIN job'.entry.diff THEN job'.entry.diff[p]
                           ELSE keys[job'.entry.key].ram[p]] = job.ram
      BY <2>1, <3>1, <3>2, DiffRebuilds DEF Rebuilt
    <3> QED
      BY <1>0, <2>1, <3>1, <3>2, <3>3 DEF Restores, Rebuilt
  <2> QED
    BY <1>0, <1>a, <1>b, <2>1 DEF StoreSafe, JobKey, Underway, SnapAfter
<1>5. ASSUME NEW k \in Kinds
      PROVE  LatestWhole(k)' /\ JobOrder(k)'
  <2>1. LatestWhole(k)'
    BY <1>0 DEF StoreSafe, LatestWhole
  <2>2. JobOrder(k)'
    BY <1>0, <1>b DEF StoreSafe, JobOrder, Underway, Kinds, SnapAfter
  <2> QED
    BY <2>1, <2>2
<1> QED
  BY <1>1, <1>2, <1>3, <1>4, <1>5 DEF StoreSafe

\* remove_all() of one directory touches no other.
Removed(k, n) ==
  /\ DOMAIN dirs' = Kinds /\ \A j \in Kinds : j # k => dirs'[j] = dirs[j]
  /\ DOMAIN dirs'[k] \subseteq DOMAIN dirs[k] /\ DOMAIN dirs[k] \ {n} \subseteq DOMAIN dirs'[k]
  /\ \A m \in DOMAIN dirs'[k] : /\ dirs'[k][m] \in Entries /\ dirs'[k][m].key = dirs[k][m].key
                                /\ dirs'[k][m].machine = dirs[k][m].machine
                                /\ m # n => dirs'[k][m] = dirs[k][m]
                                /\ m = n => ~dirs'[k][m].whole

\* A removal is such a step, whether the directory was whole or not.
LEMMA RemoveRemoves ==
  ASSUME DirsType, NEW k \in Kinds, NEW n \in DOMAIN dirs[k], Remove(k, n)
  PROVE  Removed(k, n)
<1>1. CASE dirs[k][n].whole
  <2>1. PICK m \in {FALSE, dirs[k][n].meta} : dirs' = [dirs EXCEPT ![k][n].whole = FALSE, ![k][n].meta = m]
    BY <1>1 DEF Remove, Damage
  <2>2. dirs[k][n] \in Entries /\ m \in BOOLEAN
    BY DEF DirsType, Entries
  <2>3. DOMAIN dirs' = Kinds /\ \A j \in Kinds : j # k => dirs'[j] = dirs[j]
    BY <2>1 DEF DirsType
  <2>4. /\ DOMAIN dirs'[k] = DOMAIN dirs[k]
        /\ \A j \in DOMAIN dirs[k] : j # n => dirs'[k][j] = dirs[k][j]
        /\ dirs'[k][n] = [dirs[k][n] EXCEPT !.whole = FALSE, !.meta = m]
    BY <2>1 DEF DirsType
  <2>5. /\ dirs'[k][n] \in Entries /\ dirs'[k][n].key = dirs[k][n].key
        /\ dirs'[k][n].machine = dirs[k][n].machine /\ ~dirs'[k][n].whole
    BY <2>2, <2>4 DEF Entries
  <2> QED
    BY <2>3, <2>4, <2>5 DEF Removed, DirsType
<1>2. CASE ~dirs[k][n].whole
  <2>1. dirs' = [dirs EXCEPT ![k] = Without(@, n)]
    BY <1>2 DEF Remove
  <2>2. DOMAIN dirs' = Kinds /\ \A j \in Kinds : j # k => dirs'[j] = dirs[j]
    BY <2>1 DEF DirsType
  <2>3. dirs'[k] = Without(dirs[k], n)
    BY <2>1 DEF DirsType
  <2>4. DOMAIN dirs'[k] = DOMAIN dirs[k] \ {n} /\ \A m \in DOMAIN dirs'[k] : dirs'[k][m] = dirs[k][m]
    BY <2>3 DEF Without
  <2> QED
    BY <2>2, <2>4 DEF Removed, DirsType
<1> QED
  BY <1>1, <1>2

\* Removing an older directory than the one whose save is under way, or no directory at all.
LEMMA RemovedInv ==
  ASSUME StoreTypes, StoreSafe(FALSE), job \in Jobs, NEW n \in DOMAIN dirs[job.kind], Removed(job.kind, n),
         UNCHANGED <<latest, keys, key, spoiled, job>>,
         ~spoiled[job.kind] => job.at = "prune" /\ n # job.cycle
  PROVE  StoreTypes' /\ StoreSafe(FALSE)'
<1>0. job.kind \in Kinds /\ job.at # "none" /\ spoiled \in [Kinds -> BOOLEAN]
  BY DEF Jobs, Places, CkptBefore, CkptAfter, SnapBefore, SnapAfter, StoreTypes, SpoiledType
<1>a. ~spoiled[job.kind] => /\ job.cycle \in DOMAIN dirs[job.kind] /\ dirs[job.kind][job.cycle].whole
                            /\ \A m \in DOMAIN dirs[job.kind] : m <= job.cycle
                            /\ latest[job.kind] = job.cycle
  BY <1>0 DEF StoreSafe, JobOrder, Underway, SnapAfter
<1>b. ~spoiled[job.kind] => /\ job.cycle \in DOMAIN dirs'[job.kind]
                            /\ dirs'[job.kind][job.cycle] = dirs[job.kind][job.cycle]
  BY <1>a DEF Removed
<1>1. StoreTypes'
  <2>1. LatestType' /\ KeysType' /\ KeyType' /\ SpoiledType' /\ JobType'
    BY DEF StoreTypes, LatestType, KeysType, KeyType, SpoiledType, JobType
  <2>2. \A k \in Kinds : DOMAIN dirs'[k] \subseteq DOMAIN dirs[k] /\ IsFiniteSet(DOMAIN dirs[k])
    BY <1>0 DEF StoreTypes, DirsType, Removed
  <2>3. \A k \in Kinds : IsFiniteSet(DOMAIN dirs'[k])
    BY <2>2, FS_Subset
  <2>4. DirsType'
    BY <1>0, <2>3 DEF StoreTypes, DirsType, Removed
  <2> QED
    BY <2>1, <2>4 DEF StoreTypes
<1>2. WholeRestores'
  <2>1. CASE job.kind = "snap"
    <3>1. ASSUME ~spoiled["snap"], NEW m \in DOMAIN dirs'["snap"]
          PROVE  /\ dirs'["snap"][m].key <= m
                 /\ dirs'["snap"][m].whole => dirs'["snap"][m].meta /\ Restores(dirs["snap"][m])'
      <4>1. /\ m \in DOMAIN dirs["snap"] /\ dirs'["snap"][m].key = dirs["snap"][m].key
            /\ dirs'["snap"][m].whole => dirs'["snap"][m] = dirs["snap"][m]
        BY <2>1, <3>1 DEF Removed
      <4>2. dirs["snap"][m].key <= m /\ (dirs["snap"][m].whole => dirs["snap"][m].meta /\ Restores(dirs["snap"][m]))
        BY <3>1, <4>1 DEF StoreSafe, WholeRestores
      <4> QED
        BY <4>1, <4>2 DEF Restores, Rebuilt
    <3> QED
      BY <3>1 DEF WholeRestores
  <2>2. CASE job.kind # "snap"
    <3>1. dirs'["snap"] = dirs["snap"]
      BY <2>2 DEF Removed, Kinds
    <3> QED
      BY <3>1 DEF StoreSafe, WholeRestores, Restores, Rebuilt
  <2> QED
    BY <2>1, <2>2
<1>3. KeySound(FALSE)'
  BY DEF StoreSafe, KeySound, Underway
<1>4. JobKey'
  BY <1>b DEF StoreSafe, JobKey, Underway, Restores, Rebuilt, SnapAfter
<1>5. ASSUME NEW k \in Kinds
      PROVE  LatestWhole(k)' /\ JobOrder(k)'
  <2>1. CASE k = job.kind
    <3>1. LatestWhole(k)'
      BY <1>a, <1>b, <2>1 DEF LatestWhole
    <3>2. JobOrder(k)'
      BY <1>a, <1>b, <2>1 DEF StoreSafe, JobOrder, Underway, Removed, SnapAfter
    <3> QED
      BY <3>1, <3>2
  <2>2. CASE k # job.kind
    <3>1. dirs'[k] = dirs[k]
      BY <2>2 DEF Removed
    <3> QED
      BY <2>2, <3>1 DEF StoreSafe, LatestWhole, JobOrder, Underway
  <2> QED
    BY <2>1, <2>2
<1> QED
  BY <1>1, <1>2, <1>3, <1>4, <1>5 DEF StoreSafe

\* A save goes on to its next place, where nothing that is on disk or in memory changes.
LEMMA PlaceInv ==
  ASSUME StoreTypes, StoreSafe(FALSE), job \in Jobs, NEW a \in Places, job' = Step(job),
         After(job.kind, job.at) = a, a \in PlacesOf(job.kind),
         UNCHANGED <<dirs, latest, keys, key, spoiled>>,
         \/ job.at = "replace" /\ a = "rename"
         \/ job.at = "prune" /\ a = "sweep"
  PROVE  StoreTypes' /\ StoreSafe(FALSE)'
<1>1. /\ job' \in Jobs /\ job'.at = a /\ job'.kind = job.kind /\ job'.cycle = job.cycle
      /\ job'.ram = job.ram /\ job'.err = job.err /\ job'.entry = job.entry
  BY StepFields
<1>2. StoreTypes'
  <2>1. DirsType' /\ LatestType' /\ KeysType' /\ KeyType' /\ SpoiledType'
    BY DEF StoreTypes, DirsType, LatestType, KeysType, KeyType, SpoiledType
  <2>2. JobType'
    BY <1>1 DEF StoreTypes, JobType, NoJob
  <2> QED
    BY <2>1, <2>2 DEF StoreTypes
<1>3. WholeRestores'
  BY DEF StoreSafe, WholeRestores, Restores, Rebuilt
<1>4. KeySound(FALSE)' /\ JobKey'
  BY <1>1 DEF StoreSafe, KeySound, JobKey, Underway, SnapAfter, Restores, Rebuilt
<1>5. ASSUME NEW k \in Kinds
      PROVE  LatestWhole(k)' /\ JobOrder(k)'
  <2>1. LatestWhole(k)'
    BY DEF StoreSafe, LatestWhole
  <2>2. JobOrder(k)'
    BY <1>1 DEF StoreSafe, JobOrder, Underway, SnapAfter
  <2> QED
    BY <2>1, <2>2
<1> QED
  BY <1>2, <1>3, <1>4, <1>5 DEF StoreSafe

\* The save ends.
LEMMA EndInv ==
  ASSUME StoreTypes, StoreSafe(FALSE), job' = NoJob, UNCHANGED <<dirs, latest, keys, key, spoiled>>,
         ~Underway("snap") \/ job.at = "sweep"
  PROVE  StoreTypes' /\ StoreSafe(FALSE)'
<1>1. StoreTypes'
  BY DEF StoreTypes, DirsType, LatestType, KeysType, KeyType, SpoiledType, JobType
<1>2. WholeRestores'
  BY DEF StoreSafe, WholeRestores, Restores, Rebuilt
<1>3. KeySound(FALSE)' /\ JobKey'
  BY DEF StoreSafe, KeySound, JobKey, Underway, NoJob, SnapAfter
<1>4. ASSUME NEW k \in Kinds
      PROVE  LatestWhole(k)' /\ JobOrder(k)'
  BY DEF StoreSafe, LatestWhole, JobOrder, Underway, NoJob
<1> QED
  BY <1>1, <1>2, <1>3, <1>4 DEF StoreSafe

\* An entry of the same cycle is removed; without a spoilt order there is none.
LEMMA ReplaceInv ==
  ASSUME StoreTypes, StoreSafe(FALSE), Replace
  PROVE  StoreTypes' /\ StoreSafe(FALSE)'
<1>0. job.at = "replace" /\ job \in Jobs /\ job.kind \in Kinds /\ job.at # "none" /\ job.at \notin SnapAfter
  BY DEF Replace, StoreTypes, JobType, NoJob, Jobs, SnapAfter
<1>1. CASE job.cycle \in DOMAIN dirs[job.kind]
  <2>1. Removed(job.kind, job.cycle) /\ UNCHANGED <<latest, keys, key, spoiled, job>>
    BY <1>0, <1>1, RemoveRemoves DEF Replace, StoreTypes
  <2>2. ~spoiled[job.kind] => job.cycle < job.cycle
    BY <1>0, <1>1 DEF StoreSafe, JobOrder, Underway
  <2>3. spoiled[job.kind]
    BY <1>0, <2>2 DEF Jobs
  <2> QED
    BY <1>0, <1>1, <2>1, <2>3, RemovedInv
<1>2. CASE job.cycle \notin DOMAIN dirs[job.kind]
  <2>1. job' = Step(job) /\ UNCHANGED <<dirs, latest, keys, key, spoiled>>
    BY <1>2 DEF Replace
  <2>2. After(job.kind, job.at) = "rename" /\ "rename" \in Places /\ "rename" \in PlacesOf(job.kind)
    BY <1>0, AfterCkpt, AfterSnap DEF Kinds, Places, PlacesOf, CkptBefore, SnapBefore
  <2> QED
    BY <1>0, <2>1, <2>2, PlaceInv
<1> QED
  BY <1>1, <1>2

\* The oldest directory goes when there are more than Keep.
LEMMA PruneInv ==
  ASSUME StoreTypes, StoreSafe(FALSE), Prune
  PROVE  StoreTypes' /\ StoreSafe(FALSE)'
<1> DEFINE d == DOMAIN dirs[job.kind]
<1>0. /\ job.at = "prune" /\ job \in Jobs /\ job.kind \in Kinds /\ job.at # "none"
      /\ spoiled \in [Kinds -> BOOLEAN] /\ d \subseteq Nat
  BY DEF Prune, StoreTypes, JobType, NoJob, Jobs, SpoiledType, DirsType
<1>1. CASE Keep # 0 /\ Cardinality(d) > Keep
  <2>1. Remove(job.kind, Min(d)) /\ UNCHANGED <<latest, keys, key, spoiled, job>>
    BY <1>1 DEF Prune
  <2>2. d # {}
    BY <1>1, FS_EmptySet, KeepAssumption
  <2>3. Min(d) \in d
    BY <1>0, <2>2, MinOfNat
  <2>4. Removed(job.kind, Min(d))
    BY <1>0, <2>1, <2>3, RemoveRemoves DEF StoreTypes
  <2>5. ASSUME ~spoiled[job.kind]
        PROVE  Min(d) # job.cycle
    <3>1. job.cycle \in d /\ \A n \in d : n <= job.cycle
      BY <1>0, <2>5 DEF StoreSafe, JobOrder, Underway, SnapAfter
    <3>2. CASE Cardinality(d) > 1
      BY <1>0, <3>1, <3>2, OldestNotNewest
    <3>3. CASE ~(Cardinality(d) > 1)
      <4>1. Cardinality(d) \in Nat
        BY <1>0, FS_CardinalityType DEF StoreTypes, DirsType
      <4> QED
        BY <1>1, <3>3, <4>1, KeepAssumption
    <3> QED
      BY <3>2, <3>3
  <2> QED
    BY <1>0, <2>1, <2>3, <2>4, <2>5, RemovedInv
<1>2. CASE ~(Keep # 0 /\ Cardinality(d) > Keep)
  <2>1. job' = Step(job) /\ UNCHANGED <<dirs, latest, keys, key, spoiled>>
    BY <1>2 DEF Prune
  <2>2. CASE job.kind = "snap"
    <3>1. After(job.kind, job.at) = "sweep" /\ "sweep" \in Places /\ "sweep" \in PlacesOf(job.kind)
      BY <1>0, <2>2, AfterSnap DEF Places, PlacesOf, SnapAfter
    <3> QED
      BY <1>0, <2>1, <3>1, PlaceInv
  <2>3. CASE job.kind = "ckpt"
    <3>1. job' = NoJob
      BY <1>0, <2>1, <2>3, AfterCkpt DEF Step
    <3> QED
      BY <2>1, <2>3, <3>1, EndInv DEF Underway
  <2> QED
    BY <1>0, <2>2, <2>3 DEF Kinds
<1> QED
  BY <1>1, <1>2

\* The directory takes its name.
LEMMA RenameInv ==
  ASSUME StoreTypes, StoreSafe(FALSE), Rename
  PROVE  StoreTypes' /\ StoreSafe(FALSE)'
<1>0. /\ job.at = "rename" /\ job \in Jobs /\ job.kind \in Kinds /\ job.at # "none"
      /\ UNCHANGED <<latest, keys, key, spoiled>>
  BY DEF Rename, StoreTypes, JobType, NoJob, Jobs
<1>a. /\ job' \in Jobs /\ job'.at = "truncate" /\ job'.kind = job.kind /\ job'.cycle = job.cycle
      /\ job'.ram = job.ram /\ job'.err = job.err /\ job'.entry = job.entry
  <2>1. After(job.kind, job.at) = "truncate" /\ "truncate" \in Places
    BY <1>0, AfterCkpt, AfterSnap DEF Kinds, Places, SnapAfter
  <2> QED
    BY <1>0, <2>1, StepFields DEF Rename
<1>b. /\ DOMAIN dirs' = Kinds /\ \A j \in Kinds : j # job.kind => dirs'[j] = dirs[j]
      /\ DOMAIN dirs'[job.kind] = DOMAIN dirs[job.kind] \union {job.cycle}
      /\ dirs'[job.kind][job.cycle] = job.entry
      /\ \A n \in DOMAIN dirs[job.kind] : n # job.cycle => dirs'[job.kind][n] = dirs[job.kind][n]
  <2>1. DOMAIN dirs' = Kinds /\ \A j \in Kinds : j # job.kind => dirs'[j] = dirs[j]
    BY <1>0 DEF Rename, StoreTypes, DirsType
  <2>2. dirs'[job.kind] = With(dirs[job.kind], job.cycle, job.entry)
    BY <1>0 DEF Rename, StoreTypes, DirsType
  <2> QED
    BY <2>1, <2>2 DEF With
<1>c. ~spoiled[job.kind] => /\ job.entry.whole /\ job.entry.meta
                            /\ \A n \in DOMAIN dirs[job.kind] : n < job.cycle
  BY <1>0 DEF StoreSafe, JobOrder, Underway, SnapAfter
<1>d. job.cycle \in Nat /\ job.entry \in Entries /\ job.entry.machine.ram = job.ram
  BY <1>0 DEF Jobs, StoreTypes, JobType, NoJob
<1>1. StoreTypes'
  <2>1. LatestType' /\ KeysType' /\ KeyType' /\ SpoiledType'
    BY <1>0 DEF StoreTypes, LatestType, KeysType, KeyType, SpoiledType
  <2>2. JobType'
    BY <1>0, <1>a DEF StoreTypes, JobType, NoJob, PlacesOf, CkptAfter, SnapAfter
  <2>3. IsFiniteSet(DOMAIN dirs[job.kind] \union {job.cycle})
    BY <1>0, FS_AddElement DEF StoreTypes, DirsType
  <2>4. \A k \in Kinds : IsFiniteSet(DOMAIN dirs'[k])
    BY <1>b, <2>3 DEF StoreTypes, DirsType
  <2>5. DirsType'
    BY <1>0, <1>b, <1>d, <2>4 DEF StoreTypes, DirsType
  <2> QED
    BY <2>1, <2>2, <2>5 DEF StoreTypes
<1>2. WholeRestores'
  <2>1. CASE job.kind = "snap"
    <3>1. ASSUME ~spoiled["snap"], NEW m \in DOMAIN dirs'["snap"]
          PROVE  /\ dirs'["snap"][m].key <= m
                 /\ dirs'["snap"][m].whole => dirs'["snap"][m].meta /\ Restores(dirs["snap"][m])'
      <4>1. CASE m = job.cycle
        <5>1. job.entry.key = key.name /\ Restores(job.entry) /\ key.name <= job.cycle
          BY <1>0, <2>1, <3>1 DEF StoreSafe, JobKey, Underway, StoreTypes, JobType, NoJob
        <5> QED
          BY <1>0, <1>b, <1>c, <2>1, <3>1, <4>1, <5>1 DEF Restores, Rebuilt
      <4>2. CASE m # job.cycle
        <5>1. m \in DOMAIN dirs["snap"] /\ dirs'["snap"][m] = dirs["snap"][m]
          BY <1>b, <2>1, <3>1, <4>2
        <5>2. dirs["snap"][m].key <= m /\ (dirs["snap"][m].whole => dirs["snap"][m].meta /\ Restores(dirs["snap"][m]))
          BY <3>1, <5>1 DEF StoreSafe, WholeRestores
        <5> QED
          BY <1>0, <5>1, <5>2 DEF Restores, Rebuilt
      <4> QED
        BY <4>1, <4>2
    <3> QED
      BY <1>0, <3>1 DEF WholeRestores
  <2>2. CASE job.kind # "snap"
    <3>1. dirs'["snap"] = dirs["snap"]
      BY <1>b, <2>2 DEF Kinds
    <3> QED
      BY <1>0, <3>1 DEF StoreSafe, WholeRestores, Restores, Rebuilt
  <2> QED
    BY <2>1, <2>2
<1>3. KeySound(FALSE)'
  BY <1>0, <1>a DEF StoreSafe, KeySound, Underway
<1>4. JobKey'
  <2>1. job.kind = "snap" /\ ~spoiled["snap"] => dirs'["snap"][job.cycle].key = key.name
    BY <1>0, <1>b DEF StoreSafe, JobKey, Underway
  <2> QED
    BY <1>0, <1>a, <2>1 DEF StoreSafe, JobKey, Underway, SnapAfter
<1>5. ASSUME NEW k \in Kinds
      PROVE  LatestWhole(k)' /\ JobOrder(k)'
  <2>1. CASE k = job.kind
    <3>1. LatestWhole(k)'
      <4>1. ~spoiled[k] => /\ job.cycle \in DOMAIN dirs'[k] /\ dirs'[k][job.cycle].whole
                           /\ job.cycle \notin DOMAIN dirs[k]
        BY <1>b, <1>c, <1>d, <2>1
      <4> QED
        BY <1>0, <1>b, <2>1, <4>1 DEF StoreSafe, LatestWhole
    <3>2. JobOrder(k)'
      <4>1. ~spoiled[k] => \A n \in DOMAIN dirs'[k] : n <= job.cycle
        BY <1>b, <1>c, <1>d, <2>1 DEF StoreTypes, DirsType
      <4> QED
        BY <1>0, <1>a, <1>b, <1>c, <2>1, <4>1 DEF JobOrder, Underway, SnapAfter
    <3> QED
      BY <3>1, <3>2
  <2>2. CASE k # job.kind
    <3>1. dirs'[k] = dirs[k]
      BY <1>b, <2>2
    <3> QED
      BY <1>0, <1>a, <2>2, <3>1 DEF StoreSafe, LatestWhole, JobOrder, Underway
  <2> QED
    BY <2>1, <2>2
<1> QED
  BY <1>1, <1>2, <1>3, <1>4, <1>5 DEF StoreSafe

\* latest.txt is emptied, then written.
LEMMA WriteLatestInv ==
  ASSUME StoreTypes, StoreSafe(FALSE), WriteLatest
  PROVE  StoreTypes' /\ StoreSafe(FALSE)'
<1>0. /\ job.at \in {"truncate", "latest"} /\ job \in Jobs /\ job.kind \in Kinds /\ job.at # "none"
      /\ UNCHANGED <<dirs, keys, key, spoiled>>
  BY DEF WriteLatest, StoreTypes, JobType, NoJob, Jobs
<1>a. /\ job' \in Jobs /\ job'.at = (IF job.at = "truncate" THEN "latest" ELSE "prune") /\ job'.kind = job.kind
      /\ job'.cycle = job.cycle /\ job'.ram = job.ram /\ job'.err = job.err /\ job'.entry = job.entry
  <2>1. /\ After(job.kind, job.at) = (IF job.at = "truncate" THEN "latest" ELSE "prune")
        /\ After(job.kind, job.at) \in Places
    BY <1>0, AfterCkpt, AfterSnap DEF Kinds, Places, SnapAfter
  <2> QED
    BY <1>0, <2>1, StepFields DEF WriteLatest
<1>b. /\ \A k \in Kinds : k # job.kind => latest'[k] = latest[k]
      /\ job.at = "truncate" => latest'[job.kind] = None
      /\ job.at = "latest" => latest'[job.kind] = job.cycle
      /\ LatestType'
  BY <1>0 DEF WriteLatest, StoreTypes, LatestType, Jobs, None
<1>1. StoreTypes'
  <2>1. DirsType' /\ KeysType' /\ KeyType' /\ SpoiledType'
    BY <1>0 DEF StoreTypes, DirsType, KeysType, KeyType, SpoiledType
  <2>2. JobType'
    BY <1>0, <1>a DEF StoreTypes, JobType, NoJob, PlacesOf, CkptAfter, SnapAfter
  <2> QED
    BY <1>b, <2>1, <2>2 DEF StoreTypes
<1>2. WholeRestores'
  BY <1>0 DEF StoreSafe, WholeRestores, Restores, Rebuilt
<1>3. KeySound(FALSE)' /\ JobKey'
  BY <1>0, <1>a DEF StoreSafe, KeySound, JobKey, Underway, SnapAfter
<1>4. ASSUME NEW k \in Kinds
      PROVE  LatestWhole(k)' /\ JobOrder(k)'
  <2>1. LatestWhole(k)'
    BY <1>0, <1>b DEF StoreSafe, LatestWhole, JobOrder, Underway, SnapAfter
  <2>2. JobOrder(k)'
    BY <1>0, <1>a, <1>b DEF StoreSafe, JobOrder, Underway, SnapAfter
  <2> QED
    BY <2>1, <2>2
<1> QED
  BY <1>1, <1>2, <1>3, <1>4 DEF StoreSafe

\* A keyframe no meta.txt names is removed; or there is none, and the save is over.
LEMMA SweepInv ==
  ASSUME StoreTypes, StoreSafe(FALSE), Sweep
  PROVE  StoreTypes' /\ StoreSafe(FALSE)'
<1>0. /\ job.at = "sweep" /\ job \in Jobs /\ job.kind = "snap" /\ job.at # "none" /\ Underway("snap")
      /\ UNCHANGED <<dirs, latest, key, spoiled>>
  BY DEF Sweep, StoreTypes, JobType, NoJob, Jobs, Kinds, PlacesOf, CkptBefore, CkptAfter, Underway
<1>1. CASE DOMAIN keys \subseteq Used /\ job' = NoJob /\ UNCHANGED keys
  BY <1>0, <1>1, EndInv
<1>2. CASE \E n \in DOMAIN keys \ Used : keys' = Without(keys, n) /\ UNCHANGED job
  <2>0. PICK n \in DOMAIN keys \ Used : keys' = Without(keys, n) /\ UNCHANGED job
    BY <1>2
  <2>1. DOMAIN keys' = DOMAIN keys \ {n} /\ \A m \in DOMAIN keys' : keys'[m] = keys[m]
    BY <2>0 DEF Without
  <2>2. ASSUME ~spoiled["snap"], NEW m \in DOMAIN dirs["snap"], dirs["snap"][m].whole
        PROVE  dirs["snap"][m].meta /\ Restores(dirs["snap"][m]) /\ dirs["snap"][m].key # n
    <3>1. dirs["snap"][m].meta /\ Restores(dirs["snap"][m])
      BY <2>2 DEF StoreSafe, WholeRestores
    <3>2. dirs["snap"][m].key \in Used
      BY <3>1 DEF Used
    <3> QED
      BY <3>1, <3>2
  <2>3. ASSUME ~spoiled["snap"]
        PROVE  key.name # n
    <3>1. job.cycle \in DOMAIN dirs["snap"] /\ dirs["snap"][job.cycle].whole /\ dirs["snap"][job.cycle].key = key.name
      BY <1>0, <2>3 DEF StoreSafe, JobOrder, JobKey, Kinds, SnapAfter
    <3> QED
      BY <2>2, <2>3, <3>1
  <2>4. StoreTypes'
    <3>1. KeysType'
      BY <2>1 DEF StoreTypes, KeysType
    <3>2. DirsType' /\ LatestType' /\ KeyType' /\ SpoiledType' /\ JobType'
      BY <1>0, <2>0 DEF StoreTypes, DirsType, LatestType, KeyType, SpoiledType, JobType
    <3> QED
      BY <3>1, <3>2 DEF StoreTypes
  <2>5. WholeRestores'
    <3>1. ASSUME ~spoiled["snap"], NEW m \in DOMAIN dirs["snap"], dirs["snap"][m].whole
          PROVE  dirs["snap"][m].meta /\ Restores(dirs["snap"][m])'
      <4> DEFINE e == dirs["snap"][m]
      <4>1. e.meta /\ Restores(e) /\ e.key # n
        BY <2>2, <3>1
      <4>2. e' = e
        BY <1>0
      <4>3. e.key \in DOMAIN keys' /\ keys'[e.key] = keys[e.key]
        BY <2>1, <4>1 DEF Restores
      <4> HIDE DEF e
      <4>4. Restores(e)'
        BY <4>1, <4>2, <4>3 DEF Restores, Rebuilt
      <4> QED
        BY <4>1, <4>4 DEF e
    <3> QED
      BY <1>0, <3>1 DEF StoreSafe, WholeRestores
  <2>6. KeySound(FALSE)' /\ JobKey'
    BY <1>0, <2>0, <2>1, <2>3 DEF StoreSafe, KeySound, JobKey, Underway
  <2>7. ASSUME NEW k \in Kinds
        PROVE  LatestWhole(k)' /\ JobOrder(k)'
    BY <1>0, <2>0 DEF StoreSafe, LatestWhole, JobOrder, Underway
  <2> QED
    BY <2>4, <2>5, <2>6, <2>7 DEF StoreSafe
<1> QED
  BY <1>1, <1>2 DEF Sweep

\* Every file operation of a save keeps the invariant.
LEMMA SaveStepInv ==
  ASSUME StoreTypes, StoreSafe(FALSE), SaveStep
  PROVE  StoreTypes' /\ StoreSafe(FALSE)'
BY WriteFileInv, WriteKeyInv, KeyWrittenInv, WriteDiffInv, ReplaceInv, RenameInv, WriteLatestInv, PruneInv, SweepInv
   DEF SaveStep

\* The invariant is enough: whatever is whole can be restored, and latest.txt names such a directory.
LEMMA StoreRestores ==
  ASSUME StoreTypes, NEW dead \in BOOLEAN, StoreSafe(dead)
  PROVE  SnapshotRestores
<1>1. ASSUME NEW k \in Kinds, ~spoiled[k], NEW n \in DOMAIN dirs[k], dirs[k][n].whole
      PROVE  CanRestore(k, n) /\ RestoredRam(k, n) = dirs[k][n].machine.ram
  BY <1>1 DEF StoreSafe, WholeRestores, Restores, CanRestore, RestoredRam, Kinds
<1>2. ASSUME NEW k \in Kinds, ~spoiled[k]
      PROVE  LatestWhole(k)
  BY DEF StoreSafe
<1> QED
  BY <1>1, <1>2 DEF SnapshotRestores, LatestWhole

-----------------------------------------------------------------------------
(* What a save never touches: the machines that were saved.                  *)

\* The next file of a save changes nothing but the place, or the save is over.
LEMMA StepKeeps ==
  ASSUME NEW j \in Jobs
  PROVE  \/ Step(j) = NoJob
         \/ Step(j).kind = j.kind /\ Step(j).cycle = j.cycle /\ Step(j).entry = j.entry
<1>1. Step(j) = NoJob \/ \E a : Step(j) = [j EXCEPT !.at = a]
  BY DEF Step
<1> QED
  BY <1>1 DEF Jobs

\* A save under way keeps its kind, its cycle and its machine to the end.
LEMMA JobKept ==
  ASSUME StoreTypes, SaveStep
  PROVE  /\ job \in Jobs /\ job.at # "none"
         /\ \/ job' = NoJob
            \/ job'.kind = job.kind /\ job'.cycle = job.cycle /\ job'.entry.machine = job.entry.machine
<1>0. job \in Jobs /\ job.at # "none"
  BY DEF SaveStep, WriteFile, WriteKey, KeyWritten, WriteDiff, Replace, Rename, WriteLatest, Prune, Sweep,
         StoreTypes, JobType, NoJob
<1> DEFINE Kept == job' = NoJob \/ (job'.kind = job.kind /\ job'.cycle = job.cycle
                                    /\ job'.entry.machine = job.entry.machine)
<1>1. job' = job \/ job' = Step(job) \/ job' = NoJob => Kept
  BY <1>0, StepKeeps
<1>2. ASSUME NEW a, job' = [job EXCEPT !.at = a] PROVE Kept
  BY <1>0, <1>2 DEF Jobs
<1>3. job' = Step([job EXCEPT !.err = "late"]) => Kept
  <2>1. /\ [job EXCEPT !.err = "late"] \in Jobs /\ [job EXCEPT !.err = "late"].kind = job.kind
        /\ [job EXCEPT !.err = "late"].cycle = job.cycle /\ [job EXCEPT !.err = "late"].entry = job.entry
    BY <1>0 DEF Jobs
  <2> QED
    BY <2>1, StepKeeps
<1>4. WriteFile => Kept
  <2> DEFINE j == [job EXCEPT !.err = "unseen", !.entry.meta = job.at # "meta",
                              !.entry.whole = job.at = "meta", !.entry.cut = job.at = "harness"]
  <2>1. /\ j \in Jobs /\ j.kind = job.kind /\ j.cycle = job.cycle /\ j.entry.machine = job.entry.machine
    BY <1>0 DEF Jobs, Entries
  <2>2. job' = Step(j) => Kept
    <3> HIDE DEF j
    <3> QED
      BY <2>1, StepKeeps
  <2>3. WriteFile => \/ job' = Step(job) \/ job' = Step([job EXCEPT !.err = "late"])
                     \/ job' = [job EXCEPT !.at = "failed"] \/ job' = Step(j)
    BY DEF WriteFile
  <2> QED
    BY <1>1, <1>2, <1>3, <2>2, <2>3
<1>5. WriteKey => Kept
  <2>1. WriteKey => job' = Step(job) \/ job' = [job EXCEPT !.at = "diff"]
    BY DEF WriteKey
  <2> QED
    BY <1>1, <1>2, <2>1
<1>6. KeyWritten => Kept
  <2>1. KeyWritten => job' = Step(job) \/ job' = Step([job EXCEPT !.err = "late"])
    BY DEF KeyWritten
  <2> QED
    BY <1>1, <1>3, <2>1
<1>7. CASE WriteDiff
  <2> DEFINE d == [p \in Diff(job.ram) |-> job.ram[p]]
  <2>1. CASE job' = [job EXCEPT !.at = IF job.err = "late" THEN "failed" ELSE "harness",
                                !.entry.key = key.name, !.entry.diff = d]
    <3> HIDE DEF d
    <3> QED
      BY <1>0, <2>1 DEF Jobs, Entries
  <2>2. CASE job' = [job EXCEPT !.at = "failed"]
    BY <1>0, <1>2, <2>2
  <2> QED
    BY <1>7, <2>1, <2>2 DEF WriteDiff
<1>8. Replace \/ Rename \/ WriteLatest \/ Prune \/ Sweep => Kept
  <2>1. Replace \/ Rename \/ WriteLatest \/ Prune \/ Sweep => job' = job \/ job' = Step(job) \/ job' = NoJob
    BY DEF Replace, Rename, WriteLatest, Prune, Sweep
  <2> QED
    BY <1>1, <2>1
<1> QED
  BY <1>0, <1>4, <1>5, <1>6, <1>7, <1>8 DEF SaveStep

\* A directory holds the machine it was saved with; the only new one is that of the save.
LEMMA DirsKept ==
  ASSUME StoreTypes, SaveStep, NEW k \in Kinds, NEW n \in DOMAIN dirs'[k]
  PROVE  \/ n \in DOMAIN dirs[k] /\ dirs'[k][n].machine = dirs[k][n].machine
         \/ k = job.kind /\ dirs'[k][n].machine = job.entry.machine
<1>0. job \in Jobs /\ job.kind \in Kinds /\ DirsType
  BY JobKept DEF Jobs, StoreTypes
<1>1. CASE UNCHANGED dirs
  BY <1>1
<1>2. ASSUME NEW m \in DOMAIN dirs[job.kind], Remove(job.kind, m)
      PROVE  n \in DOMAIN dirs[k] /\ dirs'[k][n].machine = dirs[k][n].machine
  <2>1. Removed(job.kind, m)
    BY <1>0, <1>2, RemoveRemoves
  <2> QED
    BY <1>0, <2>1 DEF Removed
<1>3. CASE Rename
  <2>1. dirs' = [dirs EXCEPT ![job.kind] = With(dirs[job.kind], job.cycle, job.entry)]
    BY <1>3 DEF Rename
  <2>2. k # job.kind => dirs'[k] = dirs[k]
    BY <1>0, <2>1 DEF DirsType
  <2>3. k = job.kind => dirs'[k] = With(dirs[k], job.cycle, job.entry)
    BY <1>0, <2>1 DEF DirsType
  <2>4. k = job.kind => /\ DOMAIN dirs'[k] = DOMAIN dirs[k] \union {job.cycle}
                        /\ dirs'[k][n] = (IF n = job.cycle THEN job.entry ELSE dirs[k][n])
    BY <2>3 DEF With
  <2> QED
    BY <2>2, <2>4
<1>4. CASE Replace
  BY <1>1, <1>2, <1>4 DEF Replace
<1>5. CASE Prune
  <2>1. CASE Cardinality(DOMAIN dirs[job.kind]) > Keep /\ Keep # 0 /\ Remove(job.kind, Min(DOMAIN dirs[job.kind]))
    <3>1. DOMAIN dirs[job.kind] # {} /\ DOMAIN dirs[job.kind] \subseteq Nat
      BY <1>0, <2>1, KeepAssumption, FS_EmptySet DEF DirsType
    <3>2. Min(DOMAIN dirs[job.kind]) \in DOMAIN dirs[job.kind]
      BY <3>1, MinOfNat
    <3> QED
      BY <1>2, <2>1, <3>2
  <2> QED
    BY <1>1, <1>5, <2>1 DEF Prune
<1>6. CASE WriteFile \/ WriteKey \/ KeyWritten \/ WriteDiff \/ WriteLatest \/ Sweep
  BY <1>1, <1>6 DEF WriteFile, WriteKey, KeyWritten, WriteDiff, WriteLatest, Sweep
<1> QED
  BY <1>3, <1>4, <1>5, <1>6 DEF SaveStep

\* The keyframe in memory stays, or is the one the save has just made.
LEMMA KeyKept ==
  ASSUME StoreTypes, SaveStep
  PROVE  key'.name = key.name \/ key'.name = job.cycle
<1>1. CASE UNCHANGED key
  BY <1>1
<1>2. CASE KeyWritten
  BY <1>2 DEF KeyWritten
<1>3. CASE WriteDiff
  BY <1>3 DEF WriteDiff, StoreTypes, KeyType
<1> QED
  BY <1>1, <1>2, <1>3 DEF SaveStep, WriteFile, WriteKey, Replace, Rename, WriteLatest, Prune, Sweep

-----------------------------------------------------------------------------
(* The ends of a save, and of the process.                                   *)

\* No directory has been made yet.
LEMMA StoreInitInv == StoreInit => StoreTypes /\ StoreSafe(FALSE)
<1> SUFFICES ASSUME StoreInit PROVE StoreTypes /\ StoreSafe(FALSE)
  OBVIOUS
<1>1. job.at = "none" /\ key.name = None /\ key.ram = <<>> /\ \A k \in Kinds : DOMAIN dirs[k] = {} /\ latest[k] = None
  BY DEF StoreInit, NoJob, NoKey
<1>2. StoreTypes
  <2>1. DirsType
    BY <1>1, FS_EmptySet DEF StoreInit, DirsType
  <2>2. LatestType /\ SpoiledType /\ KeysType /\ JobType
    BY DEF StoreInit, LatestType, SpoiledType, KeysType, JobType, None
  <2>3. KeyType
    BY DEF StoreInit, KeyType, NoKey, None
  <2> QED
    BY <2>1, <2>2, <2>3 DEF StoreTypes
<1> QED
  BY <1>1, <1>2 DEF StoreSafe, WholeRestores, KeySound, JobKey, LatestWhole, JobOrder, Underway, Kinds

\* A save begins: of a later cycle than every entry, or the entries are spoiled.
LEMMA BeginInv ==
  ASSUME StoreTypes, StoreSafe(FALSE), job.at = "none", NEW k \in Kinds, NEW now \in Nat, key.name <= now,
         NEW machine \in Machines, Begin(k, now, machine.ram, machine)
  PROVE  /\ StoreTypes' /\ StoreSafe(FALSE)'
         /\ job'.at # "none" /\ job'.kind = k /\ job'.cycle = now /\ job'.entry.machine = machine
<1> DEFINE e == [whole |-> TRUE, meta |-> TRUE, cut |-> FALSE, key |-> None, diff |-> <<>>, machine |-> machine]
           first == IF k = "ckpt" THEN "model" ELSE "state"
<1>0. /\ UNCHANGED <<dirs, latest, keys, key>> /\ spoiled \in [Kinds -> BOOLEAN]
      /\ spoiled' = [spoiled EXCEPT ![k] = spoiled[k] \/ \E n \in DOMAIN dirs[k] : n >= now]
  BY DEF Begin, StoreTypes, SpoiledType
<1>1. Head(Steps(k)) = first
  BY DEF Steps
<1>2. e \in Entries
  <2>1. <<>> \in [{} -> Contents] /\ {} \in SUBSET Pages
    OBVIOUS
  <2>2. <<>> \in Diffs
    BY <2>1 DEF Diffs
  <2> QED
    BY <2>2 DEF Entries, None
<1>3. machine.ram \in Rams
  BY DEF Machines
<1>4. job' = [at |-> first, kind |-> k, cycle |-> now, ram |-> machine.ram, err |-> "none", entry |-> e]
  BY <1>1 DEF Begin
<1>5. e.whole /\ e.meta /\ e.machine = machine
  OBVIOUS
<1> HIDE DEF e
<1>6. /\ job'.at = first /\ job'.kind = k /\ job'.cycle = now /\ job'.err = "none" /\ job'.entry = e
      /\ job'.ram = machine.ram
  BY <1>4
<1>7. job' \in Jobs /\ first \in PlacesOf(k) /\ first \notin SnapAfter /\ first # "none"
  BY <1>2, <1>3, <1>4 DEF Jobs, Places, PlacesOf, CkptBefore, SnapBefore, SnapAfter, Kinds
<1>8. StoreTypes'
  <2>1. DirsType' /\ LatestType' /\ KeysType' /\ KeyType'
    BY <1>0 DEF StoreTypes, DirsType, LatestType, KeysType, KeyType
  <2>2. SpoiledType'
    BY <1>0 DEF SpoiledType
  <2>3. JobType'
    BY <1>0, <1>5, <1>6, <1>7 DEF JobType
  <2> QED
    BY <2>1, <2>2, <2>3 DEF StoreTypes
<1>9. /\ \A j \in Kinds : ~spoiled'[j] => ~spoiled[j]
      /\ ~spoiled'[k] => \A n \in DOMAIN dirs[k] : ~(n >= now)
  BY <1>0
<1>10. ~Underway("snap") /\ \A j \in Kinds : Underway(j)' => j = k
  BY <1>6 DEF Underway
<1>11. WholeRestores' /\ KeySound(FALSE)'
  BY <1>0, <1>9, <1>10 DEF StoreSafe, WholeRestores, Restores, Rebuilt, KeySound, Kinds
<1>12. JobKey'
  BY <1>6, <1>7, <1>10 DEF JobKey, Underway, SnapAfter, Kinds
<1>13. ASSUME NEW j \in Kinds PROVE LatestWhole(j)' /\ JobOrder(j)'
  <2>1. LatestWhole(j)'
    BY <1>0, <1>9 DEF StoreSafe, LatestWhole
  <2>2. \A n \in DOMAIN dirs[k] : n \in Nat
    BY DEF StoreTypes, DirsType
  <2>3. ~spoiled'[k] => \A n \in DOMAIN dirs'[k] : n < now
    BY <1>0, <1>9, <2>2
  <2>4. JobOrder(j)'
    BY <1>5, <1>6, <1>7, <1>10, <2>3 DEF JobOrder, SnapAfter, Kinds
  <2> QED
    BY <2>1, <2>4
<1> QED
  BY <1>5, <1>6, <1>7, <1>8, <1>11, <1>12, <1>13 DEF StoreSafe

\* A save ends, whole or not; after a failed snapshot the process must save no more.
LEMMA OverInv ==
  ASSUME StoreTypes, StoreSafe(FALSE), NEW dead \in BOOLEAN, job' = NoJob,
         UNCHANGED <<dirs, latest, keys, key, spoiled>>, Underway("snap") => dead
  PROVE  StoreTypes' /\ StoreSafe(dead)'
<1>0. job'.at = "none"
  BY DEF NoJob
<1>1. StoreTypes'
  BY DEF StoreTypes, DirsType, LatestType, KeysType, KeyType, SpoiledType, JobType
<1>2. WholeRestores'
  BY DEF StoreSafe, WholeRestores, Restores, Rebuilt
<1>3. KeySound(dead)'
  BY DEF StoreSafe, KeySound
<1>4. JobKey' /\ \A k \in Kinds : LatestWhole(k)' /\ JobOrder(k)'
  BY <1>0 DEF StoreSafe, LatestWhole, JobKey, JobOrder, Underway
<1> QED
  BY <1>1, <1>2, <1>3, <1>4 DEF StoreSafe

\* The process is gone, wherever it was: the directories stay as they are.
LEMMA GoneInv ==
  ASSUME StoreTypes, NEW dead \in BOOLEAN, StoreSafe(dead), job' = NoJob, key' = NoKey,
         UNCHANGED <<dirs, latest, keys, spoiled>>
  PROVE  StoreTypes' /\ StoreSafe(FALSE)'
<1>0. job'.at = "none" /\ key'.name = None
  BY DEF NoJob, NoKey
<1>1. DirsType' /\ LatestType' /\ KeysType' /\ SpoiledType' /\ JobType'
  BY DEF StoreTypes, DirsType, LatestType, KeysType, SpoiledType, JobType
<1>2. KeyType'
  BY DEF KeyType, NoKey, None
<1>3. WholeRestores'
  BY DEF StoreSafe, WholeRestores, Restores, Rebuilt
<1>4. KeySound(FALSE)' /\ JobKey' /\ \A k \in Kinds : LatestWhole(k)' /\ JobOrder(k)'
  BY <1>0 DEF StoreSafe, LatestWhole, KeySound, JobKey, JobOrder, Underway
<1> QED
  BY <1>1, <1>2, <1>3, <1>4 DEF StoreSafe, StoreTypes

\* A process that will save no more may only claim less.
LEMMA DeadInv ==
  ASSUME NEW dead \in BOOLEAN, StoreSafe(FALSE), StoreTypes, UNCHANGED store
  PROVE  StoreTypes' /\ StoreSafe(dead)'
<1> USE DEF store
<1>1. StoreTypes'
  BY DEF StoreTypes, DirsType, LatestType, KeysType, KeyType, SpoiledType, JobType
<1>2. WholeRestores'
  BY DEF StoreSafe, WholeRestores, Restores, Rebuilt
<1>3. KeySound(dead)'
  BY DEF StoreSafe, KeySound, Underway
<1>4. JobKey'
  BY DEF StoreSafe, JobKey, Underway, Restores, Rebuilt
<1>5. \A k \in Kinds : LatestWhole(k)' /\ JobOrder(k)'
  BY DEF StoreSafe, LatestWhole, JobOrder, Underway
<1> QED
  BY <1>1, <1>2, <1>3, <1>4, <1>5 DEF StoreSafe

\* What is restored is a RAM, also from directories that are spoiled.
LEMMA RestoredType ==
  ASSUME StoreTypes, NEW k \in Kinds, NEW n, CanRestore(k, n)
  PROVE  RestoredRam(k, n) \in Rams
<1>1. n \in DOMAIN dirs[k] /\ dirs[k][n] \in Entries /\ dirs[k][n].machine \in Machines
  BY DEF CanRestore, StoreTypes, DirsType, Entries
<1>2. CASE k # "snap"
  BY <1>1, <1>2 DEF RestoredRam, Machines
<1>3. CASE k = "snap"
  <2> DEFINE e == dirs[k][n]
  <2>1. e.diff \in Diffs /\ keys[e.key].ram \in Rams
    BY <1>1, <1>3 DEF Entries, CanRestore, StoreTypes, KeysType
  <2> HIDE DEF e
  <2>2. PICK D \in SUBSET Pages : e.diff \in [D -> Contents]
    BY <2>1 DEF Diffs
  <2>3. Rebuilt(e) \in Rams
    BY <2>1, <2>2 DEF Rebuilt, Rams
  <2> QED
    BY <1>3, <2>3 DEF RestoredRam, e
<1> QED
  BY <1>2, <1>3

=============================================================================
