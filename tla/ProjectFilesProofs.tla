------------------------- MODULE ProjectFilesProofs -------------------------
(* Proofs about ProjectFiles, for every number of processes, names, tasks and  *)
(* faults: what becomes of a registered project and of a patched binary.       *)
EXTENDS ProjectFiles, TLAPS

Maker(u) == proc[u].at \in Making \cup Cleaning
Maker1(u) == proc[u].at \in {"tmp", "text", "rename"}
Reader(u) == proc[u].at \in {"move", "attach", "cut"} /\ proc[u].read # NoFile

(* One process makes or cleans up a name, and until it is done the directory   *)
(* has no manifest and no owner.                                               *)
Alone ==
    \A u, v \in Users : Maker(u) /\ Maker(v) /\ proc[u].name = proc[v].name => u = v
Unborn(u) ==
    LET n == proc[u].name IN
    Maker(u) =>
        /\ n \in Names /\ dir[n] # NoDir /\ dir[n].manifest = NoFile /\ owner[n] = NoUser
        /\ Maker1(u) => dir[n].work = Tasks
        /\ proc[u].at = "rename" => dir[n].tmp = [by |-> u, binary |-> "first", patches |-> {}]
        /\ proc[u].at \in {"untmp", "undir"} => dir[n].work = {}
        /\ proc[u].at = "undir" => dir[n].tmp = NoFile

(* What a process has read of a manifest is the owner's, or garbled by a clash. *)
ReadsOwn(u) ==
    LET n == proc[u].name IN
    /\ proc[u].at # "idle" => n \in Names
    /\ proc[u].at = "cut" => proc[u].read # NoFile
    /\ Reader(u) =>
        /\ owner[n] # NoUser
        /\ \/ proc[u].read \in Manifests /\ proc[u].read.by = owner[n]
           \/ proc[u].read = Garbled /\ n \in clashed

(* A project that was created: a manifest that can be read is its owner's, and *)
(* unless adds have clashed there is one writer at most, beside an empty file. *)
Stays(n) ==
    owner[n] # NoUser =>
        /\ dir[n] # NoDir /\ dir[n].work = Tasks /\ dir[n].manifest # NoFile
        /\ dir[n].manifest \in Manifests => dir[n].manifest.by = owner[n]
        /\ n \notin clashed =>
            /\ dir[n].manifest # Garbled
            /\ dir[n].manifest = Half <=> Writers(n) # {}
            /\ \A v, w \in Writers(n) : v = w

Manifested ==
    \A n \in Names : owner[n] = NoUser /\ dir[n] # NoDir => dir[n].manifest = NoFile
Foreign == \A n \in Names : n \in foreign <=> (dir[n] # NoDir /\ dir[n].other)

PInv ==
    /\ TypeOK
    /\ Alone
    /\ \A u \in Users : Unborn(u) /\ ReadsOwn(u)
    /\ Manifested
    /\ Foreign
    /\ \A n \in Names : Stays(n)
    /\ NamesAreFreed

-----------------------------------------------------------------------------
(* Facts about single processes and directories. *)
LEMMA Workers ==
    ASSUME TypeOK, NEW u \in Users
    PROVE  /\ proc[u] \in Patching \cup Working
           /\ proc[u] = [at |-> proc[u].at, name |-> proc[u].name, read |-> proc[u].read,
                         fd |-> proc[u].fd]
           /\ proc[u].at \notin {"write", "swap"} => proc[u] \in Working
           /\ proc[u].at \in {"write", "swap"} => proc[u] \in Patching
           /\ Idle \in Working
BY DEF TypeOK, Patching, Working, Idle, Stages

LEMMA GoesOn ==
    ASSUME TypeOK, NEW u \in Users, NEW at \in Stages \ {"write", "swap"},
           proc[u].at \notin {"write", "swap"}, Goes(u, at)
    PROVE  /\ proc' \in [Users -> Patching \cup Working]
           /\ proc'[u] = [at |-> at, name |-> proc[u].name, read |-> proc[u].read,
                          fd |-> proc[u].fd]
           /\ \A v \in Users \ {u} : proc'[v] = proc[v]
<1>1. proc' = [proc EXCEPT ![u].at = at]
  BY DEF Goes
<1>2. proc[u] \in Working
      /\ proc[u] = [at |-> proc[u].at, name |-> proc[u].name, read |-> proc[u].read,
                    fd |-> proc[u].fd]
  BY Workers
<1> DEFINE p == [at |-> at, name |-> proc[u].name, read |-> proc[u].read, fd |-> proc[u].fd]
<1>3. p \in Working
  BY <1>2 DEF Working
<1>4. [proc[u] EXCEPT !.at = at] = p
  BY <1>2
<1>5. proc \in [Users -> Patching \cup Working]
  BY DEF TypeOK
<1>6. proc' = [proc EXCEPT ![u] = p]
  BY <1>1, <1>4, <1>5
<1> HIDE DEF p
<1>7. proc' \in [Users -> Patching \cup Working] /\ proc'[u] = p
      /\ \A v \in Users \ {u} : proc'[v] = proc[v]
  BY <1>3, <1>5, <1>6
<1> QED BY <1>7 DEF p

LEMMA ReturnsHome ==
    ASSUME TypeOK, NEW u \in Users, Returns(u)
    PROVE  /\ proc' \in [Users -> Patching \cup Working]
           /\ proc'[u] = Idle
           /\ \A v \in Users \ {u} : proc'[v] = proc[v]
BY Workers DEF TypeOK, Returns

LEMMA Sentinels ==
    /\ NewDir \in Dirs /\ NewDir # NoDir
    /\ \A d \in Dirs : d # NoDir
    /\ Idle.at = "idle" /\ Idle.read = NoFile
    /\ "idle" \notin Making \cup Cleaning
    /\ \A m \in Manifests : m # NoFile /\ m # Half /\ m # Garbled
    /\ NoFile # Half /\ NoFile # Garbled /\ Half # Garbled
    /\ \A u \in Users : u # NoUser
<1>1. NewDir \in Dirs
  BY DEF NewDir, Dirs
<1>2. \A d \in Dirs : d # NoDir
  BY NothingAssumption
<1>3. Idle.at = "idle" /\ Idle.read = NoFile /\ "idle" \notin Making \cup Cleaning
  BY DEF Idle, Making, Cleaning
<1>4. /\ \A m \in Manifests : m # NoFile /\ m # Half /\ m # Garbled
      /\ NoFile # Half /\ NoFile # Garbled /\ Half # Garbled
  BY NothingAssumption
<1>5. \A u \in Users : u # NoUser
  BY NothingAssumption
<1> QED BY <1>1, <1>2, <1>3, <1>4, <1>5

LEMMA InitInv == Init => PInv
<1> SUFFICES ASSUME Init PROVE PInv
  OBVIOUS
<1>1. \A u \in Users : proc[u] = Idle
  BY DEF Init
<1>2. TypeOK
  <2>1. Idle \in Working
    BY DEF Idle, Working, Stages
  <2>2. (CHOOSE i \in Inodes : TRUE) \in Inodes
    BY UsersAssumption
  <2> QED BY <2>1, <2>2 DEF Init, TypeOK
<1>3. Alone /\ \A u \in Users : Unborn(u) /\ ReadsOwn(u)
  BY <1>1, Sentinels DEF Alone, Unborn, ReadsOwn, Maker, Reader
<1>4. Manifested /\ Foreign /\ (\A n \in Names : Stays(n)) /\ NamesAreFreed
  BY DEF Init, Manifested, Foreign, Stays, NamesAreFreed
<1> QED BY <1>2, <1>3, <1>4 DEF PInv

-----------------------------------------------------------------------------
(* A step that does not touch what a name's project consists of.               *)
LEMMA SameWriters ==
    ASSUME NEW u \in Users, NEW n,
           \A v \in Users \ {u} : proc'[v] = proc[v],
           proc[u].at # "cut" \/ proc[u].name # n, proc'[u].at # "cut" \/ proc'[u].name # n
    PROVE  Writers(n)' = Writers(n)
BY DEF Writers

LEMMA SameProject ==
    ASSUME NEW n \in Names, Stays(n), owner'[n] = owner[n], Writers(n)' = Writers(n),
           clashed \subseteq clashed',
           dir[n] # NoDir => /\ dir'[n] # NoDir /\ dir'[n].work = dir[n].work
                             /\ dir'[n].manifest = dir[n].manifest
    PROVE  Stays(n)'
BY DEF Stays

-----------------------------------------------------------------------------
(* A step of one process that leaves the directories alone, and after which it *)
(* makes nothing: what it made is noted.                                       *)
LEMMA Quiet ==
    ASSUME PInv, NEW u \in Users, TypeOK',
           \A v \in Users \ {u} : proc'[v] = proc[v],
           dir' = dir, owner' = owner, foreign' = foreign,
           stuck \subseteq stuck', clashed' = clashed,
           Maker(u) => proc[u].name \in stuck',
           proc[u].at # "cut", proc'[u].at # "cut",
           ~Maker(u)', ReadsOwn(u)'
    PROVE  PInv'
<1>1. \A v \in Users \ {u} : Unborn(v)' /\ ReadsOwn(v)'
  <2> SUFFICES ASSUME NEW v \in Users \ {u} PROVE Unborn(v)' /\ ReadsOwn(v)'
    OBVIOUS
  <2>1. proc'[v] = proc[v] /\ Unborn(v) /\ ReadsOwn(v)
    BY DEF PInv
  <2>2. Unborn(v)'
    BY <2>1 DEF Unborn, Maker, Maker1
  <2>3. ReadsOwn(v)'
    BY <2>1 DEF ReadsOwn, Reader
  <2> QED BY <2>2, <2>3
<1>2. Unborn(u)'
  BY DEF Unborn
<1>3. Alone'
  BY DEF PInv, Alone, Maker
<1>4. Manifested' /\ Foreign'
  BY DEF PInv, Manifested, Foreign
<1>5. \A n \in Names : Stays(n)'
  BY SameWriters, SameProject DEF PInv
<1>6. NamesAreFreed'
  <2>1. \A n \in Names : dir[n] # NoDir /\ dir[n].manifest = NoFile =>
            \/ n \in stuck' \/ n \in foreign
            \/ \E v \in Users \ {u} : proc[v].name = n /\ Maker(v)
    BY DEF PInv, NamesAreFreed, Maker
  <2>2. \A n \in Names : dir[n] # NoDir /\ dir[n].manifest = NoFile =>
            \/ n \in stuck' \/ n \in foreign
            \/ \E v \in Users \ {u} : proc'[v].name = n /\ proc'[v].at \in Making \cup Cleaning
    BY <2>1 DEF Maker
  <2> QED BY <2>2 DEF PInv, NamesAreFreed
<1> QED BY <1>1, <1>2, <1>3, <1>4, <1>5, <1>6 DEF PInv

(* A step of a process inside the directory it makes or cleans up.             *)
LEMMA Inside ==
    ASSUME PInv, NEW u \in Users, Maker(u), TypeOK', NEW d \in Dirs,
           \A v \in Users \ {u} : proc'[v] = proc[v],
           dir' = [dir EXCEPT ![proc[u].name] = d],
           d.manifest = NoFile, d.other = dir[proc[u].name].other,
           UNCHANGED <<owner, stuck, clashed, foreign>>,
           Maker(u)', proc'[u].name = proc[u].name,
           Maker1(u)' => d.work = Tasks,
           proc'[u].at = "rename" => d.tmp = [by |-> u, binary |-> "first", patches |-> {}],
           proc'[u].at \in {"untmp", "undir"} => d.work = {},
           proc'[u].at = "undir" => d.tmp = NoFile
    PROVE  PInv'
<1>0. PICK n : n = proc[u].name
  OBVIOUS
<1>1. n \in Names /\ dir[n] # NoDir /\ dir[n].manifest = NoFile /\ owner[n] = NoUser
  BY <1>0 DEF PInv, Unborn
<1>2. dir'[n] = d /\ d # NoDir /\ \A k \in Names \ {n} : dir'[k] = dir[k]
  BY <1>0, <1>1, Sentinels DEF PInv, TypeOK
<1>3. Alone'
  BY DEF PInv, Alone, Maker
<1>4. \A v \in Users \ {u} : Unborn(v)' /\ ReadsOwn(v)'
  <2> SUFFICES ASSUME NEW v \in Users \ {u} PROVE Unborn(v)' /\ ReadsOwn(v)'
    OBVIOUS
  <2>1. Maker(v) => proc[v].name # n
    BY <1>0 DEF PInv, Alone
  <2>2. Unborn(v)'
    BY <1>2, <2>1 DEF PInv, Unborn, Maker, Maker1
  <2>3. ReadsOwn(v)'
    BY DEF PInv, ReadsOwn, Reader
  <2> QED BY <2>2, <2>3
<1>5. Unborn(u)'
  BY <1>0, <1>1, <1>2 DEF Unborn
<1>6. ReadsOwn(u)'
  BY <1>0, <1>1 DEF ReadsOwn, Reader, Maker, Making, Cleaning
<1>7. Manifested' /\ Foreign'
  BY <1>0, <1>1, <1>2 DEF PInv, Manifested, Foreign
<1>8. \A k \in Names : Stays(k)'
  <2> SUFFICES ASSUME NEW k \in Names PROVE Stays(k)'
    OBVIOUS
  <2>1. CASE k = n
    BY <1>1, <2>1 DEF Stays
  <2>2. CASE k # n
    <3>1. proc[u].at # "cut" /\ proc'[u].at # "cut"
      BY DEF Maker, Making, Cleaning
    <3> QED BY <1>2, <2>2, <3>1, SameWriters, SameProject DEF PInv
  <2> QED BY <2>1, <2>2
<1>9. NamesAreFreed'
  <2>1. \A k \in Names \ {n} : dir[k] # NoDir /\ dir[k].manifest = NoFile =>
            \/ k \in stuck \/ k \in foreign
            \/ \E v \in Users \ {u} : proc[v].name = k /\ proc[v].at \in Making \cup Cleaning
    BY <1>0 DEF PInv, NamesAreFreed
  <2>2. \A k \in Names : dir'[k] # NoDir /\ dir'[k].manifest = NoFile =>
            \/ k \in stuck \/ k \in foreign
            \/ \E v \in Users : proc'[v].name = k /\ proc'[v].at \in Making \cup Cleaning
    BY <1>0, <1>2, <2>1 DEF Maker
  <2>3. \A k \in foreign : dir'[k] # NoDir /\ dir'[k].other
    BY <1>0, <1>2 DEF PInv, NamesAreFreed, TypeOK
  <2> QED BY <2>2, <2>3 DEF NamesAreFreed
<1> QED BY <1>3, <1>4, <1>5, <1>6, <1>7, <1>8, <1>9 DEF PInv

(* A process that has read a manifest, and the directory it writes one into.   *)
LEMMA ReaderAt ==
    ASSUME PInv, NEW u \in Users, Reader(u)
    PROVE  /\ proc[u].name \in Names /\ proc[u].read \in Manifests \cup {Garbled}
           /\ dir \in [Names -> Dirs \cup {NoDir}] /\ dir[proc[u].name] \in Dirs
           /\ dir[proc[u].name].manifest \in Manifests \cup {Half, Garbled}
           /\ owner[proc[u].name] # NoUser
           /\ dir[proc[u].name] # NoDir /\ dir[proc[u].name].work = Tasks
           /\ ~Maker(u)
<1>1. PICK n : n = proc[u].name
  OBVIOUS
<1>2. n \in Names /\ owner[n] # NoUser /\ proc[u].read \in Manifests \cup {Garbled}
  BY <1>1 DEF PInv, ReadsOwn, Reader
<1>3. /\ dir[n] # NoDir /\ dir \in [Names -> Dirs \cup {NoDir}] /\ dir[n].work = Tasks
      /\ dir[n].manifest # NoFile
  BY <1>2 DEF PInv, Stays, TypeOK
<1>4. ~Maker(u)
  BY DEF Reader, Maker, Making, Cleaning
<1>5. dir[n] \in Dirs
  BY <1>2, <1>3
<1>6. dir[n].manifest \in Manifests \cup {Half, Garbled}
  BY <1>3, <1>5 DEF Dirs
<1> QED BY <1>1, <1>2, <1>3, <1>4, <1>5, <1>6

Put(n, m) == [dir EXCEPT ![n].manifest = m]
LEMMA ManifestPut ==
    ASSUME PInv, NEW u \in Users, Reader(u), NEW m \in Manifests \cup {Half, Garbled},
           NEW n \in Names, n = proc[u].name, dir' = Put(n, m)
    PROVE  /\ dir' \in [Names -> Dirs \cup {NoDir}]
           /\ dir'[n] # NoDir /\ dir'[n].work = Tasks /\ dir'[n].manifest = m
           /\ dir'[n].other = dir[n].other
           /\ \A k \in Names \ {n} : dir'[k] = dir[k]
<1>2. /\ n \in Names /\ dir \in [Names -> Dirs \cup {NoDir}] /\ dir[n] \in Dirs
      /\ dir[n].work = Tasks
  BY ReaderAt
<1>3. PICK d : d = [dir[n] EXCEPT !.manifest = m]
  OBVIOUS
<1>4. d.manifest = m /\ d.work = dir[n].work /\ d.other = dir[n].other /\ d \in Dirs
  BY <1>2, <1>3 DEF Dirs
<1>5. dir' = [dir EXCEPT ![n] = d]
  BY <1>2, <1>3 DEF Put
<1>6. d # NoDir
  BY <1>4, Sentinels
<1> QED BY <1>2, <1>4, <1>5, <1>6

(* A step of a process that writes the manifest of a project it has read, and  *)
(* may turn away those that have it open.                                      *)
LEMMA Rewritten ==
    ASSUME PInv, NEW u \in Users, Reader(u), TypeOK',
           NEW m \in Manifests \cup {Half, Garbled}, NEW n \in Names, n = proc[u].name,
           \A v \in Users \ {u} :
               /\ proc'[v].name = proc[v].name /\ proc'[v].read = proc[v].read
               /\ \/ proc'[v].at = proc[v].at
                  \/ v \in Writers(n) /\ proc'[v].at = "astray",
           proc'[u].at = "cut" => proc'[u].name = n,
           dir' = Put(n, m),
           UNCHANGED <<owner, stuck, foreign>>,
           clashed \subseteq clashed',
           ~Maker(u)', ReadsOwn(u)', Stays(n)'
    PROVE  PInv'
<1>1. n \in Names /\ owner[n] # NoUser /\ ~Maker(u) /\ dir[n] # NoDir
  BY ReaderAt
<1>3. /\ dir'[n] # NoDir /\ dir'[n].manifest = m /\ dir'[n].other = dir[n].other
      /\ \A k \in Names \ {n} : dir'[k] = dir[k]
  BY ManifestPut
<1>4. m # NoFile
  BY Sentinels
<1>5. \A v \in Users : Maker(v)' => Maker(v) /\ v # u /\ proc'[v].at = proc[v].at
  BY DEF Maker, Making, Cleaning
<1>6. \A v \in Users \ {u} : Maker(v) => Maker(v)' /\ proc[v].name # n
  BY <1>1 DEF PInv, Unborn, Writers, Maker, Making, Cleaning
<1>7. Alone'
  BY <1>5 DEF PInv, Alone
<1>8. \A v \in Users \ {u} : Unborn(v)' /\ ReadsOwn(v)'
  <2> SUFFICES ASSUME NEW v \in Users \ {u} PROVE Unborn(v)' /\ ReadsOwn(v)'
    OBVIOUS
  <2>1. Unborn(v)'
    <3>1. /\ Maker(v)' => Maker(v) /\ proc'[v].at = proc[v].at
          /\ proc'[v].name = proc[v].name /\ Unborn(v) /\ owner' = owner
      BY <1>5 DEF PInv
    <3>2. Maker(v) => dir'[proc[v].name] = dir[proc[v].name]
      BY <1>3, <1>6, <3>1 DEF Unborn
    <3> QED BY <3>1, <3>2 DEF Unborn, Maker1
  <2>2. ReadsOwn(v)'
    <3>1. ReadsOwn(v) /\ proc'[v].name = proc[v].name /\ proc'[v].read = proc[v].read
      BY DEF PInv
    <3>2. /\ proc'[v].at # "idle" => proc[v].at # "idle"
          /\ proc'[v].at = "cut" => proc[v].at = "cut"
          /\ Reader(v)' => Reader(v)
      BY <3>1 DEF Reader, Writers
    <3> QED BY <3>1, <3>2 DEF ReadsOwn
  <2> QED BY <2>1, <2>2
<1>9. Unborn(u)'
  BY DEF Unborn
<1>10. Manifested' /\ Foreign'
  BY <1>1, <1>3 DEF PInv, Manifested, Foreign
<1>11. \A k \in Names : Stays(k)'
  <2> SUFFICES ASSUME NEW k \in Names, k # n PROVE Stays(k)'
    OBVIOUS
  <2>1. \A v \in Users : v \in Writers(k)' <=> v \in Writers(k)
    <3>1. u \notin Writers(k) /\ u \notin Writers(k)'
      BY DEF Writers
    <3>2. ASSUME NEW v \in Users \ {u} PROVE v \in Writers(k)' <=> v \in Writers(k)
      BY DEF Writers
    <3> QED BY <3>1, <3>2
  <2>2. Writers(k)' = Writers(k)
    BY <2>1 DEF Writers
  <2> QED BY <1>3, <2>2, SameProject DEF PInv
<1>12. NamesAreFreed'
  <2>1. \A k \in Names : dir[k] # NoDir /\ dir[k].manifest = NoFile =>
            \/ k \in stuck \/ k \in foreign
            \/ \E v \in Users \ {u} : proc[v].name = k /\ Maker(v)
    BY <1>1 DEF PInv, NamesAreFreed, Maker
  <2>2. \A k \in Names : dir'[k] # NoDir /\ dir'[k].manifest = NoFile =>
            \/ k \in stuck \/ k \in foreign
            \/ \E v \in Users : proc'[v].name = k /\ proc'[v].at \in Making \cup Cleaning
    BY <1>3, <1>4, <1>6, <2>1 DEF Maker
  <2>3. \A k \in foreign : dir'[k] # NoDir /\ dir'[k].other
    BY <1>3 DEF PInv, NamesAreFreed, TypeOK
  <2> QED BY <2>2, <2>3 DEF NamesAreFreed
<1> QED BY <1>7, <1>8, <1>9, <1>10, <1>11, <1>12 DEF PInv

-----------------------------------------------------------------------------
LEMMA StartInv ==
    ASSUME PInv, NEW u \in Users, NEW n \in Names,
           NEW at \in {"mkdir", "move", "attach", "image"}, Start(u, n, at)
    PROVE  PInv'
<1>1. /\ proc[u] = Idle /\ proc' = [proc EXCEPT ![u] = [at |-> at, name |-> n, read |-> NoFile, fd |-> NoBody]]
      /\ commands' = commands + 1
      /\ UNCHANGED <<dir, binary, patching, body, faults, owner, stuck, clashed, foreign>>
  BY DEF Start, files
<1>2. PICK p : p = [at |-> at, name |-> n, read |-> NoFile, fd |-> NoBody]
  OBVIOUS
<1>4. p \in Working
  BY <1>2 DEF Working, Stages
<1>5. /\ proc' \in [Users -> Patching \cup Working] /\ proc'[u] = p
      /\ \A v \in Users \ {u} : proc'[v] = proc[v]
  BY <1>1, <1>2, <1>4 DEF PInv, TypeOK
<1>6. TypeOK'
  BY <1>1, <1>5 DEF PInv, TypeOK
<1>7. p.at = at /\ p.name = n /\ p.read = NoFile
  BY <1>2
<1>8. ~Maker(u)' /\ ReadsOwn(u)' /\ ~Maker(u) /\ proc[u].at # "cut" /\ proc'[u].at # "cut"
  BY <1>1, <1>5, <1>7, Sentinels DEF Maker, ReadsOwn, Reader, Making, Cleaning
<1> QED BY <1>1, <1>5, <1>6, <1>8, Quiet

LEMMA KillInv == ASSUME PInv, NEW u \in Users, Kill(u) PROVE PInv'
<1>0. PICK n : n = proc[u].name
  OBVIOUS
<1>1. /\ proc[u].at # "idle" /\ Returns(u) /\ faults' = faults + 1
      /\ stuck' = IF Maker(u) THEN stuck \cup {n} ELSE stuck
      /\ UNCHANGED <<binary, patching, body, commands, owner, foreign>>
  BY <1>0 DEF Kill, Maker
<1>2. /\ proc' \in [Users -> Patching \cup Working] /\ proc'[u] = Idle
      /\ \A v \in Users \ {u} : proc'[v] = proc[v]
  BY <1>1, ReturnsHome DEF PInv
<1>3. n \in Names
  BY <1>0, <1>1 DEF PInv, ReadsOwn
<1>5. ~Maker(u)' /\ ReadsOwn(u)' /\ proc'[u].at # "cut"
  BY <1>2, Sentinels DEF Maker, ReadsOwn, Reader
<1>6. CASE proc[u].at # "cut"
  <2>1. dir' = dir /\ clashed' = clashed
    BY <1>6 DEF Kill
  <2>2. TypeOK'
    BY <1>1, <1>2, <1>3, <2>1 DEF PInv, TypeOK
  <2> QED BY <1>0, <1>1, <1>2, <1>5, <1>6, <2>1, <2>2, Quiet
<1>7. CASE proc[u].at = "cut"
  <2>1. PICK m \in {dir[n].manifest, Garbled} : dir' = Put(n, m)
    BY <1>0, <1>7 DEF Kill, Put
  <2>2. clashed' = clashed \cup {n}
    BY <1>0, <1>7 DEF Kill
  <2>3. Reader(u)
    BY <1>7 DEF PInv, ReadsOwn, Reader
  <2>4. /\ dir[n].manifest \in Manifests \cup {Half, Garbled} /\ owner[n] # NoUser
        /\ ~Maker(u)
    BY <1>0, <2>3, ReaderAt
  <2>5. m \in Manifests \cup {Half, Garbled} /\ m # NoFile
    BY <2>1, <2>4, Sentinels
  <2>6. /\ dir' \in [Names -> Dirs \cup {NoDir}]
        /\ dir'[n] # NoDir /\ dir'[n].work = Tasks /\ dir'[n].manifest = m
    BY <1>0, <1>3, <2>1, <2>3, <2>5, ManifestPut
  <2>7. TypeOK'
    BY <1>1, <1>2, <1>3, <2>2, <2>6 DEF PInv, TypeOK
  <2>8. m \in Manifests => m.by = owner[n]
    BY <1>3, <2>1, <2>4, Sentinels DEF PInv, Stays
  <2>9. Stays(n)'
    BY <1>1, <2>2, <2>5, <2>6, <2>8 DEF Stays
  <2>10. UNCHANGED <<owner, stuck, foreign>> /\ clashed \subseteq clashed'
    BY <1>1, <2>2, <2>4
  <2> QED BY <1>0, <1>2, <1>3, <1>5, <2>1, <2>3, <2>5, <2>7, <2>9, <2>10, Rewritten
<1> QED BY <1>6, <1>7

(* A process returns without having written. *)
LEMMA ReturnInv ==
    ASSUME PInv, NEW u \in Users, Returns(u), ~Maker(u), proc[u].at # "cut",
           UNCHANGED <<dir, body, commands, faults, owner, stuck, clashed, foreign>>,
           binary' \in Inodes, patching' \in Inodes \cup {NoBody}
    PROVE  PInv'
<1>1. /\ proc' \in [Users -> Patching \cup Working] /\ proc'[u] = Idle
      /\ \A v \in Users \ {u} : proc'[v] = proc[v]
  BY ReturnsHome DEF PInv
<1>2. TypeOK'
  BY <1>1 DEF PInv, TypeOK
<1>3. ~Maker(u)' /\ ReadsOwn(u)' /\ proc'[u].at # "cut"
  BY <1>1, Sentinels DEF Maker, ReadsOwn, Reader
<1> QED BY <1>1, <1>2, <1>3, Quiet

-----------------------------------------------------------------------------
LEMMA TakeNameInv == ASSUME PInv, NEW u \in Users, TakeName(u) PROVE PInv'
<1>0. PICK n : n = proc[u].name
  OBVIOUS
<1>1. /\ proc[u].at = "mkdir" /\ n \in Names
      /\ UNCHANGED <<binary, patching, body, commands, faults, owner, stuck, clashed, foreign>>
  BY <1>0 DEF TakeName, PInv, ReadsOwn
<1>2. CASE dir[n] # NoDir
  <2>1. dir' = dir /\ Returns(u)
    BY <1>0, <1>2 DEF TakeName
  <2>2. ~Maker(u) /\ proc[u].at # "cut"
    BY <1>1 DEF Maker, Making, Cleaning
  <2>3. binary' \in Inodes /\ patching' \in Inodes \cup {NoBody}
    BY <1>1 DEF PInv, TypeOK
  <2> QED BY <1>1, <2>1, <2>2, <2>3, ReturnInv
<1>3. CASE dir[n] = NoDir
  <2>1. dir' = [dir EXCEPT ![n] = NewDir] /\ Goes(u, "tasks")
    BY <1>0, <1>3 DEF TakeName
  <2>2. /\ proc' \in [Users -> Patching \cup Working]
        /\ proc'[u] = [at |-> "tasks", name |-> n, read |-> proc[u].read, fd |-> proc[u].fd]
        /\ \A v \in Users \ {u} : proc'[v] = proc[v]
    BY <1>0, <1>1, <2>1, GoesOn DEF PInv, Stages, Making
  <2>3. /\ dir' \in [Names -> Dirs \cup {NoDir}]
        /\ dir'[n] = NewDir /\ \A k \in Names \ {n} : dir'[k] = dir[k]
    BY <1>1, <2>1, Sentinels DEF PInv, TypeOK
  <2>4. TypeOK'
    BY <1>1, <2>2, <2>3 DEF PInv, TypeOK
  <2>5. owner[n] = NoUser /\ n \notin foreign
    BY <1>1, <1>3 DEF PInv, Stays, Foreign
  <2>6. \A v \in Users : Maker(v) => proc[v].name # n
    BY <1>3 DEF PInv, Unborn
  <2>7. proc'[u].at = "tasks" /\ proc'[u].name = n
    BY <2>2
  <2>8. Alone'
    BY <2>2, <2>6, <2>7 DEF PInv, Alone, Maker
  <2>9. \A v \in Users \ {u} : Unborn(v)' /\ ReadsOwn(v)'
    <3> SUFFICES ASSUME NEW v \in Users \ {u} PROVE Unborn(v)' /\ ReadsOwn(v)'
      OBVIOUS
    <3>1. /\ proc'[v] = proc[v] /\ Unborn(v) /\ ReadsOwn(v) /\ owner' = owner
          /\ clashed' = clashed
      BY <1>1, <2>2 DEF PInv
    <3>2. Maker(v) => dir'[proc[v].name] = dir[proc[v].name]
      BY <2>3, <2>6, <3>1 DEF Unborn
    <3>3. Unborn(v)'
      BY <3>1, <3>2 DEF Unborn, Maker, Maker1
    <3>4. ReadsOwn(v)'
      BY <3>1 DEF ReadsOwn, Reader
    <3> QED BY <3>3, <3>4
  <2>10. NewDir.manifest = NoFile /\ NewDir.other = FALSE
    BY DEF NewDir
  <2>11. Unborn(u)'
    BY <1>1, <2>3, <2>5, <2>7, <2>10, Sentinels DEF Unborn, Maker1
  <2>12. ReadsOwn(u)'
    BY <1>1, <2>7 DEF ReadsOwn, Reader
  <2>13. Manifested' /\ Foreign'
    BY <1>1, <1>3, <2>3, <2>5, <2>10 DEF PInv, Manifested, Foreign
  <2>14. \A k \in Names : Stays(k)'
    <3> SUFFICES ASSUME NEW k \in Names PROVE Stays(k)'
      OBVIOUS
    <3>1. CASE k = n
      BY <1>1, <2>5, <3>1 DEF Stays
    <3>2. CASE k # n
      <4>1. proc[u].at # "cut" /\ proc'[u].at # "cut"
        BY <1>1, <2>7
      <4>2. Writers(k)' = Writers(k)
        BY <2>2, <4>1, SameWriters
      <4> QED BY <1>1, <2>3, <3>2, <4>2, SameProject DEF PInv
    <3> QED BY <3>1, <3>2
  <2>15. NamesAreFreed'
    <3>1. \A k \in Names \ {n} : dir[k] # NoDir /\ dir[k].manifest = NoFile =>
              \/ k \in stuck \/ k \in foreign
              \/ \E v \in Users \ {u} : proc[v].name = k /\ proc[v].at \in Making \cup Cleaning
      BY <1>0 DEF PInv, NamesAreFreed
    <3>2. proc'[u].name = n /\ proc'[u].at \in Making \cup Cleaning
      BY <2>7 DEF Making
    <3>3. \A k \in Names : dir'[k] # NoDir /\ dir'[k].manifest = NoFile =>
              \/ k \in stuck \/ k \in foreign
              \/ \E v \in Users : proc'[v].name = k /\ proc'[v].at \in Making \cup Cleaning
      BY <2>2, <2>3, <3>1, <3>2
    <3>4. \A k \in foreign : dir'[k] # NoDir /\ dir'[k].other
      BY <2>3, <2>5 DEF PInv, NamesAreFreed, TypeOK
    <3> QED BY <1>1, <3>3, <3>4 DEF NamesAreFreed
  <2> QED BY <2>4, <2>8, <2>9, <2>11, <2>12, <2>13, <2>14, <2>15 DEF PInv
<1> QED BY <1>2, <1>3

(* A step inside the directory, described by the directory it leaves.          *)
LEMMA InsideAt ==
    ASSUME PInv, NEW u \in Users, Maker(u), NEW d \in Dirs,
           NEW at \in Making \cup Cleaning, Goes(u, at) \/ (at = proc[u].at /\ proc' = proc),
           dir' = [dir EXCEPT ![proc[u].name] = d],
           d.manifest = NoFile, d.other = dir[proc[u].name].other,
           UNCHANGED <<binary, patching, body, commands, owner, stuck, clashed, foreign>>,
           faults' \in Nat,
           at \in {"tmp", "text", "rename"} => d.work = Tasks,
           at = "rename" => d.tmp = [by |-> u, binary |-> "first", patches |-> {}],
           at \in {"untmp", "undir"} => d.work = {},
           at = "undir" => d.tmp = NoFile
    PROVE  PInv'
<1>1. proc[u].at \notin {"write", "swap"} /\ at \in Stages \ {"write", "swap"}
  BY DEF Maker, Making, Cleaning, Stages
<1>3. /\ proc' \in [Users -> Patching \cup Working]
      /\ proc'[u].at = at /\ proc'[u].name = proc[u].name
      /\ \A v \in Users \ {u} : proc'[v] = proc[v]
  <2>1. CASE Goes(u, at)
    <3>1. TypeOK
      BY DEF PInv
    <3>2. /\ proc' \in [Users -> Patching \cup Working]
          /\ proc'[u] = [at |-> at, name |-> proc[u].name, read |-> proc[u].read,
                         fd |-> proc[u].fd]
          /\ \A v \in Users \ {u} : proc'[v] = proc[v]
      BY <1>1, <2>1, <3>1, GoesOn
    <3>3. proc'[u].at = at /\ proc'[u].name = proc[u].name
      BY <3>2
    <3> QED BY <3>2, <3>3
  <2>2. CASE at = proc[u].at /\ proc' = proc
    BY <2>2 DEF PInv, TypeOK
  <2> QED BY <2>1, <2>2
<1>4. proc[u].name \in Names
  BY DEF PInv, Unborn
<1>5. TypeOK'
  BY <1>3, <1>4 DEF PInv, TypeOK
<1>6. Maker(u)'
  BY <1>3 DEF Maker
<1>7. Maker1(u)' => d.work = Tasks
  BY <1>3 DEF Maker1
<1> QED BY <1>3, <1>5, <1>6, <1>7, Inside

LEMMA InDirectory ==
    ASSUME PInv, NEW u \in Users, Maker(u)
    PROVE  LET n == proc[u].name
               d == dir[n]
           IN  /\ n \in Names /\ d \in Dirs /\ d.manifest = NoFile /\ dir[n] # NoDir
               /\ d = [manifest |-> NoFile, tmp |-> d.tmp, work |-> d.work, other |-> d.other]
               /\ d.tmp \in Manifests \cup {NoFile, Half} /\ d.work \subseteq Tasks
               /\ d.other \in BOOLEAN
               /\ dir \in [Names -> Dirs \cup {NoDir}]
<1> DEFINE n == proc[u].name
<1>1. n \in Names /\ dir[n] # NoDir /\ dir[n].manifest = NoFile
  BY DEF PInv, Unborn
<1>2. dir \in [Names -> Dirs \cup {NoDir}] /\ dir[n] \in Dirs
  BY <1>1 DEF PInv, TypeOK
<1> QED BY <1>1, <1>2 DEF Dirs

LEMMA WriteTaskInv == ASSUME PInv, NEW u \in Users, WriteTask(u) PROVE PInv'
<1>0. PICK n : n = proc[u].name
  OBVIOUS
<1>1. /\ proc[u].at = "tasks"
      /\ UNCHANGED <<binary, patching, body, commands, faults, owner, stuck, clashed, foreign>>
  BY DEF WriteTask
<1>2. Maker(u)
  BY <1>1 DEF Maker, Making
<1>3. /\ n \in Names /\ dir[n] \in Dirs /\ dir[n].manifest = NoFile
      /\ dir[n].work \subseteq Tasks /\ dir \in [Names -> Dirs \cup {NoDir}]
      /\ dir[n] = [manifest |-> NoFile, tmp |-> dir[n].tmp, work |-> dir[n].work,
                   other |-> dir[n].other]
  BY <1>0, <1>2, InDirectory
<1>4. faults' \in Nat
  BY <1>1 DEF PInv, TypeOK
<1>5. CASE dir[n].work = Tasks
  <2>1. Goes(u, "tmp") /\ dir' = dir
    BY <1>0, <1>5 DEF WriteTask
  <2>2. dir' = [dir EXCEPT ![proc[u].name] = dir[n]]
    BY <1>0, <1>3, <2>1
  <2>3. "tmp" \in Making \cup Cleaning
    BY DEF Making
  <2> QED BY <1>0, <1>1, <1>2, <1>3, <1>4, <1>5, <2>1, <2>2, <2>3, InsideAt
<1>6. CASE dir[n].work # Tasks
  <2>1. PICK t \in Tasks : dir' = [dir EXCEPT ![n].work = @ \cup {t}]
    BY <1>0, <1>6 DEF WriteTask
  <2>2. proc' = proc
    BY <1>0, <1>6 DEF WriteTask
  <2>3. PICK d : d = [manifest |-> NoFile, tmp |-> dir[n].tmp, work |-> dir[n].work \cup {t},
                      other |-> dir[n].other]
    OBVIOUS
  <2>4. dir' = [dir EXCEPT ![n] = [dir[n] EXCEPT !.work = dir[n].work \cup {t}]]
    BY <1>3, <2>1
  <2>5. [dir[n] EXCEPT !.work = dir[n].work \cup {t}]
            = [manifest |-> NoFile, tmp |-> dir[n].tmp, work |-> dir[n].work \cup {t},
               other |-> dir[n].other]
    BY <1>3
  <2>6. d \in Dirs /\ d.manifest = NoFile /\ d.other = dir[n].other
    BY <1>3, <2>3 DEF Dirs
  <2>7. dir' = [dir EXCEPT ![proc[u].name] = d]
    BY <1>0, <2>3, <2>4, <2>5
  <2>8. "tasks" \in Making \cup Cleaning
    BY DEF Making
  <2> QED BY <1>0, <1>1, <1>2, <1>4, <2>2, <2>6, <2>7, <2>8, InsideAt
<1> QED BY <1>5, <1>6

LEMMA WriteManifestInv == ASSUME PInv, NEW u \in Users, WriteManifest(u) PROVE PInv'
<1>0. PICK n : n = proc[u].name
  OBVIOUS
<1>1. /\ proc[u].at \in {"tmp", "text"}
      /\ UNCHANGED <<binary, patching, body, commands, faults, owner, stuck, clashed, foreign>>
  BY DEF WriteManifest
<1>2. Maker(u)
  BY <1>1 DEF Maker, Making
<1>3. /\ n \in Names /\ dir[n] \in Dirs /\ dir[n].manifest = NoFile
      /\ dir[n].work \subseteq Tasks /\ dir \in [Names -> Dirs \cup {NoDir}]
      /\ dir[n] = [manifest |-> NoFile, tmp |-> dir[n].tmp, work |-> dir[n].work,
                   other |-> dir[n].other]
  BY <1>0, <1>2, InDirectory
<1>4. faults' \in Nat
  BY <1>1 DEF PInv, TypeOK
<1>5. dir[n].work = Tasks
  BY <1>0, <1>1, <1>2 DEF PInv, Unborn, Maker1
<1>6. PICK text : text = IF proc[u].at = "tmp" THEN Half
                         ELSE [by |-> u, binary |-> "first", patches |-> {}]
  OBVIOUS
<1>7. PICK at : at = IF proc[u].at = "tmp" THEN "text" ELSE "rename"
  OBVIOUS
<1>8. Goes(u, at) /\ dir' = [dir EXCEPT ![n].tmp = text]
  BY <1>0, <1>6, <1>7 DEF WriteManifest
<1>9. text \in Manifests \cup {Half}
  BY <1>6 DEF Manifests
<1>10. at = "rename" => text = [by |-> u, binary |-> "first", patches |-> {}]
  BY <1>6, <1>7
<1>11. at \in {"text", "rename"}
  BY <1>7
<1>12. PICK d : d = [manifest |-> NoFile, tmp |-> text, work |-> dir[n].work, other |-> dir[n].other]
  OBVIOUS
<1>13. dir' = [dir EXCEPT ![n] = [dir[n] EXCEPT !.tmp = text]]
  BY <1>3, <1>8
<1>14. [dir[n] EXCEPT !.tmp = text]
          = [manifest |-> NoFile, tmp |-> text, work |-> dir[n].work, other |-> dir[n].other]
  BY <1>3
<1>15. /\ d \in Dirs /\ d.manifest = NoFile /\ d.other = dir[n].other
       /\ d.work = dir[n].work /\ d.tmp = text
  BY <1>3, <1>9, <1>12 DEF Dirs
<1>16. dir' = [dir EXCEPT ![proc[u].name] = d]
  BY <1>0, <1>12, <1>13, <1>14
<1>17. at \in Making \cup Cleaning /\ at \notin {"untmp", "undir"}
  BY <1>11 DEF Making
<1> QED BY <1>0, <1>1, <1>2, <1>4, <1>5, <1>8, <1>10, <1>15, <1>16, <1>17, InsideAt

LEMMA FailInv == ASSUME PInv, NEW u \in Users, Fail(u) PROVE PInv'
<1>1. /\ proc[u].at \in Making /\ Goes(u, "unwork") /\ faults' = faults + 1
      /\ UNCHANGED <<dir, binary, patching, body, commands, owner, stuck, clashed, foreign>>
  BY DEF Fail, files
<1>2. Maker(u)
  BY <1>1 DEF Maker
<1>3. PICK d : d = dir[proc[u].name]
  OBVIOUS
<1>4. d \in Dirs /\ d.manifest = NoFile /\ dir \in [Names -> Dirs \cup {NoDir}]
  BY <1>2, <1>3, InDirectory
<1>5. dir' = [dir EXCEPT ![proc[u].name] = d]
  BY <1>1, <1>3, <1>4
<1>6. faults' \in Nat
  BY <1>1 DEF PInv, TypeOK
<1>7. "unwork" \in Making \cup Cleaning
  BY DEF Cleaning
<1> QED BY <1>1, <1>2, <1>3, <1>4, <1>5, <1>6, <1>7, InsideAt

LEMMA RemoveWorkInv == ASSUME PInv, NEW u \in Users, RemoveWork(u) PROVE PInv'
<1>0. PICK n : n = proc[u].name
  OBVIOUS
<1>1. /\ proc[u].at = "unwork" /\ Goes(u, "untmp") /\ dir' = [dir EXCEPT ![n].work = {}]
      /\ UNCHANGED <<binary, patching, body, commands, faults, owner, stuck, clashed, foreign>>
  BY <1>0 DEF RemoveWork
<1>2. Maker(u)
  BY <1>1 DEF Maker, Cleaning
<1>3. /\ n \in Names /\ dir \in [Names -> Dirs \cup {NoDir}]
      /\ dir[n] = [manifest |-> NoFile, tmp |-> dir[n].tmp, work |-> dir[n].work,
                   other |-> dir[n].other]
      /\ dir[n].tmp \in Manifests \cup {NoFile, Half} /\ dir[n].other \in BOOLEAN
  BY <1>0, <1>2, InDirectory
<1>4. PICK d : d = [manifest |-> NoFile, tmp |-> dir[n].tmp, work |-> {}, other |-> dir[n].other]
  OBVIOUS
<1>5. dir' = [dir EXCEPT ![n] = [dir[n] EXCEPT !.work = {}]]
  BY <1>1, <1>3
<1>6. [dir[n] EXCEPT !.work = {}]
         = [manifest |-> NoFile, tmp |-> dir[n].tmp, work |-> {}, other |-> dir[n].other]
  BY <1>3
<1>7. /\ d \in Dirs /\ d.manifest = NoFile /\ d.other = dir[n].other /\ d.work = {}
  BY <1>3, <1>4 DEF Dirs
<1>8. dir' = [dir EXCEPT ![proc[u].name] = d]
  BY <1>0, <1>4, <1>5, <1>6
<1>9. faults' \in Nat /\ "untmp" \in Making \cup Cleaning
  BY <1>1 DEF PInv, TypeOK, Cleaning
<1> QED BY <1>0, <1>1, <1>2, <1>7, <1>8, <1>9, InsideAt

LEMMA RemoveTmpInv == ASSUME PInv, NEW u \in Users, RemoveTmp(u) PROVE PInv'
<1>0. PICK n : n = proc[u].name
  OBVIOUS
<1>1. /\ proc[u].at = "untmp" /\ Goes(u, "undir") /\ dir' = [dir EXCEPT ![n].tmp = NoFile]
      /\ UNCHANGED <<binary, patching, body, commands, faults, owner, stuck, clashed, foreign>>
  BY <1>0 DEF RemoveTmp
<1>2. Maker(u)
  BY <1>1 DEF Maker, Cleaning
<1>3. /\ n \in Names /\ dir \in [Names -> Dirs \cup {NoDir}]
      /\ dir[n] = [manifest |-> NoFile, tmp |-> dir[n].tmp, work |-> dir[n].work,
                   other |-> dir[n].other]
      /\ dir[n].work \subseteq Tasks /\ dir[n].other \in BOOLEAN
  BY <1>0, <1>2, InDirectory
<1>4. dir[n].work = {}
  BY <1>0, <1>1, <1>2 DEF PInv, Unborn
<1>5. PICK d : d = [manifest |-> NoFile, tmp |-> NoFile, work |-> dir[n].work, other |-> dir[n].other]
  OBVIOUS
<1>6. dir' = [dir EXCEPT ![n] = [dir[n] EXCEPT !.tmp = NoFile]]
  BY <1>1, <1>3
<1>7. [dir[n] EXCEPT !.tmp = NoFile]
         = [manifest |-> NoFile, tmp |-> NoFile, work |-> dir[n].work, other |-> dir[n].other]
  BY <1>3
<1>8. /\ d \in Dirs /\ d.manifest = NoFile /\ d.other = dir[n].other
      /\ d.work = dir[n].work /\ d.tmp = NoFile
  BY <1>3, <1>5 DEF Dirs
<1>9. dir' = [dir EXCEPT ![proc[u].name] = d]
  BY <1>0, <1>5, <1>6, <1>7
<1>10. faults' \in Nat /\ "undir" \in Making \cup Cleaning
  BY <1>1 DEF PInv, TypeOK, Cleaning
<1> QED BY <1>0, <1>1, <1>2, <1>4, <1>8, <1>9, <1>10, InsideAt

-----------------------------------------------------------------------------
(* The end of a create: the directory has its manifest and its owner, or is    *)
(* gone, or keeps what somebody else put there.                                *)
Ends(u, d, o) ==
    /\ d \in Dirs \cup {NoDir} /\ o \in Users \cup {NoUser}
    /\ dir' = [dir EXCEPT ![proc[u].name] = d] /\ owner' = [owner EXCEPT ![proc[u].name] = o]
    /\ UNCHANGED <<binary, patching, body, commands, faults, stuck, clashed, foreign>>
    /\ IF d = NoDir THEN ~dir[proc[u].name].other ELSE d.other = dir[proc[u].name].other
    /\ IF o = NoUser
       THEN d # NoDir => d.manifest = NoFile /\ proc[u].name \in foreign
       ELSE d # NoDir /\ d.work = Tasks /\ d.manifest \in Manifests /\ d.manifest.by = o

LEMMA EndMaking ==
    ASSUME PInv, NEW u \in Users, Maker(u), Returns(u), NEW d, NEW o, Ends(u, d, o)
    PROVE  PInv'
<1>0. PICK n : n = proc[u].name
  OBVIOUS
<1>e. /\ d \in Dirs \cup {NoDir} /\ o \in Users \cup {NoUser}
      /\ dir' = [dir EXCEPT ![n] = d] /\ owner' = [owner EXCEPT ![n] = o]
      /\ UNCHANGED <<binary, patching, body, commands, faults, stuck, clashed, foreign>>
      /\ d # NoDir => d.other = dir[n].other
      /\ d = NoDir => ~dir[n].other
      /\ o = NoUser /\ d # NoDir => d.manifest = NoFile /\ n \in foreign
      /\ o # NoUser => d # NoDir /\ d.work = Tasks /\ d.manifest \in Manifests /\ d.manifest.by = o
  BY <1>0 DEF Ends
<1>1. n \in Names /\ dir[n] # NoDir /\ dir[n].manifest = NoFile /\ owner[n] = NoUser
  BY <1>0 DEF PInv, Unborn
<1>2. /\ proc' \in [Users -> Patching \cup Working] /\ proc'[u] = Idle
      /\ \A v \in Users \ {u} : proc'[v] = proc[v]
  BY ReturnsHome DEF PInv
<1>3. /\ dir' \in [Names -> Dirs \cup {NoDir}] /\ dir'[n] = d
      /\ \A k \in Names \ {n} : dir'[k] = dir[k]
      /\ owner' \in [Names -> Users \cup {NoUser}] /\ owner'[n] = o
      /\ \A k \in Names \ {n} : owner'[k] = owner[k]
  BY <1>e, <1>1 DEF PInv, TypeOK
<1>4. TypeOK'
  BY <1>e, <1>2, <1>3 DEF PInv, TypeOK
<1>5. ~Maker(u)' /\ ReadsOwn(u)' /\ Unborn(u)'
  BY <1>e, <1>2, Sentinels DEF Maker, ReadsOwn, Reader, Unborn
<1>6. Alone'
  BY <1>2, <1>5 DEF PInv, Alone, Maker
<1>7. \A v \in Users \ {u} : Unborn(v)' /\ ReadsOwn(v)'
  <2> SUFFICES ASSUME NEW v \in Users \ {u} PROVE Unborn(v)' /\ ReadsOwn(v)'
    OBVIOUS
  <2>1. proc'[v] = proc[v] /\ Unborn(v) /\ ReadsOwn(v)
    BY <1>2 DEF PInv
  <2>2. Maker(v) => proc[v].name # n
    BY <1>0 DEF PInv, Alone
  <2>3. Maker(v) => dir'[proc[v].name] = dir[proc[v].name] /\ owner'[proc[v].name] = owner[proc[v].name]
    BY <1>3, <2>1, <2>2 DEF Unborn
  <2>4. Unborn(v)'
    BY <2>1, <2>3 DEF Unborn, Maker, Maker1
  <2>5. Reader(v) => proc[v].name \in Names \ {n}
    BY <1>1, <2>1 DEF ReadsOwn, Reader
  <2>6. Reader(v) => owner'[proc[v].name] = owner[proc[v].name]
    BY <1>3, <2>5
  <2>7. ReadsOwn(v)'
    BY <1>e, <2>1, <2>6 DEF ReadsOwn, Reader
  <2> QED BY <2>4, <2>7
<1>8. Manifested'
  BY <1>e, <1>3 DEF PInv, Manifested
<1>9. Foreign'
  <2>1. n \in foreign <=> (d # NoDir /\ d.other)
    BY <1>e, <1>1 DEF PInv, Foreign
  <2>2. \A k \in Names \ {n} : k \in foreign <=> (dir'[k] # NoDir /\ dir'[k].other)
    BY <1>3 DEF PInv, Foreign
  <2> QED BY <1>e, <1>3, <2>1, <2>2 DEF Foreign
<1>10. \A k \in Names : Stays(k)'
  <2> SUFFICES ASSUME NEW k \in Names PROVE Stays(k)'
    OBVIOUS
  <2>1. CASE k = n
    <3>1. Writers(n) = {}
      BY <1>1 DEF PInv, ReadsOwn, Reader, Writers
    <3>2. Writers(n)' = {}
      BY <1>2, <3>1, Sentinels DEF Writers
    <3> QED BY <1>e, <1>3, <2>1, <3>2, Sentinels DEF Stays
  <2>2. CASE k # n
    <3>1. proc[u].at # "cut" /\ proc'[u].at # "cut"
      BY <1>2, Sentinels DEF Maker, Making, Cleaning
    <3>2. Writers(k)' = Writers(k)
      BY <1>2, <3>1, SameWriters
    <3> QED BY <1>e, <1>3, <2>2, <3>2, SameProject DEF PInv
  <2> QED BY <2>1, <2>2
<1>11. NamesAreFreed'
  <2>1. \A k \in Names \ {n} : dir[k] # NoDir /\ dir[k].manifest = NoFile =>
            \/ k \in stuck \/ k \in foreign
            \/ \E v \in Users \ {u} : proc[v].name = k /\ proc[v].at \in Making \cup Cleaning
    BY <1>0 DEF PInv, NamesAreFreed
  <2>2. d # NoDir /\ d.manifest = NoFile => n \in stuck \/ n \in foreign
    BY <1>e, Sentinels
  <2>3. \A k \in Names : dir'[k] # NoDir /\ dir'[k].manifest = NoFile =>
            \/ k \in stuck \/ k \in foreign
            \/ \E v \in Users : proc'[v].name = k /\ proc'[v].at \in Making \cup Cleaning
    BY <1>e, <1>2, <1>3, <2>1, <2>2
  <2>4. \A k \in foreign : dir'[k] # NoDir /\ dir'[k].other
    BY <1>e, <1>9 DEF Foreign, PInv, TypeOK
  <2> QED BY <1>e, <2>3, <2>4 DEF NamesAreFreed
<1> QED BY <1>4, <1>5, <1>6, <1>7, <1>8, <1>9, <1>10, <1>11 DEF PInv

LEMMA PublishInv == ASSUME PInv, NEW u \in Users, Publish(u) PROVE PInv'
<1>0. PICK n : n = proc[u].name
  OBVIOUS
<1>1. /\ proc[u].at = "rename" /\ Returns(u) /\ owner' = [owner EXCEPT ![n] = u]
      /\ dir' = [dir EXCEPT ![n].manifest = dir[n].tmp, ![n].tmp = NoFile]
      /\ UNCHANGED <<binary, patching, body, commands, faults, stuck, clashed, foreign>>
  BY <1>0 DEF Publish
<1>2. Maker(u)
  BY <1>1 DEF Maker, Making
<1>3. /\ n \in Names /\ dir \in [Names -> Dirs \cup {NoDir}]
      /\ dir[n] = [manifest |-> NoFile, tmp |-> dir[n].tmp, work |-> dir[n].work,
                   other |-> dir[n].other]
      /\ dir[n].other \in BOOLEAN
  BY <1>0, <1>2, InDirectory
<1>4. dir[n].work = Tasks /\ dir[n].tmp = [by |-> u, binary |-> "first", patches |-> {}]
  BY <1>0, <1>1, <1>2 DEF PInv, Unborn, Maker1
<1>5. dir[n].tmp \in Manifests /\ dir[n].tmp.by = u
  BY <1>4 DEF Manifests
<1>6. PICK d : d = [manifest |-> dir[n].tmp, tmp |-> NoFile, work |-> dir[n].work,
                    other |-> dir[n].other]
  OBVIOUS
<1>7. dir' = [dir EXCEPT ![n] = [[dir[n] EXCEPT !.manifest = dir[n].tmp] EXCEPT !.tmp = NoFile]]
  BY <1>1, <1>3
<1>8. [[dir[n] EXCEPT !.manifest = dir[n].tmp] EXCEPT !.tmp = NoFile]
         = [manifest |-> dir[n].tmp, tmp |-> NoFile, work |-> dir[n].work, other |-> dir[n].other]
  <2>1. PICK e : e = [manifest |-> dir[n].tmp, tmp |-> dir[n].tmp, work |-> dir[n].work,
                      other |-> dir[n].other]
    OBVIOUS
  <2>2. [dir[n] EXCEPT !.manifest = dir[n].tmp]
           = [manifest |-> dir[n].tmp, tmp |-> dir[n].tmp, work |-> dir[n].work,
              other |-> dir[n].other]
    BY <1>3
  <2>3. [e EXCEPT !.tmp = NoFile]
           = [manifest |-> dir[n].tmp, tmp |-> NoFile, work |-> dir[n].work, other |-> dir[n].other]
    BY <2>1
  <2> QED BY <2>1, <2>2, <2>3
<1>9. dir' = [dir EXCEPT ![n] = d]
  BY <1>6, <1>7, <1>8
<1>10. /\ d \in Dirs /\ d.manifest = dir[n].tmp /\ d.other = dir[n].other /\ d.work = Tasks
  BY <1>3, <1>4, <1>5, <1>6 DEF Dirs
<1>11. u \in Users \cup {NoUser} /\ u # NoUser /\ d \in Dirs \cup {NoDir} /\ d # NoDir
  BY <1>10, Sentinels
<1>12. UNCHANGED <<binary, patching, body, commands, faults, stuck, clashed, foreign>>
  BY <1>1
<1>13. d.manifest \in Manifests /\ d.manifest.by = u
  BY <1>5, <1>10
<1>14. Ends(u, d, u)
  BY <1>0, <1>1, <1>9, <1>10, <1>11, <1>12, <1>13 DEF Ends
<1> QED BY <1>1, <1>2, <1>14, EndMaking

LEMMA RemoveDirInv == ASSUME PInv, NEW u \in Users, RemoveDir(u) PROVE PInv'
<1>0. PICK n : n = proc[u].name
  OBVIOUS
<1>1. /\ proc[u].at = "undir" /\ Returns(u)
      /\ dir' = [dir EXCEPT ![n] =
             IF dir[n].manifest = NoFile /\ dir[n].tmp = NoFile /\ dir[n].work = {} /\ ~dir[n].other
             THEN NoDir ELSE dir[n]]
      /\ UNCHANGED <<binary, patching, body, commands, faults, owner, stuck, clashed, foreign>>
  BY <1>0 DEF RemoveDir
<1>2. Maker(u)
  BY <1>1 DEF Maker, Cleaning
<1>3. n \in Names /\ dir[n] \in Dirs /\ dir[n] # NoDir /\ dir[n].manifest = NoFile
  BY <1>0, <1>2, InDirectory
<1>4. dir[n].work = {} /\ dir[n].tmp = NoFile /\ owner[n] = NoUser
  BY <1>0, <1>1, <1>2 DEF PInv, Unborn
<1>5. PICK d : d = IF dir[n].other THEN dir[n] ELSE NoDir
  OBVIOUS
<1>6. dir' = [dir EXCEPT ![n] = d]
  BY <1>1, <1>3, <1>4, <1>5
<1>7. owner' = [owner EXCEPT ![n] = NoUser]
  BY <1>1, <1>3, <1>4 DEF PInv, TypeOK
<1>8. d \in Dirs \cup {NoDir} /\ (d # NoDir => d = dir[n] /\ n \in foreign) /\ (d = NoDir => ~dir[n].other)
  BY <1>3, <1>5 DEF PInv, Foreign
<1>9. d # NoDir => d.other = dir[n].other /\ d.manifest = NoFile
  BY <1>3, <1>8
<1>10. UNCHANGED <<binary, patching, body, commands, faults, stuck, clashed, foreign>>
  BY <1>1
<1>11. NoUser \in Users \cup {NoUser}
  OBVIOUS
<1>12. Ends(u, d, NoUser)
  BY <1>0, <1>6, <1>7, <1>8, <1>9, <1>10, <1>11 DEF Ends
<1> QED BY <1>1, <1>2, <1>12, EndMaking
-----------------------------------------------------------------------------
(* relocate and project add. *)
LEMMA Reading ==
    ASSUME TypeOK, NEW u \in Users, NEW at \in {"move", "attach"}, proc[u].at = at,
           NEW m \in Manifests \cup {Garbled}, proc' = [proc EXCEPT ![u].read = m, ![u].at = at]
    PROVE  /\ proc' \in [Users -> Patching \cup Working]
           /\ proc'[u] = [at |-> at, name |-> proc[u].name, read |-> m, fd |-> proc[u].fd]
           /\ \A v \in Users \ {u} : proc'[v] = proc[v]
<1>1. /\ proc[u] = [at |-> at, name |-> proc[u].name, read |-> proc[u].read, fd |-> proc[u].fd]
      /\ proc[u] \in Working
  BY Workers
<1>2. PICK p : p = [at |-> at, name |-> proc[u].name, read |-> m, fd |-> proc[u].fd]
  OBVIOUS
<1>3. p \in Working
  BY <1>1, <1>2 DEF Working, Stages
<1>4. proc \in [Users -> Patching \cup Working]
  BY DEF TypeOK
<1>5. [proc[u] EXCEPT !.read = m] = p
  BY <1>1, <1>2
<1>6. [p EXCEPT !.at = at] = p
  BY <1>2
<1>7. proc' = [proc EXCEPT ![u] = [[proc[u] EXCEPT !.read = m] EXCEPT !.at = at]]
  BY <1>4
<1>8. proc' = [proc EXCEPT ![u] = p]
  BY <1>5, <1>6, <1>7
<1> QED BY <1>2, <1>3, <1>4, <1>8

LEMMA ReadManifestInv ==
    ASSUME PInv, NEW u \in Users, NEW at \in {"move", "attach"}, ReadManifest(u, at, at)
    PROVE  PInv'
<1>0. PICK n : n = proc[u].name
  OBVIOUS
<1>1. PICK m : m = Manifest(n)
  OBVIOUS
<1>2. /\ proc[u].at = at
      /\ UNCHANGED <<dir, binary, patching, body, commands, faults, owner, stuck, clashed, foreign>>
  BY DEF ReadManifest, files
<1>3. n \in Names /\ ~Maker(u)
  BY <1>0, <1>2 DEF PInv, ReadsOwn, Maker, Making, Cleaning
<1>4. CASE Returns(u)
  BY <1>2, <1>3, <1>4, ReturnInv DEF PInv, TypeOK
<1>5. CASE m \notin {NoFile, Half} /\ proc' = [proc EXCEPT ![u].read = m, ![u].at = at]
  <2>1. dir[n] # NoDir /\ m = dir[n].manifest
    BY <1>1, <1>5 DEF Manifest
  <2>2. m \in Manifests \cup {Garbled}
    BY <1>3, <1>5, <2>1 DEF PInv, TypeOK, Dirs
  <2>3. owner[n] # NoUser /\ ((m \in Manifests /\ m.by = owner[n]) \/ (m = Garbled /\ n \in clashed))
    BY <1>3, <1>5, <2>1, <2>2 DEF PInv, Manifested, Stays
  <2>4. /\ proc' \in [Users -> Patching \cup Working]
        /\ proc'[u] = [at |-> at, name |-> proc[u].name, read |-> m, fd |-> proc[u].fd]
        /\ \A v \in Users \ {u} : proc'[v] = proc[v]
    BY <1>2, <1>5, <2>2, Reading DEF PInv
  <2>5. TypeOK'
    BY <1>2, <2>4 DEF PInv, TypeOK
  <2>6. proc'[u].at = at /\ proc'[u].name = n /\ proc'[u].read = m
    BY <1>0, <2>4
  <2>7. ~Maker(u)' /\ ReadsOwn(u)' /\ proc[u].at # "cut" /\ proc'[u].at # "cut"
    BY <1>2, <1>3, <2>3, <2>6 DEF Maker, Making, Cleaning, ReadsOwn, Reader
  <2> QED BY <1>2, <1>3, <2>4, <2>5, <2>7, Quiet
<1> QED BY <1>0, <1>1, <1>4, <1>5 DEF ReadManifest

(* What relocate and add make of a manifest is still the owner's. *)
LEMMA StillOwned ==
    ASSUME NEW m \in Manifests \cup {Garbled}, NEW u \in Users
    PROVE  /\ Moved(m) \in Manifests \cup {Garbled} /\ Extended(m, u) \in Manifests \cup {Garbled}
           /\ m = Garbled => Moved(m) = Garbled /\ Extended(m, u) = Garbled
           /\ m \in Manifests =>
                /\ Moved(m) \in Manifests /\ Moved(m).by = m.by
                /\ Extended(m, u) \in Manifests /\ Extended(m, u).by = m.by
<1>1. CASE m = Garbled
  BY <1>1, Sentinels DEF Moved, Extended
<1>2. CASE m \in Manifests
  <2>1. m # Garbled
    BY <1>2, Sentinels
  <2>2. [m EXCEPT !.binary = "moved"] \in Manifests /\ [m EXCEPT !.binary = "moved"].by = m.by
    BY <1>2 DEF Manifests
  <2>3. /\ [m EXCEPT !.patches = @ \cup {u}] \in Manifests
        /\ [m EXCEPT !.patches = @ \cup {u}].by = m.by
    BY <1>2 DEF Manifests
  <2> QED BY <2>1, <2>2, <2>3 DEF Moved, Extended
<1> QED BY <1>1, <1>2

LEMMA RelocateInv == ASSUME PInv, NEW u \in Users, Relocate(u) PROVE PInv'
<1>0. PICK n : n = proc[u].name
  OBVIOUS
<1>1. PICK m : m = Moved(proc[u].read)
  OBVIOUS
<1>2. /\ proc[u].at = "move" /\ proc[u].read # NoFile
      /\ dir' = Put(n, m)
      /\ proc' = [w \in Users |-> IF w = u THEN Idle
                                 ELSE IF w \in Writers(n) THEN [proc[w] EXCEPT !.at = "astray"]
                                 ELSE proc[w]]
      /\ UNCHANGED <<binary, patching, body, commands, faults, owner, stuck, clashed, foreign>>
  BY <1>0, <1>1 DEF Relocate, Put
<1>3. Reader(u)
  BY <1>2 DEF Reader
<1>4. /\ n \in Names /\ proc[u].read \in Manifests \cup {Garbled} /\ owner[n] # NoUser
  BY <1>0, <1>3, ReaderAt
<1>5. /\ m \in Manifests \cup {Garbled}
      /\ m \in Manifests => m.by = owner[n]
      /\ m = Garbled => n \in clashed
  BY <1>0, <1>1, <1>3, <1>4, StillOwned, Sentinels DEF PInv, ReadsOwn
<1>6. /\ dir' \in [Names -> Dirs \cup {NoDir}]
      /\ dir'[n] # NoDir /\ dir'[n].work = Tasks /\ dir'[n].manifest = m
  BY <1>0, <1>2, <1>3, <1>4, <1>5, ManifestPut
<1>7. ASSUME NEW v \in Users \ {u}, v \in Writers(n)
      PROVE  /\ proc'[v] \in Working /\ proc'[v].at = "astray"
             /\ proc'[v].name = proc[v].name /\ proc'[v].read = proc[v].read
  <2>1. proc[v].at = "cut"
    BY <1>7 DEF Writers
  <2>2. /\ proc[v] \in Working
        /\ proc[v] = [at |-> proc[v].at, name |-> proc[v].name, read |-> proc[v].read, fd |-> proc[v].fd]
    BY <2>1, Workers DEF PInv
  <2>3. proc'[v] = [proc[v] EXCEPT !.at = "astray"]
    BY <1>2, <1>7
  <2>4. proc'[v] = [at |-> "astray", name |-> proc[v].name, read |-> proc[v].read, fd |-> proc[v].fd]
    BY <2>2, <2>3
  <2> QED BY <2>2, <2>4 DEF Working, Stages
<1>8. proc'[u] = Idle /\ \A v \in Users \ {u} : v \notin Writers(n) => proc'[v] = proc[v]
  BY <1>2
<1>9. proc' \in [Users -> Patching \cup Working]
  <2>1. \A v \in Users : proc'[v] \in Patching \cup Working
    BY <1>7, <1>8, Workers DEF PInv, TypeOK
  <2>2. proc' = [v \in Users |-> proc'[v]]
    BY <1>2
  <2> HIDE <1>2
  <2> QED BY <2>1, <2>2
<1>10. TypeOK'
  BY <1>2, <1>6, <1>9 DEF PInv, TypeOK
<1>11. ~Maker(u)' /\ ReadsOwn(u)' /\ proc'[u].at # "cut"
  BY <1>8, Sentinels DEF Maker, ReadsOwn, Reader
<1>12. \A v \in Users \ {u} :
          /\ proc'[v].name = proc[v].name /\ proc'[v].read = proc[v].read
          /\ \/ proc'[v].at = proc[v].at
             \/ v \in Writers(n) /\ proc'[v].at = "astray"
  BY <1>7, <1>8
<1>13. Writers(n)' = {}
  <2>1. u \notin Writers(n)'
    BY <1>11 DEF Writers
  <2>2. \A v \in Users \ {u} : v \notin Writers(n)'
    BY <1>7, <1>8 DEF Writers
  <2> QED BY <2>1, <2>2 DEF Writers
<1>14. Stays(n)'
  BY <1>2, <1>5, <1>6, <1>13, Sentinels DEF Stays
<1>15. UNCHANGED <<owner, stuck, foreign>> /\ clashed \subseteq clashed'
  BY <1>2
<1>16. m \in Manifests \cup {Half, Garbled} /\ dir' = Put(n, m)
  BY <1>2, <1>5
<1> QED BY <1>0, <1>3, <1>4, <1>10, <1>11, <1>12, <1>14, <1>15, <1>16, Rewritten

LEMMA CutInv == ASSUME PInv, NEW u \in Users, Cut(u) PROVE PInv'
<1>0. PICK n : n = proc[u].name
  OBVIOUS
<1>1. /\ proc[u].at = "attach" /\ proc[u].read # NoFile /\ Goes(u, "cut")
      /\ dir' = Put(n, Half)
      /\ clashed' = IF Writers(n) = {} THEN clashed ELSE clashed \cup {n}
      /\ UNCHANGED <<binary, patching, body, commands, faults, owner, stuck, foreign>>
  BY <1>0 DEF Cut, Put
<1>2. Reader(u)
  BY <1>1 DEF Reader
<1>3. /\ n \in Names /\ dir' \in [Names -> Dirs \cup {NoDir}]
      /\ dir'[n] # NoDir /\ dir'[n].work = Tasks /\ dir'[n].manifest = Half
  BY <1>0, <1>1, <1>2, ReaderAt, ManifestPut
<1>4. /\ proc' \in [Users -> Patching \cup Working]
      /\ proc'[u] = [at |-> "cut", name |-> n, read |-> proc[u].read, fd |-> proc[u].fd]
      /\ \A v \in Users \ {u} : proc'[v] = proc[v]
  <2>1. "cut" \in Stages \ {"write", "swap"}
    BY DEF Stages
  <2> QED BY <1>0, <1>1, <2>1, GoesOn DEF PInv
<1>5. TypeOK'
  BY <1>1, <1>3, <1>4 DEF PInv, TypeOK
<1>6. proc'[u].at = "cut" /\ proc'[u].name = n /\ proc'[u].read = proc[u].read
  BY <1>4
<1>7. ~Maker(u)' /\ ReadsOwn(u)'
  <2>1. ReadsOwn(u) /\ owner' = owner /\ clashed \subseteq clashed'
    BY <1>1 DEF PInv
  <2>2. ~Maker(u)'
    BY <1>6 DEF Maker, Making, Cleaning
  <2>3. ReadsOwn(u)'
    BY <1>0, <1>1, <1>2, <1>3, <1>6, <2>1 DEF ReadsOwn, Reader
  <2> QED BY <2>2, <2>3
<1>8. Writers(n)' = Writers(n) \cup {u}
  BY <1>4, <1>6 DEF Writers
<1>9. n \notin clashed' => Writers(n)' = {u}
  BY <1>1, <1>8
<1>10. Stays(n)'
  BY <1>3, <1>8, <1>9, Sentinels DEF Stays
<1>11. UNCHANGED <<owner, stuck, foreign>> /\ clashed \subseteq clashed'
  BY <1>1
<1>12. dir' = Put(n, Half) /\ Half \in Manifests \cup {Half, Garbled}
  BY <1>0, <1>1
<1> QED BY <1>0, <1>2, <1>3, <1>4, <1>5, <1>6, <1>7, <1>10, <1>11, <1>12, Rewritten

LEMMA AttachInv == ASSUME PInv, NEW u \in Users, Attach(u) PROVE PInv'
<1>0. PICK n : n = proc[u].name
  OBVIOUS
<1>1. PICK mine : mine = Extended(proc[u].read, u)
  OBVIOUS
<1>2. PICK m \in (IF dir[n].manifest = Half THEN {mine} ELSE {mine, Garbled}) :
          dir' = Put(n, m)
  BY <1>0, <1>1 DEF Attach, Put
<1>3. /\ proc[u].at = "cut" /\ Returns(u)
      /\ UNCHANGED <<binary, patching, body, commands, faults, owner, stuck, clashed, foreign>>
  BY DEF Attach
<1>4. Reader(u)
  BY <1>3 DEF PInv, ReadsOwn, Reader
<1>5. n \in Names /\ proc[u].read \in Manifests \cup {Garbled} /\ owner[n] # NoUser
  BY <1>0, <1>4, ReaderAt
<1>6. /\ mine \in Manifests \cup {Garbled}
      /\ mine \in Manifests => mine.by = owner[n]
      /\ mine = Garbled => n \in clashed
  BY <1>0, <1>1, <1>4, <1>5, StillOwned, Sentinels DEF PInv, ReadsOwn
<1>7. n \notin clashed => dir[n].manifest = Half /\ Writers(n) = {u}
  <2>1. u \in Writers(n)
    BY <1>0, <1>3 DEF Writers
  <2> QED BY <1>5, <2>1 DEF PInv, Stays
<1>8. /\ m \in Manifests \cup {Garbled}
      /\ m \in Manifests => m.by = owner[n]
      /\ m = Garbled => n \in clashed
  BY <1>2, <1>6, <1>7, Sentinels
<1>9. /\ dir' \in [Names -> Dirs \cup {NoDir}]
      /\ dir'[n] # NoDir /\ dir'[n].work = Tasks /\ dir'[n].manifest = m
  BY <1>0, <1>2, <1>4, <1>5, <1>8, ManifestPut
<1>10. /\ proc' \in [Users -> Patching \cup Working] /\ proc'[u] = Idle
       /\ \A v \in Users \ {u} : proc'[v] = proc[v]
  BY <1>3, ReturnsHome DEF PInv
<1>11. TypeOK'
  BY <1>3, <1>9, <1>10 DEF PInv, TypeOK
<1>12. ~Maker(u)' /\ ReadsOwn(u)' /\ proc'[u].at # "cut"
  BY <1>10, Sentinels DEF Maker, ReadsOwn, Reader
<1>13. n \notin clashed => Writers(n)' = {}
  <2>1. u \notin Writers(n)'
    BY <1>12 DEF Writers
  <2>2. \A v \in Users \ {u} : v \in Writers(n)' => v \in Writers(n)
    BY <1>10 DEF Writers
  <2>3. Writers(n)' \subseteq Users
    BY DEF Writers
  <2> QED BY <1>7, <2>1, <2>2, <2>3
<1>14. Stays(n)'
  BY <1>3, <1>8, <1>9, <1>13, Sentinels DEF Stays
<1>15. UNCHANGED <<owner, stuck, foreign>> /\ clashed \subseteq clashed'
  BY <1>3
<1>16. m \in Manifests \cup {Half, Garbled} /\ dir' = Put(n, m)
  BY <1>2, <1>8
<1> QED BY <1>0, <1>4, <1>5, <1>10, <1>11, <1>12, <1>14, <1>15, <1>16, Rewritten

LEMMA AttachAstrayInv == ASSUME PInv, NEW u \in Users, AttachAstray(u) PROVE PInv'
<1>1. /\ proc[u].at = "astray" /\ Returns(u)
      /\ UNCHANGED <<dir, binary, patching, body, commands, faults, owner, stuck, clashed, foreign>>
  BY DEF AttachAstray, files
<1>2. ~Maker(u) /\ proc[u].at # "cut"
  BY <1>1 DEF Maker, Making, Cleaning
<1> QED BY <1>1, <1>2, ReturnInv DEF PInv, TypeOK
-----------------------------------------------------------------------------
(* patch apply leaves the projects alone. *)
LEMMA PatchStep ==
    ASSUME PInv, NEW u \in Users, proc[u].at \in {"image", "write", "swap"}, TypeOK',
           \A v \in Users \ {u} : proc'[v] = proc[v],
           UNCHANGED <<dir, owner, stuck, clashed, foreign>>,
           \/ proc'[u] = Idle
           \/ proc'[u].at \in {"write", "swap"} /\ proc'[u].name = proc[u].name
    PROVE  PInv'
<1>1. ~Maker(u) /\ proc[u].at # "cut" /\ proc[u].name \in Names
  BY DEF PInv, ReadsOwn, Maker, Making, Cleaning
<1>2. ~Maker(u)' /\ ReadsOwn(u)' /\ proc'[u].at # "cut"
  BY <1>1, Sentinels DEF Maker, Making, Cleaning, ReadsOwn, Reader
<1> QED BY <1>1, <1>2, Quiet

LEMMA ReadImageInv == ASSUME PInv, NEW u \in Users, ReadImage(u) PROVE PInv'
<1>1. /\ proc[u].at = "image"
      /\ IF body[binary] = Half THEN Returns(u)
         ELSE proc' = [proc EXCEPT ![u].read = body[binary], ![u].at = "write"]
      /\ UNCHANGED <<files, commands, faults, owner, stuck, clashed, foreign>>
  BY DEF ReadImage
<1>2. UNCHANGED <<dir, owner, stuck, clashed, foreign>>
  BY <1>1 DEF files
<1>3. CASE body[binary] = Half
  <2>1. /\ proc' \in [Users -> Patching \cup Working] /\ proc'[u] = Idle
        /\ \A v \in Users \ {u} : proc'[v] = proc[v]
    BY <1>1, <1>3, ReturnsHome DEF PInv
  <2>2. TypeOK'
    BY <1>1, <2>1 DEF PInv, TypeOK, files
  <2> QED BY <1>1, <1>2, <2>1, <2>2, PatchStep
<1>4. CASE body[binary] # Half
  <2>1. PICK e : e = body[binary]
    OBVIOUS
  <2>2. e \in SUBSET Users
    BY <1>4, <2>1 DEF PInv, TypeOK
  <2>3. /\ proc \in [Users -> Patching \cup Working] /\ proc[u] \in Working
        /\ proc[u] = [at |-> "image", name |-> proc[u].name, read |-> proc[u].read, fd |-> proc[u].fd]
    BY <1>1, Workers DEF PInv, TypeOK
  <2>4. proc[u].fd = NoBody /\ proc[u].name \in Names
    BY <1>1, <2>3 DEF Working, PInv, ReadsOwn
  <2>5. PICK q : q = [at |-> "image", name |-> proc[u].name, read |-> e, fd |-> proc[u].fd]
    OBVIOUS
  <2>6. [proc[u] EXCEPT !.read = e] = q
    BY <2>3, <2>5
  <2>7. [q EXCEPT !.at = "write"] = [at |-> "write", name |-> proc[u].name, read |-> e, fd |-> NoBody]
    BY <2>4, <2>5
  <2>8. proc' = [proc EXCEPT ![u] = [[proc[u] EXCEPT !.read = e] EXCEPT !.at = "write"]]
    BY <1>1, <1>4, <2>1, <2>3
  <2>9. PICK p : p = [at |-> "write", name |-> proc[u].name, read |-> e, fd |-> NoBody]
    OBVIOUS
  <2>10. p \in Patching /\ p.at = "write" /\ p.name = proc[u].name
    BY <2>2, <2>4, <2>9 DEF Patching
  <2>11. proc' = [proc EXCEPT ![u] = p]
    BY <2>6, <2>7, <2>8, <2>9
  <2>12. /\ proc' \in [Users -> Patching \cup Working] /\ proc'[u] = p
         /\ \A v \in Users \ {u} : proc'[v] = proc[v]
    BY <2>3, <2>10, <2>11
  <2>13. TypeOK'
    BY <1>1, <2>12 DEF PInv, TypeOK, files
  <2>14. proc'[u].at \in {"write", "swap"} /\ proc'[u].name = proc[u].name
    BY <2>10, <2>12
  <2> QED BY <1>1, <1>2, <2>12, <2>13, <2>14, PatchStep
<1> QED BY <1>3, <1>4

LEMMA OpenImageInv == ASSUME PInv, NEW u \in Users, OpenImage(u) PROVE PInv'
<1>1. PICK i : i = IF patching = NoBody THEN CHOOSE b \in Unused : TRUE ELSE patching
  OBVIOUS
<1>2. /\ proc[u].at = "write" /\ (patching # NoBody \/ Unused # {})
      /\ patching' = i /\ body' = [body EXCEPT ![i] = Half] /\ proc' = [proc EXCEPT ![u].fd = i]
      /\ UNCHANGED <<dir, binary, commands, faults, owner, stuck, clashed, foreign>>
  BY <1>1 DEF OpenImage
<1>3. i \in Inodes
  <2>1. CASE patching # NoBody
    BY <1>1, <2>1 DEF PInv, TypeOK
  <2>2. CASE patching = NoBody
    <3>1. (CHOOSE b \in Unused : TRUE) \in Unused
      BY <1>2, <2>2
    <3> QED BY <1>1, <2>2, <3>1 DEF Unused
  <2> QED BY <2>1, <2>2
<1>4. /\ proc \in [Users -> Patching \cup Working] /\ proc[u] \in Patching
      /\ proc[u] = [at |-> "write", name |-> proc[u].name, read |-> proc[u].read, fd |-> proc[u].fd]
  BY <1>2, Workers DEF PInv, TypeOK
<1>5. PICK p : p = [at |-> "write", name |-> proc[u].name, read |-> proc[u].read, fd |-> i]
  OBVIOUS
<1>6. p \in Patching /\ p.at = "write" /\ p.name = proc[u].name
  BY <1>3, <1>4, <1>5 DEF Patching
<1>i. [proc[u] EXCEPT !.fd = i] = p
  BY <1>4, <1>5
<1>7. proc' = [proc EXCEPT ![u] = p]
  BY <1>2, <1>4, <1>i
<1>8. /\ proc' \in [Users -> Patching \cup Working] /\ proc'[u] = p
      /\ \A v \in Users \ {u} : proc'[v] = proc[v]
  BY <1>4, <1>6, <1>7
<1>9. body' \in [Inodes -> {Half} \cup SUBSET Users]
  BY <1>2 DEF PInv, TypeOK
<1>10. TypeOK'
  BY <1>2, <1>3, <1>8, <1>9 DEF PInv, TypeOK
<1>11. proc'[u].at \in {"write", "swap"} /\ proc'[u].name = proc[u].name
  BY <1>6, <1>8
<1> QED BY <1>2, <1>8, <1>10, <1>11, PatchStep

LEMMA WriteImageInv == ASSUME PInv, NEW u \in Users, WriteImage(u) PROVE PInv'
<1>1. /\ proc[u].at = "write" /\ proc[u].fd # NoBody
      /\ body' = [body EXCEPT ![proc[u].fd] = proc[u].read \cup {u}]
      /\ proc' = [proc EXCEPT ![u].at = "swap", ![u].fd = NoBody]
      /\ UNCHANGED <<dir, binary, patching, commands, faults, owner, stuck, clashed, foreign>>
  BY DEF WriteImage
<1>2. /\ proc \in [Users -> Patching \cup Working] /\ proc[u] \in Patching
      /\ proc[u] = [at |-> "write", name |-> proc[u].name, read |-> proc[u].read, fd |-> proc[u].fd]
  BY <1>1, Workers DEF PInv, TypeOK
<1>3. PICK q : q = [at |-> "swap", name |-> proc[u].name, read |-> proc[u].read, fd |-> proc[u].fd]
  OBVIOUS
<1>4. PICK p : p = [at |-> "swap", name |-> proc[u].name, read |-> proc[u].read, fd |-> NoBody]
  OBVIOUS
<1>5. p \in Patching /\ p.at = "swap" /\ p.name = proc[u].name
  BY <1>2, <1>4 DEF Patching
<1>6. [proc[u] EXCEPT !.at = "swap"] = q /\ [q EXCEPT !.fd = NoBody] = p
  BY <1>2, <1>3, <1>4
<1>7. proc' = [proc EXCEPT ![u] = [[proc[u] EXCEPT !.at = "swap"] EXCEPT !.fd = NoBody]]
  BY <1>1, <1>2
<1>8. proc' = [proc EXCEPT ![u] = p]
  BY <1>6, <1>7
<1>9. /\ proc' \in [Users -> Patching \cup Working] /\ proc'[u] = p
      /\ \A v \in Users \ {u} : proc'[v] = proc[v]
  BY <1>2, <1>5, <1>8
<1>10. body' \in [Inodes -> {Half} \cup SUBSET Users]
  <2>1. proc[u].read \cup {u} \in SUBSET Users
    BY <1>2 DEF Patching
  <2> QED BY <1>1, <2>1 DEF PInv, TypeOK
<1>11. TypeOK'
  BY <1>1, <1>9, <1>10 DEF PInv, TypeOK
<1>12. proc'[u].at \in {"write", "swap"} /\ proc'[u].name = proc[u].name
  BY <1>5, <1>9
<1> QED BY <1>1, <1>9, <1>11, <1>12, PatchStep

LEMMA SwapInv == ASSUME PInv, NEW u \in Users, Swap(u) PROVE PInv'
<1>1. /\ proc[u].at = "swap" /\ Returns(u)
      /\ IF patching = NoBody THEN UNCHANGED <<binary, patching>>
         ELSE binary' = patching /\ patching' = NoBody
      /\ UNCHANGED <<dir, body, commands, faults, owner, stuck, clashed, foreign>>
  BY DEF Swap
<1>2. /\ proc' \in [Users -> Patching \cup Working] /\ proc'[u] = Idle
      /\ \A v \in Users \ {u} : proc'[v] = proc[v]
  BY <1>1, ReturnsHome DEF PInv
<1>3. binary' \in Inodes /\ patching' \in Inodes \cup {NoBody}
  BY <1>1 DEF PInv, TypeOK
<1>4. TypeOK'
  BY <1>1, <1>2, <1>3 DEF PInv, TypeOK
<1> QED BY <1>1, <1>2, <1>4, PatchStep

-----------------------------------------------------------------------------
(* Somebody else's file keeps a directory, and changes nothing else in it.     *)
LEMMA PutFileInv == ASSUME PInv, NEW n \in Names, PutFile(n) PROVE PInv'
<1>1. /\ dir[n] # NoDir /\ foreign' = foreign \cup {n} /\ dir' = [dir EXCEPT ![n].other = TRUE]
      /\ UNCHANGED <<binary, patching, body, proc, commands, faults, owner, stuck, clashed>>
  BY DEF PutFile
<1>2. dir \in [Names -> Dirs \cup {NoDir}] /\ dir[n] \in Dirs
  BY <1>1 DEF PInv, TypeOK
<1>3. PICK d : d = [dir[n] EXCEPT !.other = TRUE]
  OBVIOUS
<1>4. /\ d \in Dirs /\ d.other /\ d.manifest = dir[n].manifest /\ d.tmp = dir[n].tmp
      /\ d.work = dir[n].work
  BY <1>2, <1>3 DEF Dirs
<1>5. dir' = [dir EXCEPT ![n] = d]
  BY <1>1, <1>2, <1>3
<1>6. /\ dir' \in [Names -> Dirs \cup {NoDir}] /\ dir'[n] = d /\ d # NoDir
      /\ \A k \in Names \ {n} : dir'[k] = dir[k]
  BY <1>2, <1>4, <1>5, Sentinels
<1>7. \A k \in Names : /\ dir'[k] = NoDir <=> dir[k] = NoDir
                       /\ dir[k] # NoDir => /\ dir'[k].manifest = dir[k].manifest
                                            /\ dir'[k].tmp = dir[k].tmp
                                            /\ dir'[k].work = dir[k].work
  BY <1>1, <1>4, <1>6
<1>8. TypeOK'
  BY <1>1, <1>6 DEF PInv, TypeOK
<1>9. Alone'
  BY <1>1 DEF PInv, Alone, Maker
<1>10. ASSUME NEW u \in Users PROVE Unborn(u)' /\ ReadsOwn(u)'
  <2>1. Unborn(u)'
    BY <1>1, <1>7 DEF PInv, Unborn, Maker, Maker1
  <2>2. ReadsOwn(u)'
    BY <1>1 DEF PInv, ReadsOwn, Reader
  <2> QED BY <2>1, <2>2
<1>11. Manifested'
  BY <1>1, <1>7 DEF PInv, Manifested
<1>12. Foreign'
  BY <1>1, <1>4, <1>6 DEF PInv, Foreign
<1>13. \A k \in Names : Stays(k)'
  <2>1. \A k : Writers(k)' = Writers(k)
    BY <1>1 DEF Writers
  <2> QED BY <1>1, <1>7, <2>1, SameProject DEF PInv
<1>14. NamesAreFreed'
  BY <1>1, <1>4, <1>6, <1>7 DEF PInv, NamesAreFreed
<1> QED BY <1>8, <1>9, <1>10, <1>11, <1>12, <1>13, <1>14 DEF PInv

-----------------------------------------------------------------------------
LEMMA NextInv == PInv /\ [Next]_vars => PInv'
<1> SUFFICES ASSUME PInv, [Next]_vars PROVE PInv'
  OBVIOUS
<1>1. ASSUME NEW u \in Users, Make(u) PROVE PInv'
  BY <1>1, TakeNameInv, WriteTaskInv, WriteManifestInv, PublishInv, RemoveWorkInv, RemoveTmpInv,
     RemoveDirInv DEF Make
<1>2. ASSUME NEW u \in Users, Change(u) PROVE PInv'
  BY <1>2, ReadManifestInv, RelocateInv, CutInv, AttachInv, AttachAstrayInv DEF Change
<1>3. ASSUME NEW u \in Users, Patch(u) PROVE PInv'
  BY <1>3, ReadImageInv, OpenImageInv, WriteImageInv, SwapInv DEF Patch
<1>4. ASSUME NEW u \in Users, Fail(u) \/ Kill(u) PROVE PInv'
  BY <1>4, FailInv, KillInv
<1>5. ASSUME NEW u \in Users, NEW n \in Names, NEW at \in {"mkdir", "move", "attach", "image"},
             Start(u, n, at)
      PROVE  PInv'
  BY <1>5, StartInv
<1>6. ASSUME NEW n \in Names, PutFile(n) PROVE PInv'
  BY <1>6, PutFileInv
<1>7. CASE UNCHANGED vars
  <2>1. UNCHANGED <<dir, binary, patching, body, proc, commands, faults, owner, stuck, clashed, foreign>>
    BY <1>7 DEF vars, files
  <2>2. TypeOK' /\ Alone' /\ Manifested' /\ Foreign'
    BY <2>1 DEF PInv, TypeOK, Alone, Maker, Manifested, Foreign
  <2>3. \A u \in Users : Unborn(u)' /\ ReadsOwn(u)'
    BY <2>1 DEF PInv, Unborn, ReadsOwn, Reader, Maker, Maker1
  <2>4. (\A n \in Names : Stays(n)') /\ NamesAreFreed'
    BY <2>1 DEF PInv, Stays, Writers, NamesAreFreed
  <2> QED BY <2>2, <2>3, <2>4 DEF PInv
<1>8. CASE \E u \in Users : Make(u) \/ Change(u) \/ Patch(u) \/ Fail(u) \/ Kill(u)
  BY <1>1, <1>2, <1>3, <1>4, <1>8
<1>9. CASE \E u \in Users, n \in Names, at \in {"mkdir", "move", "attach", "image"} : Start(u, n, at)
  BY <1>5, <1>9
<1>10. CASE \E n \in Names : PutFile(n)
  BY <1>6, <1>10
<1> QED BY <1>7, <1>8, <1>9, <1>10 DEF Next

LEMMA AlwaysInv == Spec => []PInv
<1> QED BY InitInv, NextInv, PTL DEF Spec

(* In every run directories, bodies and processes have the form the code gives *)
(* them (registry.rs:196-280, patch.rs:147-169).                               *)
THEOREM FilesTyped == Spec => []TypeOK
<1>1. PInv => TypeOK
  BY DEF PInv
<1> QED BY <1>1, AlwaysInv, PTL

(* However many processes create, import, relocate and attach, and wherever    *)
(* they fail or are killed, a project whose creation succeeded keeps its tasks *)
(* and a manifest, and the manifest is its owner's unless two adds had it open *)
(* at once or one stopped half way (registry.rs:229-278, patch.rs:480).        *)
THEOREM ProjectsStay == Spec => []CreatedStays
<1>1. PInv => CreatedStays
  <2> SUFFICES ASSUME PInv, NEW n \in Names, owner[n] # NoUser
               PROVE  /\ dir[n] # NoDir /\ dir[n].work = Tasks /\ dir[n].manifest # NoFile
                      /\ n \notin clashed =>
                           \/ dir[n].manifest \in Manifests /\ dir[n].manifest.by = owner[n]
                           \/ dir[n].manifest = Half /\ Writers(n) # {}
    BY DEF CreatedStays
  <2>1. dir[n] \in Dirs \cup {NoDir} /\ Stays(n)
    BY DEF PInv, TypeOK
  <2>2. dir[n] # NoDir => dir[n].manifest \in Manifests \cup {NoFile, Half, Garbled}
    BY <2>1 DEF Dirs
  <2> QED BY <2>1, <2>2 DEF Stays
<1> QED BY <1>1, AlwaysInv, PTL

(* A directory without a manifest always has an explanation, so that a create  *)
(* that failed frees its name, and a file somebody else put there is never     *)
(* removed (registry.rs:261-278).                                              *)
THEOREM FailuresFreeNames == Spec => []NamesAreFreed
<1>1. PInv => NamesAreFreed
  BY DEF PInv
<1> QED BY <1>1, AlwaysInv, PTL

-----------------------------------------------------------------------------
(* One process patches: the file beside the binary is its own, and whole when  *)
(* it takes the binary's place.                                                *)
PatchStages == {"image", "write", "swap"}
WholeInv ==
    /\ BinaryIsWhole /\ patching # binary
    /\ \A u \in Users :
         /\ proc[u].at \in PatchStages => u \in Patchers
         /\ proc[u].at = "write" /\ proc[u].fd # NoBody => patching = proc[u].fd
         /\ proc[u].at = "swap" => patching # NoBody /\ body[patching] # Half

LEMMA WholeInit == Init => WholeInv
<1> SUFFICES ASSUME Init PROVE WholeInv
  OBVIOUS
<1>1. binary \in Inodes /\ patching = NoBody /\ body[binary] = {}
  BY UsersAssumption DEF Init
<1>2. patching # binary /\ body[binary] # Half
  BY <1>1, NothingAssumption
<1>3. \A u \in Users : proc[u].at = "idle"
  BY Sentinels DEF Init
<1> QED BY <1>2, <1>3 DEF WholeInv, BinaryIsWhole, PatchStages

LEMMA WholeElsewhere ==
    ASSUME WholeInv, NEW u \in Users, UNCHANGED <<binary, patching, body>>,
           \A v \in Users \ {u} : proc'[v] = proc[v] \/ proc'[v].at = "astray",
           proc'[u].at \notin PatchStages \/ (proc'[u].at = "image" /\ u \in Patchers)
    PROVE  WholeInv'
<1>1. BinaryIsWhole' /\ patching' # binary'
  BY DEF WholeInv, BinaryIsWhole
<1>2. ASSUME NEW v \in Users \ {u}
      PROVE  /\ proc'[v].at \in PatchStages => v \in Patchers
             /\ proc'[v].at = "write" /\ proc'[v].fd # NoBody => patching' = proc'[v].fd
             /\ proc'[v].at = "swap" => patching' # NoBody /\ body'[patching'] # Half
  BY DEF WholeInv, PatchStages
<1>3. /\ proc'[u].at \in PatchStages => u \in Patchers
      /\ proc'[u].at # "write" /\ proc'[u].at # "swap"
  BY DEF PatchStages
<1> QED BY <1>1, <1>2, <1>3 DEF WholeInv

LEMMA WholeFiles ==
    ASSUME PInv, WholeInv, NEW u \in Users, Make(u) \/ Change(u) \/ Fail(u) \/ Kill(u)
    PROVE  WholeInv'
<1>s. /\ Making \cup Cleaning \subseteq Stages \ {"write", "swap"}
      /\ "cut" \in Stages \ {"write", "swap"}
      /\ \A at \in Making \cup Cleaning : at \notin PatchStages
      /\ "idle" \notin PatchStages
      /\ "cut" \notin PatchStages /\ "move" \notin PatchStages /\ "attach" \notin PatchStages
  BY DEF Stages, Making, Cleaning, PatchStages
<1>b. ASSUME UNCHANGED <<binary, patching, body>>, Returns(u) PROVE WholeInv'
  <2>1. proc'[u].at = "idle" /\ \A v \in Users \ {u} : proc'[v] = proc[v]
    BY <1>b, ReturnsHome, Sentinels DEF PInv
  <2> QED BY <1>b, <1>s, <2>1, WholeElsewhere
<1>g. ASSUME UNCHANGED <<binary, patching, body>>, proc[u].at \notin {"write", "swap"},
             NEW at \in Making \cup Cleaning \cup {"cut"}, Goes(u, at)
      PROVE  WholeInv'
  <2>1. at \in Stages \ {"write", "swap"} /\ TypeOK
    BY <1>s DEF PInv
  <2>2. /\ proc'[u] = [at |-> at, name |-> proc[u].name, read |-> proc[u].read, fd |-> proc[u].fd]
        /\ \A v \in Users \ {u} : proc'[v] = proc[v]
    BY <1>g, <2>1, GoesOn
  <2>3. proc'[u].at = at /\ at \notin PatchStages
    BY <1>s, <2>2
  <2> QED BY <1>g, <2>2, <2>3, WholeElsewhere
<1>1. CASE TakeName(u)
  BY <1>1, <1>b, <1>g DEF TakeName, Making
<1>2. CASE WriteTask(u)
  <2>1. CASE UNCHANGED proc
    BY <1>2, <1>s, <2>1, WholeElsewhere DEF WriteTask, Making
  <2>2. CASE Goes(u, "tmp")
    BY <1>2, <1>g, <2>2 DEF WriteTask, Making
  <2> QED BY <1>2, <2>1, <2>2 DEF WriteTask
<1>3. CASE WriteManifest(u)
  <2>1. CASE proc[u].at = "tmp"
    BY <1>3, <1>g, <2>1 DEF WriteManifest, Making
  <2>2. CASE proc[u].at = "text"
    BY <1>3, <1>g, <2>2 DEF WriteManifest, Making
  <2> QED BY <1>3, <2>1, <2>2 DEF WriteManifest
<1>4. CASE Publish(u)
  BY <1>4, <1>b DEF Publish
<1>5. CASE RemoveWork(u)
  BY <1>5, <1>g DEF RemoveWork, Cleaning
<1>6. CASE RemoveTmp(u)
  BY <1>6, <1>g DEF RemoveTmp, Cleaning
<1>7. CASE RemoveDir(u)
  BY <1>7, <1>b DEF RemoveDir
<1>8. ASSUME NEW at \in {"move", "attach"}, ReadManifest(u, at, at) PROVE WholeInv'
  <2>1. UNCHANGED <<binary, patching, body>>
    BY <1>8 DEF ReadManifest, files
  <2>2. CASE Returns(u)
    BY <1>b, <2>1, <2>2
  <2>3. CASE ~Returns(u)
    <3>1. PICK m : m = Manifest(proc[u].name)
      OBVIOUS
    <3>2. /\ proc[u].at = at /\ m \notin {NoFile, Half}
          /\ proc' = [proc EXCEPT ![u].read = m, ![u].at = at]
      BY <1>8, <2>3, <3>1 DEF ReadManifest
    <3>3. proc[u].name \in Names
      BY <3>2 DEF PInv, ReadsOwn
    <3>4. m \in Manifests \cup {Garbled}
      BY <3>1, <3>2, <3>3 DEF PInv, TypeOK, Dirs, Manifest
    <3>t. TypeOK /\ proc[u].at = at
      BY <3>2 DEF PInv
    <3>r. /\ proc'[u] = [at |-> at, name |-> proc[u].name, read |-> m, fd |-> proc[u].fd]
          /\ \A v \in Users \ {u} : proc'[v] = proc[v]
      BY <3>2, <3>4, <3>t, Reading
    <3>5. proc'[u].at = at
      BY <3>r
    <3>6. proc'[u].at \notin PatchStages
      BY <3>5 DEF PatchStages
    <3> QED BY <2>1, <3>r, <3>6, WholeElsewhere
  <2> QED BY <2>2, <2>3
<1>9. CASE Relocate(u)
  <2>1. /\ UNCHANGED <<binary, patching, body>>
        /\ proc' = [w \in Users |-> IF w = u THEN Idle
                                   ELSE IF w \in Writers(proc[u].name)
                                        THEN [proc[w] EXCEPT !.at = "astray"]
                                        ELSE proc[w]]
    BY <1>9 DEF Relocate
  <2>2. ASSUME NEW v \in Users \ {u} PROVE proc'[v] = proc[v] \/ proc'[v].at = "astray"
    <3>1. CASE v \in Writers(proc[u].name)
      <4>1. proc'[v] = [proc[v] EXCEPT !.at = "astray"]
        BY <2>1, <3>1
      <4>2. proc[v] = [at |-> proc[v].at, name |-> proc[v].name, read |-> proc[v].read, fd |-> proc[v].fd]
        BY Workers DEF PInv
      <4> QED BY <4>1, <4>2
    <3> QED BY <2>1, <3>1
  <2>3. proc'[u].at = "idle"
    BY <2>1, Sentinels
  <2> QED BY <1>s, <2>1, <2>2, <2>3, WholeElsewhere
<1>10. CASE Cut(u)
  BY <1>10, <1>g DEF Cut
<1>11. CASE Attach(u)
  BY <1>11, <1>b DEF Attach
<1>12. CASE Fail(u)
  BY <1>12, <1>g DEF Fail, Making, Cleaning, files
<1>13. CASE Kill(u)
  BY <1>13, <1>b DEF Kill
<1>14. CASE AttachAstray(u)
  BY <1>14, <1>b DEF AttachAstray, files
<1> QED BY <1>1, <1>2, <1>3, <1>4, <1>5, <1>6, <1>7, <1>8, <1>9, <1>10, <1>11, <1>12, <1>13,
        <1>14 DEF Make, Change

(* One patcher: no other process is at a stage of patch apply.                 *)
LEMMA WholePatch ==
    ASSUME PInv, WholeInv, NEW u \in Users, Patch(u), \A v, w \in Patchers : v = w
    PROVE  WholeInv'
<1>1. proc[u].at \in PatchStages /\ u \in Patchers
  BY DEF Patch, ReadImage, OpenImage, WriteImage, Swap, PatchStages, WholeInv
<1>2. \A v \in Users \ {u} : proc[v].at \notin PatchStages
  BY <1>1 DEF WholeInv
<1>3. /\ proc \in [Users -> Patching \cup Working] /\ TypeOK
      /\ proc[u] = [at |-> proc[u].at, name |-> proc[u].name, read |-> proc[u].read,
                    fd |-> proc[u].fd]
  BY Workers DEF PInv, TypeOK
<1>4. patching # binary /\ binary \in Inodes /\ body[binary] # Half
  BY DEF WholeInv, BinaryIsWhole, PInv, TypeOK
<1>o. ASSUME \A v \in Users \ {u} : proc'[v] = proc[v], patching' # binary',
             body'[binary'] # Half,
             proc'[u].at = "write" /\ proc'[u].fd # NoBody => patching' = proc'[u].fd,
             proc'[u].at = "swap" => patching' # NoBody /\ body'[patching'] # Half
      PROVE  WholeInv'
  <2>1. \A v \in Users \ {u} : proc'[v].at \notin PatchStages
    BY <1>2, <1>o
  <2>2. \A v \in Users \ {u} :
          /\ proc'[v].at \in PatchStages => v \in Patchers
          /\ proc'[v].at # "write" /\ proc'[v].at # "swap"
    BY <2>1 DEF PatchStages
  <2> QED BY <1>1, <1>o, <2>2 DEF WholeInv, BinaryIsWhole
<1>5. CASE ReadImage(u)
  <2>1. UNCHANGED <<binary, patching, body>>
    BY <1>5 DEF ReadImage, files
  <2>2. CASE Returns(u)
    <3>1. proc'[u].at = "idle" /\ \A v \in Users \ {u} : proc'[v] = proc[v]
      BY <1>3, <2>2, ReturnsHome, Sentinels
    <3> QED BY <1>4, <1>o, <2>1, <3>1
  <2>3. CASE ~Returns(u)
    <3>1. /\ proc[u].at = "image"
          /\ proc' = [proc EXCEPT ![u].read = body[binary], ![u].at = "write"]
      BY <1>5, <2>3 DEF ReadImage
    <3>2. proc[u].fd = NoBody
      BY <1>3, <3>1, Workers DEF Working
    <3>3. proc'[u].fd = NoBody /\ proc'[u].at = "write" /\ \A v \in Users \ {u} : proc'[v] = proc[v]
      BY <1>3, <3>1, <3>2
    <3> QED BY <1>4, <1>o, <2>1, <3>3
  <2> QED BY <2>2, <2>3
<1>6. CASE OpenImage(u)
  <2>1. PICK i : i = IF patching = NoBody THEN CHOOSE b \in Unused : TRUE ELSE patching
    OBVIOUS
  <2>2. /\ proc[u].at = "write" /\ (patching # NoBody \/ Unused # {})
        /\ patching' = i /\ body' = [body EXCEPT ![i] = Half] /\ proc' = [proc EXCEPT ![u].fd = i]
        /\ binary' = binary
    BY <1>6, <2>1 DEF OpenImage
  <2>3. i # binary
    <3>1. CASE patching # NoBody
      BY <1>4, <2>1, <3>1
    <3>2. CASE patching = NoBody
      <4>1. (CHOOSE b \in Unused : TRUE) \in Unused
        BY <2>2, <3>2
      <4> QED BY <2>1, <3>2, <4>1 DEF Unused
    <3> QED BY <3>1, <3>2
  <2>4. body'[binary] # Half
    BY <1>4, <2>2, <2>3 DEF PInv, TypeOK
  <2>5. PICK p : p = [at |-> "write", name |-> proc[u].name, read |-> proc[u].read, fd |-> i]
    OBVIOUS
  <2>6. [proc[u] EXCEPT !.fd = i] = p
    BY <1>3, <2>2, <2>5
  <2>7. proc'[u] = p /\ \A v \in Users \ {u} : proc'[v] = proc[v]
    BY <1>3, <2>2, <2>6
  <2>8. proc'[u].at = "write" /\ proc'[u].fd = i
    BY <2>5, <2>7
  <2> QED BY <1>o, <2>2, <2>3, <2>4, <2>7, <2>8
<1>7. CASE WriteImage(u)
  <2>1. /\ proc[u].at = "write" /\ proc[u].fd # NoBody
        /\ body' = [body EXCEPT ![proc[u].fd] = proc[u].read \cup {u}]
        /\ proc' = [proc EXCEPT ![u].at = "swap", ![u].fd = NoBody]
        /\ binary' = binary /\ patching' = patching
    BY <1>7 DEF WriteImage
  <2>2. proc[u].fd = patching /\ proc[u].read \cup {u} \in SUBSET Users
    BY <2>1, <1>3, Workers DEF WholeInv, Patching
  <2>3. patching \in Inodes /\ patching # NoBody
    BY <2>1, <2>2 DEF PInv, TypeOK
  <2>4. body'[binary] = body[binary] /\ body'[patching] # Half
    BY <1>4, <2>1, <2>2, <2>3, NothingAssumption DEF PInv, TypeOK
  <2>5. proc' = [proc EXCEPT ![u] = [[proc[u] EXCEPT !.at = "swap"] EXCEPT !.fd = NoBody]]
    BY <1>3, <2>1
  <2>6. PICK q : q = [at |-> "swap", name |-> proc[u].name, read |-> proc[u].read, fd |-> proc[u].fd]
    OBVIOUS
  <2>7. [proc[u] EXCEPT !.at = "swap"] = q
    BY <1>3, <2>6
  <2>8. [q EXCEPT !.fd = NoBody].at = "swap"
    BY <2>6
  <2>9. proc'[u].at = "swap" /\ \A v \in Users \ {u} : proc'[v] = proc[v]
    BY <1>3, <2>5, <2>7, <2>8
  <2> QED BY <1>4, <1>o, <2>1, <2>3, <2>4, <2>9
<1>8. CASE Swap(u)
  <2>1. /\ proc[u].at = "swap" /\ Returns(u) /\ body' = body
        /\ IF patching = NoBody THEN UNCHANGED <<binary, patching>>
           ELSE binary' = patching /\ patching' = NoBody
    BY <1>8 DEF Swap
  <2>2. patching # NoBody /\ body[patching] # Half
    BY <2>1 DEF WholeInv
  <2>3. binary' = patching /\ patching' = NoBody
    BY <2>1, <2>2
  <2>4. proc'[u].at = "idle" /\ \A v \in Users \ {u} : proc'[v] = proc[v]
    BY <1>3, <2>1, ReturnsHome, Sentinels
  <2> QED BY <1>o, <2>1, <2>2, <2>3, <2>4
<1> QED BY <1>5, <1>6, <1>7, <1>8 DEF Patch

LEMMA WholeNext ==
    ASSUME \A v, w \in Patchers : v = w
    PROVE  PInv /\ WholeInv /\ [Next]_vars => WholeInv'
<1> SUFFICES ASSUME PInv, WholeInv, [Next]_vars PROVE WholeInv'
  OBVIOUS
<1>1. CASE \E u \in Users : Make(u) \/ Change(u) \/ Patch(u) \/ Fail(u) \/ Kill(u)
  BY <1>1, WholeFiles, WholePatch
<1>2. CASE \E u \in Users, n \in Names, at \in {"mkdir", "move", "attach", "image"} : Start(u, n, at)
  <2>1. PICK u \in Users, n \in Names, at \in {"mkdir", "move", "attach", "image"} : Start(u, n, at)
    BY <1>2
  <2>2. PICK p : p = [at |-> at, name |-> n, read |-> NoFile, fd |-> NoBody]
    OBVIOUS
  <2>3. /\ proc' = [proc EXCEPT ![u] = p] /\ (at = "image" => u \in Patchers)
        /\ UNCHANGED <<binary, patching, body>>
    BY <2>1, <2>2 DEF Start, files
  <2>4. proc'[u].at = at /\ \A v \in Users \ {u} : proc'[v] = proc[v]
    BY <2>2, <2>3 DEF PInv, TypeOK
  <2>5. proc'[u].at \notin PatchStages \/ (proc'[u].at = "image" /\ u \in Patchers)
    BY <2>3, <2>4 DEF PatchStages
  <2> QED BY <2>3, <2>4, <2>5, WholeElsewhere
<1>3. CASE (\E n \in Names : PutFile(n)) \/ UNCHANGED vars
  <2>1. UNCHANGED <<binary, patching, body, proc>>
    BY <1>3 DEF PutFile, vars, files
  <2> QED BY <2>1 DEF WholeInv, BinaryIsWhole
<1> QED BY <1>1, <1>2, <1>3 DEF Next

(* Where one process patches, the binary is never half written, wherever that  *)
(* process is killed and whatever the others do (patch.rs:147-169).            *)
THEOREM PatchedIsWhole ==
    ASSUME \A v, w \in Patchers : v = w
    PROVE  Spec => []BinaryIsWhole
<1>1. PInv /\ WholeInv /\ [Next]_vars => WholeInv'
  BY WholeNext
<1>2. WholeInv => BinaryIsWhole
  BY DEF WholeInv
<1> QED BY <1>1, <1>2, WholeInit, AlwaysInv, PTL DEF Spec
=============================================================================
