------------------------- MODULE AgentProcessProofs -------------------------
(***************************************************************************)
(* What holds of the process of the agent for every set of files, whatever *)
(* they say and however they are edited: its settings are what its files   *)
(* say by the precedence of the code, and zincati-update-now is obeyed.    *)
(***************************************************************************)
EXTENDS AgentProcess, WeeklyCalendarProofs, SequenceTheorems

-----------------------------------------------------------------------------
(* The scan of the directories.                                             *)

NothingFound == [n \in FileNames |-> NoDir]

(* The scan visits the three directories, one after the other.              *)
LEMMA FoundIsVisits ==
  ASSUME NEW d
  PROVE  Found(d) = Visit(d, Visit(d, Visit(d, NothingFound, "/usr/lib"), "/run"), "/etc")
<1> DEFINE Subsets == SUBSET {1, 2, 3}
           Final(T) == IF 3 \in T THEN 3 ELSE IF 2 \in T THEN 2 ELSE 1
           Step(g, T) == IF T = {} THEN NothingFound
                         ELSE Visit(d, g[T \ {Final(T)}], BaseDirs[Final(T)])
           Folds(g) == g = [T \in SUBSET DOMAIN BaseDirs |->
                              IF T = {} THEN NothingFound
                              ELSE Visit(d, g[T \ {Max(T)}], BaseDirs[Max(T)])]
<1>1. Found(d) = (CHOOSE g : Folds(g))[DOMAIN BaseDirs]
  BY DEF Found, FoldLeft, MapThenFoldSet, NothingFound
<1>2. /\ DOMAIN BaseDirs = {1, 2, 3}
      /\ BaseDirs[1] = "/usr/lib" /\ BaseDirs[2] = "/run" /\ BaseDirs[3] = "/etc"
  BY DEF BaseDirs
<1>3. ASSUME NEW T \in Subsets, T # {}
      PROVE  Max(T) = Final(T) /\ Final(T) \in T /\ T \ {Final(T)} \in Subsets
  <2>1. Final(T) \in T /\ \A x \in T : Final(T) >= x
    <3>1. \A x \in T : x = 1 \/ x = 2 \/ x = 3
      OBVIOUS
    <3>2. 1 \in T \/ 2 \in T \/ 3 \in T
      BY <1>3
    <3> QED
      BY <3>1, <3>2
  <2>2. \A y \in T : (\A x \in T : y >= x) => y = Final(T)
    BY <1>3, <2>1
  <2> QED
    BY <2>1, <2>2 DEF Max
<1>4. ASSUME NEW g
      PROVE  Folds(g) <=> g = [T \in Subsets |-> Step(g, T)]
  <2>1. \A T \in Subsets : T # {} => Max(T) = Final(T)
    BY <1>3
  <2> HIDE DEF Last
  <2> QED
    BY <1>2, <2>1
<1> DEFINE v1 == Visit(d, NothingFound, "/usr/lib")
           First(T) == IF 1 \in T THEN v1 ELSE NothingFound
           Second(T) == IF 2 \in T THEN Visit(d, First(T), "/run") ELSE First(T)
           Third(T) == IF 3 \in T THEN Visit(d, Second(T), "/etc") ELSE Second(T)
           h == [T \in Subsets |-> Third(T)]
<1>5. ASSUME NEW T \in Subsets
      PROVE  h[T] = Step(h, T)
  <2> DEFINE R == T \ {Final(T)}
  <2>1. R \in Subsets => h[R] = Third(R)
    OBVIOUS
  <2>2. T = {} => Third(T) = NothingFound
    OBVIOUS
  <2>3. ASSUME T # {}
        PROVE  Third(T) = Visit(d, Third(R), BaseDirs[Final(T)])
    <3>1. 1 \in T \/ 2 \in T \/ 3 \in T
      BY <2>3
    <3>2. CASE 3 \in T
      <4>1. Third(R) = Second(T)
        BY <3>2
      <4> QED
        BY <1>2, <3>2, <4>1
    <3>3. CASE 3 \notin T /\ 2 \in T
      <4>1. Third(R) = First(T)
        BY <3>3
      <4> QED
        BY <1>2, <3>3, <4>1
    <3>4. CASE 3 \notin T /\ 2 \notin T
      <4>1. Third(R) = NothingFound
        BY <3>4
      <4> QED
        BY <1>2, <3>1, <3>4, <4>1
    <3> QED
      BY <3>2, <3>3, <3>4
  <2>4. h[T] = Third(T)
    OBVIOUS
  <2> HIDE DEF Last, Third, h
  <2> QED
    BY <1>3, <2>1, <2>2, <2>3, <2>4
<1>6. Folds(h)
  <2>1. h = [T \in Subsets |-> Step(h, T)]
    BY <1>5
  <2> HIDE DEF h, Folds
  <2> QED
    BY <1>4, <2>1
<1>7. PICK g : Folds(g) /\ Found(d) = g[{1, 2, 3}]
  <2> HIDE DEF Folds, h
  <2> QED
    BY <1>1, <1>2, <1>6
<1>8. \A T \in Subsets : g[T] = Step(g, T)
  <2>1. g = [T \in Subsets |-> Step(g, T)]
    BY <1>4, <1>7
  <2> HIDE DEF Subsets, Step
  <2> QED
    BY <2>1
<1>9. /\ {} \in Subsets /\ {1} \in Subsets /\ {1, 2} \in Subsets /\ {1, 2, 3} \in Subsets
      /\ {1} \ {1} = {} /\ {1, 2} \ {2} = {1} /\ {1, 2, 3} \ {3} = {1, 2}
      /\ Final({1}) = 1 /\ Final({1, 2}) = 2 /\ Final({1, 2, 3}) = 3
  OBVIOUS
<1> HIDE DEF Subsets, Last
<1>10. g[{}] = NothingFound
  BY <1>8, <1>9
<1>11. g[{1}] = Visit(d, NothingFound, "/usr/lib")
  BY <1>2, <1>8, <1>9, <1>10
<1>12. g[{1, 2}] = Visit(d, Visit(d, NothingFound, "/usr/lib"), "/run")
  BY <1>2, <1>8, <1>9, <1>11
<1>13. g[{1, 2, 3}]
         = Visit(d, Visit(d, Visit(d, NothingFound, "/usr/lib"), "/run"), "/etc")
  BY <1>2, <1>8, <1>9, <1>12
<1> HIDE DEF Folds
<1> QED
  BY <1>7, <1>13

(* What is found of a name is the entry that counts: it is found nowhere if *)
(* that is absent or a link to /dev/null, and in the directory of that      *)
(* entry otherwise.                                                         *)
LEMMA FoundIsCounting ==
  ASSUME NEW n \in FileNames
  PROVE  /\ Found(disk)[n] = NoDir <=> Counting(BaseDirs, n).kind \in {"absent", "masked"}
         /\ Found(disk)[n] # NoDir =>
              Found(disk)[n] \in Dirs /\ disk[Found(disk)[n]][n] = Counting(BaseDirs, n)
<1> DEFINE Here(i) == disk[BaseDirs[i]][n].kind # "absent"
           dirs == {i \in {1, 2, 3} : Here(i)}
           last == IF Here(3) THEN 3 ELSE IF Here(2) THEN 2 ELSE 1
<1>1. /\ DOMAIN BaseDirs = {1, 2, 3} /\ Dirs = {"/usr/lib", "/run", "/etc"}
      /\ BaseDirs[1] = "/usr/lib" /\ BaseDirs[2] = "/run" /\ BaseDirs[3] = "/etc"
      /\ NoDir \notin Dirs
  BY DEF BaseDirs, Dirs, Range, NoDir
<1>2. dirs # {} => Max(dirs) = last /\ Here(last)
  <2> SUFFICES ASSUME dirs # {}
               PROVE  Max(dirs) = last /\ Here(last)
    OBVIOUS
  <2> HIDE DEF Here
  <2>1. last \in dirs /\ \A x \in dirs : last >= x
    OBVIOUS
  <2>2. \A y \in dirs : (\A x \in dirs : y >= x) => y = last
    BY <2>1
  <2> QED
    BY <2>1, <2>2 DEF Max
<1>3. Counting(BaseDirs, n) = IF dirs = {} THEN Absent ELSE disk[BaseDirs[last]][n]
  <2>1. dirs # {} => disk[BaseDirs[Max(dirs)]][n] = disk[BaseDirs[last]][n]
    BY <1>2
  <2> HIDE DEF last
  <2> QED
    BY <1>1, <2>1 DEF Counting
<1>4. ASSUME NEW found
      PROVE  \A dir : Visit(disk, found, dir)[n]
                        = CASE disk[dir][n].kind = "absent" -> found[n]
                            [] disk[dir][n].kind = "masked" -> NoDir
                            [] OTHER -> dir
  BY DEF Visit
<1>5. Found(disk)[n] = IF dirs = {} \/ disk[BaseDirs[last]][n].kind = "masked"
                       THEN NoDir ELSE BaseDirs[last]
  <2> DEFINE f0 == NothingFound
             f1 == Visit(disk, f0, "/usr/lib")
             f2 == Visit(disk, f1, "/run")
             f3 == Visit(disk, f2, "/etc")
  <2>1. Found(disk) = f3 /\ f0[n] = NoDir
    BY FoundIsVisits DEF NothingFound
  <2>2. /\ Here(1) \/ f1[n] = f0[n]
        /\ Here(2) \/ f2[n] = f1[n]
        /\ Here(3) \/ f3[n] = f2[n]
    BY <1>1, <1>4
  <2>3. /\ Here(1) => f1[n] = IF disk[BaseDirs[1]][n].kind = "masked" THEN NoDir ELSE BaseDirs[1]
        /\ Here(2) => f2[n] = IF disk[BaseDirs[2]][n].kind = "masked" THEN NoDir ELSE BaseDirs[2]
        /\ Here(3) => f3[n] = IF disk[BaseDirs[3]][n].kind = "masked" THEN NoDir ELSE BaseDirs[3]
    BY <1>1, <1>4
  <2> HIDE DEF f0, f1, f2, f3, Here
  <2>4. CASE dirs = {}
    BY <2>1, <2>2, <2>4
  <2>5. CASE dirs # {}
    BY <2>1, <2>2, <2>3, <2>5
  <2> QED
    BY <2>4, <2>5
<1>6. Absent.kind = "absent"
  BY DEF Absent
<1>7. BaseDirs[last] \in Dirs
  BY <1>1
<1>8. CASE dirs = {}
  BY <1>3, <1>5, <1>6, <1>8
<1>9. CASE dirs # {}
  <2>1. /\ Counting(BaseDirs, n) = disk[BaseDirs[last]][n]
        /\ disk[BaseDirs[last]][n].kind # "absent"
    BY <1>2, <1>3, <1>9
  <2> HIDE DEF last, dirs
  <2> QED
    BY <1>1, <1>5, <1>7, <1>9, <2>1
<1> QED
  BY <1>8, <1>9

-----------------------------------------------------------------------------
(* The order of the names.                                                  *)

(* The ascending enumeration of finitely many names has each of them once,  *)
(* in their order.                                                          *)
LEMMA AscendingEnumerates ==
  ASSUME NEW S \in SUBSET Nat, IsFiniteSet(S)
  PROVE  /\ Cardinality(S) \in Nat /\ DOMAIN Ascending(S) = 1 .. Cardinality(S)
         /\ \A i \in 1 .. Cardinality(S) : Ascending(S)[i] \in S
         /\ \A n \in S : \E i \in 1 .. Cardinality(S) : Ascending(S)[i] = n
         /\ \A i, j \in 1 .. Cardinality(S) : i < j => Ascending(S)[i] < Ascending(S)[j]
<1> DEFINE c == Cardinality(S)
           Below(n) == {m \in S : m < n}
           rank == [n \in S |-> Cardinality(Below(n))]
           Ranks == 0 .. c - 1
<1>1. c \in Nat
  BY FS_CardinalityType
<1>2. \A n \in S : IsFiniteSet(Below(n)) /\ rank[n] \in Nat /\ rank[n] < c
  <2> SUFFICES ASSUME NEW n \in S
               PROVE  IsFiniteSet(Below(n)) /\ rank[n] \in Nat /\ rank[n] < c
    OBVIOUS
  <2>1. Below(n) \subseteq S /\ n \notin Below(n) /\ Below(n) # S
    OBVIOUS
  <2>2. rank[n] = Cardinality(Below(n))
    OBVIOUS
  <2> HIDE DEF Below, rank
  <2>3. /\ IsFiniteSet(Below(n)) /\ Cardinality(Below(n)) \in Nat
        /\ Cardinality(Below(n)) <= c /\ Cardinality(Below(n)) # c
    BY <2>1, FS_Subset, FS_CardinalityType
  <2> QED
    BY <1>1, <2>2, <2>3
<1>3. \A n, k \in S : n < k => rank[n] < rank[k]
  <2> SUFFICES ASSUME NEW n \in S, NEW k \in S, n < k
               PROVE  rank[n] < rank[k]
    OBVIOUS
  <2>1. Below(n) \subseteq Below(k) /\ n \in Below(k) /\ n \notin Below(n)
    <3>1. n \in Nat /\ k \in Nat /\ \A m \in S : m \in Nat
      OBVIOUS
    <3>2. ~(n < n) /\ \A m \in S : m < n => m < k
      BY <3>1
    <3>3. n \in Below(k) /\ n \notin Below(n)
      BY <3>2
    <3>4. Below(n) \subseteq Below(k)
      BY <3>2
    <3> QED
      BY <3>3, <3>4
  <2>2. rank[n] = Cardinality(Below(n)) /\ rank[k] = Cardinality(Below(k))
    OBVIOUS
  <2>3. IsFiniteSet(Below(k)) /\ rank[n] \in Nat /\ rank[k] \in Nat
    BY <1>2
  <2> HIDE DEF Below, rank
  <2>4. /\ Cardinality(Below(n)) <= Cardinality(Below(k))
        /\ Cardinality(Below(n)) # Cardinality(Below(k))
    BY <2>1, <2>3, FS_Subset
  <2> QED
    BY <2>2, <2>3, <2>4
<1>4. \A n, k \in S : rank[n] = rank[k] => n = k
  <2>1. \A n \in S : n \in Nat /\ rank[n] \in Nat
    BY <1>2
  <2> HIDE DEF rank
  <2>2. \A n, k \in S : n < k \/ k < n \/ n = k
    BY <2>1
  <2> QED
    BY <1>3, <2>1, <2>2
<1>5. rank \in Surjection(S, Ranks)
  <2>1. ASSUME NEW n \in S
        PROVE  rank[n] \in Ranks
    <3> HIDE DEF rank, c
    <3>1. rank[n] \in Nat /\ rank[n] < c
      BY <1>2
    <3> QED
      BY <1>1, <3>1
  <2>2. rank \in [S -> Ranks]
    <3> HIDE DEF Ranks
    <3> QED
      BY <2>1
  <2> HIDE DEF rank
  <2>3. rank \in Injection(S, Ranks)
    BY <1>4, <2>2 DEF Injection, IsInjective
  <2>4. IsFiniteSet(Ranks) /\ Cardinality(Ranks) = c
    <3>1. c - 1 \in Int
      BY <1>1
    <3>2. /\ IsFiniteSet(Ranks)
          /\ Cardinality(Ranks) = IF 0 > c - 1 THEN 0 ELSE (c - 1) - 0 + 1
      BY <3>1, FS_Interval
    <3> HIDE DEF c
    <3> QED
      BY <1>1, <3>2
  <2> HIDE DEF Ranks
  <2> QED
    BY <2>3, <2>4, FS_Injection
<1>6. ASSUME NEW i \in 1 .. c
      PROVE  Ascending(S)[i] \in S /\ rank[Ascending(S)[i]] = i - 1
  <2>1. i - 1 \in Ranks
    BY <1>1
  <2>2. PICK n \in S : rank[n] = i - 1
    <3> HIDE DEF rank, Ranks
    <3> QED
      BY <1>5, <2>1 DEF Surjection
  <2>3. Ascending(S)[i] = CHOOSE m \in S : Cardinality(Below(m)) = i - 1
    BY DEF Ascending
  <2> QED
    BY <2>2, <2>3
<1>7. DOMAIN Ascending(S) = 1 .. c
  BY DEF Ascending
<1>8. ASSUME NEW n \in S
      PROVE  \E i \in 1 .. c : Ascending(S)[i] = n
  <2> DEFINE i == rank[n] + 1
  <2>1. i \in 1 .. c /\ rank[n] = i - 1
    BY <1>1, <1>2
  <2> HIDE DEF i, rank
  <2>2. Ascending(S)[i] \in S /\ rank[Ascending(S)[i]] = rank[n]
    BY <1>6, <2>1
  <2>3. Ascending(S)[i] = n
    BY <1>4, <2>2
  <2> QED
    BY <2>1, <2>3
<1>9. ASSUME NEW i \in 1 .. c, NEW j \in 1 .. c, i < j
      PROVE  Ascending(S)[i] < Ascending(S)[j]
  <2> DEFINE a == Ascending(S)[i]
             b == Ascending(S)[j]
  <2>1. a \in S /\ rank[a] = i - 1 /\ b \in S /\ rank[b] = j - 1
    BY <1>6
  <2> HIDE DEF rank, c, a, b
  <2>2. a \in Nat /\ b \in Nat /\ i \in Nat /\ j \in Nat
    BY <1>1, <2>1
  <2>3. rank[a] < rank[b]
    BY <1>9, <2>1, <2>2
  <2>4. ~(b < a) /\ a # b
    BY <1>3, <2>1, <2>2, <2>3
  <2>5. a < b
    BY <2>2, <2>4
  <2> QED
    BY <2>5 DEF a, b
<1> HIDE DEF rank, c
<1> QED
  BY <1>1, <1>6, <1>7, <1>8, <1>9 DEF c

-----------------------------------------------------------------------------
(* What the files of a scan say.                                            *)

EntryAt(d, path) == d[path.dir][path.name]

FragmentsOf(d) == [i \in DOMAIN Paths(d) |-> EntryAt(d, Paths(d)[i]).fragment]

AllFiles(d) == \A i \in DOMAIN Paths(d) : EntryAt(d, Paths(d)[i]).kind = "file"

(* The entry of a name that counts is there, and is not a link to /dev/null. *)
Counts(n) == Counting(BaseDirs, n).kind \notin {"absent", "masked"}

(* The paths of the scan are those of the entries that count, each of them  *)
(* once, in the order of their names.                                       *)
LEMMA PathsAreCounting ==
  \E c \in Nat :
    /\ DOMAIN Paths(disk) = 1 .. c
    /\ \A i \in 1 .. c : LET path == Paths(disk)[i]
                         IN /\ path \in [dir : Dirs, name : FileNames]
                            /\ EntryAt(disk, path) = Counting(BaseDirs, path.name)
                            /\ Counts(path.name)
    /\ \A n \in FileNames : Counts(n) => \E i \in 1 .. c : Paths(disk)[i].name = n
    /\ \A i, j \in 1 .. c : i < j => Paths(disk)[i].name < Paths(disk)[j].name
<1> DEFINE S == {n \in FileNames : Found(disk)[n] # NoDir}
           names == Ascending(S)
           c == Cardinality(S)
           P == Paths(disk)
<1>1. S \in SUBSET Nat /\ IsFiniteSet(S) /\ S \subseteq FileNames
  BY FileNamesAssumption, FS_Subset
<1>2. /\ c \in Nat /\ DOMAIN names = 1 .. c
      /\ \A i \in 1 .. c : names[i] \in S
      /\ \A n \in S : \E i \in 1 .. c : names[i] = n
      /\ \A i, j \in 1 .. c : i < j => names[i] < names[j]
  <2> HIDE DEF S
  <2> QED
    BY <1>1, AscendingEnumerates
<1>3. \A n \in FileNames :
        /\ n \in S <=> Counts(n)
        /\ n \in S => /\ Found(disk)[n] \in Dirs
                      /\ disk[Found(disk)[n]][n] = Counting(BaseDirs, n)
  BY FoundIsCounting DEF Counts
<1>4. P = [i \in 1 .. c |-> [dir |-> Found(disk)[names[i]], name |-> names[i]]]
  BY <1>2 DEF Paths
<1> HIDE DEF S, names, c, P
<1>5. DOMAIN P = 1 .. c
  BY <1>4
<1>6. ASSUME NEW i \in 1 .. c
      PROVE  /\ P[i] = [dir |-> Found(disk)[names[i]], name |-> names[i]]
             /\ P[i] \in [dir : Dirs, name : FileNames]
             /\ P[i].name = names[i]
             /\ EntryAt(disk, P[i]) = Counting(BaseDirs, P[i].name)
             /\ Counts(P[i].name)
  <2>1. names[i] \in S /\ names[i] \in FileNames
    BY <1>1, <1>2
  <2>2. P[i] = [dir |-> Found(disk)[names[i]], name |-> names[i]]
    BY <1>4
  <2> QED
    BY <1>3, <2>1, <2>2 DEF EntryAt
<1>7. \A n \in FileNames : Counts(n) => \E i \in 1 .. c : P[i].name = n
  <2> SUFFICES ASSUME NEW n \in FileNames, Counts(n)
               PROVE  \E i \in 1 .. c : P[i].name = n
    OBVIOUS
  <2>1. n \in S
    BY <1>3
  <2>2. PICK i \in 1 .. c : names[i] = n
    BY <1>2, <2>1
  <2>3. P[i].name = names[i]
    BY <1>6
  <2> QED
    BY <2>2, <2>3
<1>8. \A i, j \in 1 .. c : i < j => P[i].name < P[j].name
  BY <1>2, <1>6
<1>9. \A i \in 1 .. c : /\ P[i] \in [dir : Dirs, name : FileNames]
                       /\ EntryAt(disk, P[i]) = Counting(BaseDirs, P[i].name)
                       /\ Counts(P[i].name)
  BY <1>6
<1> QED
  BY <1>2, <1>5, <1>7, <1>8, <1>9 DEF P

(* When all the paths of the scan are files, the last fragment that sets a  *)
(* directive is that of the last name whose entry counts and sets it.       *)
LEMMA LastOfIsSays ==
  ASSUME AllFiles(disk), NEW directive, NEW default
  PROVE  LastOf(FragmentsOf(disk), directive, default) = Says(BaseDirs, directive, default)
<1> DEFINE P == Paths(disk)
           F == FragmentsOf(disk)
           Entry(n) == Counting(BaseDirs, n)
           I == {i \in DOMAIN F : directive \in DOMAIN F[i].directives}
           S == {n \in FileNames : /\ Entry(n).kind = "file"
                                   /\ directive \in DOMAIN Entry(n).fragment.directives}
<1>1. PICK c \in Nat :
        /\ DOMAIN P = 1 .. c
        /\ \A i \in 1 .. c : /\ P[i] \in [dir : Dirs, name : FileNames]
                             /\ EntryAt(disk, P[i]) = Entry(P[i].name)
                             /\ Counts(P[i].name)
        /\ \A n \in FileNames : Counts(n) => \E i \in 1 .. c : P[i].name = n
        /\ \A i, j \in 1 .. c : i < j => P[i].name < P[j].name
  BY PathsAreCounting
<1>2. /\ DOMAIN F = 1 .. c
      /\ \A i \in 1 .. c : F[i] = Entry(P[i].name).fragment /\ Entry(P[i].name).kind = "file"
  BY <1>1 DEF FragmentsOf, AllFiles
<1>3. \A i \in 1 .. c : i \in I <=> P[i].name \in S
  BY <1>1, <1>2
<1>4. \A n \in S : \E i \in I : P[i].name = n
  <2>1. \A n \in S : n \in FileNames /\ Counts(n)
    BY DEF Counts
  <2> HIDE DEF S, I
  <2> QED
    BY <1>1, <1>3, <2>1
<1>5. I \in SUBSET Int /\ IsFiniteSet(I) /\ I \subseteq 1 .. c
  <2>1. I \subseteq 1 .. c /\ IsFiniteSet(1 .. c) /\ 1 .. c \subseteq Int
    BY <1>2, FS_Interval
  <2> HIDE DEF I
  <2> QED
    BY <2>1, FS_Subset
<1>6. LastOf(F, directive, default) = IF I = {} THEN default ELSE F[Max(I)].directives[directive]
  BY DEF LastOf
<1>7. Says(BaseDirs, directive, default)
        = IF S = {} THEN default ELSE Entry(Max(S)).fragment.directives[directive]
  BY DEF Says
<1>8. S \subseteq FileNames /\ S \subseteq Nat
  BY FileNamesAssumption
<1> HIDE DEF P, F, Entry, I, S
<1>9. CASE I = {}
  BY <1>4, <1>6, <1>7, <1>9 DEF F
<1>10. CASE I # {}
  <2> DEFINE i == Max(I)
             n == P[i].name
  <2>1. i \in I /\ \A j \in I : j <= i
    BY <1>5, <1>10, MaxIsGreatest
  <2> HIDE DEF i
  <2>2. i \in 1 .. c /\ n \in S
    BY <1>3, <1>5, <2>1
  <2>3. \A k \in S : k <= n
    <3> SUFFICES ASSUME NEW k \in S
                 PROVE  k <= n
      OBVIOUS
    <3>1. PICK j \in I : P[j].name = k
      BY <1>4
    <3>2. j \in 1 .. c /\ (j = i \/ j < i)
      BY <1>1, <1>5, <2>1, <2>2
    <3>3. n \in Nat /\ k \in Nat
      BY <1>8, <2>2
    <3>4. k = n \/ k < n
      BY <1>1, <2>2, <3>1, <3>2
    <3> HIDE DEF n
    <3> QED
      BY <3>3, <3>4
  <2> HIDE DEF n
  <2>4. Max(S) = n
    <3>1. \A k \in S : k \in Nat
      BY <1>8
    <3>2. \A k \in S : (\A m \in S : k >= m) => k = n
      BY <2>2, <2>3, <3>1
    <3>3. \A m \in S : n >= m
      BY <2>2, <2>3, <3>1
    <3> QED
      BY <2>2, <3>2, <3>3 DEF Max
  <2>5. F[i] = Entry(n).fragment
    BY <1>2, <2>2 DEF n
  <2> QED
    BY <1>6, <1>7, <1>10, <2>2, <2>4, <2>5 DEF i, F
<1> QED
  BY <1>9, <1>10

(* When all the paths of the scan are files, their windows are those of the *)
(* entries that count.                                                      *)
LEMMA WindowsAreOnDisk ==
  ASSUME AllFiles(disk)
  PROVE  UNION {f.windows : f \in Range(FragmentsOf(disk))} = WindowsOnDisk(BaseDirs)
<1> DEFINE P == Paths(disk)
           F == FragmentsOf(disk)
           Entry(n) == Counting(BaseDirs, n)
<1>1. PICK c \in Nat :
        /\ DOMAIN P = 1 .. c
        /\ \A i \in 1 .. c : /\ P[i] \in [dir : Dirs, name : FileNames]
                             /\ EntryAt(disk, P[i]) = Entry(P[i].name)
                             /\ Counts(P[i].name)
        /\ \A n \in FileNames : Counts(n) => \E i \in 1 .. c : P[i].name = n
  BY PathsAreCounting
<1>2. /\ DOMAIN F = 1 .. c
      /\ \A i \in 1 .. c : F[i] = Entry(P[i].name).fragment /\ Entry(P[i].name).kind = "file"
  BY <1>1 DEF FragmentsOf, AllFiles
<1>3. \A n \in FileNames : Entry(n).kind = "file" => \E i \in 1 .. c : P[i].name = n
  BY <1>1 DEF Counts
<1>4. \A i \in 1 .. c : P[i].name \in FileNames
  BY <1>1
<1> HIDE DEF P, F, Entry
<1>5. UNION {f.windows : f \in Range(F)} = UNION {F[i].windows : i \in 1 .. c}
  BY <1>2 DEF Range
<1>6. UNION {F[i].windows : i \in 1 .. c}
        = UNION {IF Entry(n).kind = "file" THEN Entry(n).fragment.windows ELSE {} : n \in FileNames}
  BY <1>2, <1>3, <1>4
<1> QED
  BY <1>5, <1>6 DEF WindowsOnDisk, Entry, F

(* The settings of an agent whose files are all there follow them.          *)
LEMMA ValidatedFollows ==
  ASSUME AllFiles(disk), settings = Validate(MergeFragments(FragmentsOf(disk)))
  PROVE  Follows(BaseDirs)
<1> DEFINE F == FragmentsOf(disk)
           cfg == MergeFragments(F)
           Told(directive, default) == Says(BaseDirs, directive, default)
           enabled == LastOf(F, "enabled", TRUE)
           allow_downgrade == LastOf(F, "allow_downgrade", FALSE)
           strategy == LastOf(F, "strategy", "")
           group == LastOf(F, "group", "")
           wariness == LastOf(F, "rollout_wariness", {})
           url == LastOf(F, "cincinnati.base_url", NoUrl)
<1>1. /\ enabled = Told("enabled", TRUE)
      /\ allow_downgrade = Told("allow_downgrade", FALSE)
      /\ strategy = Told("strategy", "")
      /\ group = Told("group", "")
      /\ wariness = Told("rollout_wariness", {})
      /\ url = Told("cincinnati.base_url", NoUrl)
  BY LastOfIsSays
<1>2. /\ settings.enabled = cfg.updates.enabled
      /\ settings.allow_downgrade = cfg.updates.allow_downgrade
      /\ settings.identity = Identity(cfg.identity)
      /\ settings.strategy = Strategy(cfg.updates, settings.identity)
      /\ settings.cincinnati = Substitute(cfg.cincinnati.base_url, settings.identity)
  BY DEF Validate
<1>3. /\ cfg.updates = UpdateInput(F) /\ cfg.identity = IdentityInput(F)
      /\ cfg.cincinnati = CincinnatiInput(F)
  BY DEF MergeFragments
<1>4. /\ cfg.updates.enabled = enabled
      /\ cfg.updates.allow_downgrade = allow_downgrade
      /\ cfg.updates.strategy = strategy
      /\ cfg.updates.intervals = Intervals(F)
  BY DEF MergeFragments, UpdateInput
<1>5. /\ cfg.identity.group = group
      /\ cfg.identity.rollout_wariness = wariness
      /\ cfg.cincinnati.base_url = url
  BY DEF MergeFragments, IdentityInput, CincinnatiInput
<1> HIDE DEF F, cfg, Told, enabled, allow_downgrade, strategy, group, wariness, url
<1>6. /\ settings.identity.group = IF group = "" THEN "default" ELSE group
      /\ settings.identity.rollout_wariness = wariness
      /\ settings.cincinnati.host = url.host
  <2>1. ASSUME NEW i
        PROVE  /\ Identity(i).group = IF i.group = "" THEN "default" ELSE i.group
               /\ Identity(i).rollout_wariness = i.rollout_wariness
    BY DEF Identity
  <2>2. ASSUME NEW u, NEW i
        PROVE  Substitute(u, i).host = u.host
    BY DEF Substitute
  <2>3. /\ settings.identity.group = Identity(cfg.identity).group
        /\ settings.identity.rollout_wariness = Identity(cfg.identity).rollout_wariness
        /\ settings.cincinnati.host
             = Substitute(cfg.cincinnati.base_url, settings.identity).host
    BY <1>2
  <2>4. /\ Identity(cfg.identity).group = IF group = "" THEN "default" ELSE group
        /\ Identity(cfg.identity).rollout_wariness = wariness
    BY <1>5, <2>1
  <2>5. Substitute(cfg.cincinnati.base_url, settings.identity).host = url.host
    BY <1>5, <2>2
  <2> QED
    BY <2>3, <2>4, <2>5
<1>7. /\ settings.strategy.label = IF strategy = "" THEN "immediate" ELSE strategy
      /\ settings.strategy.windows = IF strategy = "periodic" THEN Intervals(F) ELSE {}
  <2>1. ASSUME NEW u, NEW i
        PROVE  /\ Strategy(u, i).label = IF u.strategy = "" THEN "immediate" ELSE u.strategy
               /\ Strategy(u, i).windows = IF u.strategy = "periodic" THEN u.intervals ELSE {}
    BY DEF Strategy
  <2>2. /\ settings.strategy.label = Strategy(cfg.updates, settings.identity).label
        /\ settings.strategy.windows = Strategy(cfg.updates, settings.identity).windows
    BY <1>2
  <2>3. /\ Strategy(cfg.updates, settings.identity).label
             = IF strategy = "" THEN "immediate" ELSE strategy
        /\ Strategy(cfg.updates, settings.identity).windows
             = IF strategy = "periodic" THEN Intervals(F) ELSE {}
    BY <1>4, <2>1
  <2> QED
    BY <2>2, <2>3
<1>8. {<<i.start_day, i.start_time>> : i \in Intervals(F)}
        = UNION {{<<d, w.start_time>> : d \in w.days} : w \in WindowsOnDisk(BaseDirs)}
  <2> DEFINE W == WindowsOnDisk(BaseDirs)
             Interval(d, w) == [start_day |-> d, start_time |-> w.start_time,
                                length_minutes |-> w.length_minutes]
  <2>1. Intervals(F) = UNION {{Interval(d, w) : d \in w.days} : w \in W}
    <3>1. UNION {f.windows : f \in Range(F)} = W
      BY WindowsAreOnDisk DEF F
    <3> HIDE DEF W
    <3> QED
      BY <3>1 DEF Intervals
  <2>2. \A d, w : Interval(d, w).start_day = d /\ Interval(d, w).start_time = w.start_time
    OBVIOUS
  <2> HIDE DEF W, Interval
  <2> QED
    BY <2>1, <2>2 DEF W
<1>9. settings.strategy.label = "periodic" =>
        {<<i.start_day, i.start_time>> : i \in settings.strategy.windows}
          = UNION {{<<d, w.start_time>> : d \in w.days} : w \in WindowsOnDisk(BaseDirs)}
  <2> SUFFICES ASSUME settings.strategy.label = "periodic"
               PROVE  settings.strategy.windows = Intervals(F)
    BY <1>8
  <2> QED
    BY <1>7
<1> QED
  BY <1>1, <1>2, <1>4, <1>6, <1>7, <1>9 DEF Follows, Told

-----------------------------------------------------------------------------
(* The invariant.                                                           *)

(* What files may say.                                                      *)
FragmentSet == {e.fragment : e \in {f \in Entries : f.kind = "file"}}

(* What has been read, of the files found in d, and the paths left to read. *)
HasRead(d, read, left) ==
  /\ Len(read) + Len(left) = Len(Paths(d))
  /\ \A i \in 1 .. Len(left) : left[i] = Paths(d)[Len(read) + i]
  /\ \A i \in 1 .. Len(read) : EntryAt(d, Paths(d)[i]) = File(read[i])

(* A process that reads has read the first of the files it found, as they   *)
(* are, unless they have changed since.                                     *)
ReadInv ==
  /\ fragments \in Seq(FragmentSet)
  /\ pc \in {"none", "started"} => fragments = <<>>
  /\ pc = "reading" /\ fresh => HasRead(disk, fragments, paths)

(* The settings of a process are what its files become.                     *)
SettingsOf(d) == Validate(MergeFragments(FragmentsOf(d)))
LoadedInv == pc \in Loaded /\ fresh => AllFiles(disk) /\ settings = SettingsOf(disk)

(* After zincati-update-now its fragment is there, and the process that its *)
(* restart has led to has looked for its files since.                       *)
CommandInv ==
  /\ commanded => disk["/run"][UpdateNowName] = File(UpdateNow) /\ override
  /\ commanded /\ job = "none" /\ pc \notin {"none", "started"} => fresh

IInv == TypeOK /\ ReadInv /\ LoadedInv /\ CommandInv

(* An entry is absent, a link to /dev/null, broken, or a file with what it  *)
(* may say.                                                                 *)
LEMMA EntryKinds ==
  \A e \in Entries : /\ e.kind \in {"absent", "masked", "broken", "file"}
                     /\ e.kind = "file" => e = File(e.fragment)
<1>1. /\ Absent.kind = "absent" /\ Masked.kind = "masked" /\ Broken.kind = "broken"
      /\ \A f : File(f).kind = "file" /\ File(f).fragment = f
  BY DEF Absent, Masked, Broken, File
<1>2. \A e \in Entries : e \in {Absent, Masked, Broken} \/ e = File(e.fragment)
  <2>1. \A e \in DistEntries : e \in {Absent, Masked} \/ e = File(e.fragment)
    BY DistAssumption DEF DistEntries, Range
  <2>2. \A e \in AdminEntries : e \in {Absent, Masked, Broken} \/ e = File(e.fragment)
    BY <1>1 DEF AdminEntries
  <2> QED
    BY <1>1, <2>1, <2>2 DEF Entries
<1> SUFFICES ASSUME NEW e \in Entries
             PROVE  /\ e.kind \in {"absent", "masked", "broken", "file"}
                    /\ e.kind = "file" => e = File(e.fragment)
  OBVIOUS
<1>3. CASE e \in {Absent, Masked, Broken}
  BY <1>1, <1>3
<1>4. CASE e = File(e.fragment)
  BY <1>1, <1>4
<1> QED
  BY <1>2, <1>3, <1>4

(* What a file says is a fragment.                                          *)
LEMMA FileEntries ==
  /\ \A e \in Entries : e.kind = "file" => e.fragment \in FragmentSet
  /\ \A f \in FragmentSet : File(f) \in Entries
  /\ Empty \in FragmentSet
<1>1. \A e \in Entries : e.kind = "file" => e.fragment \in FragmentSet
  BY DEF FragmentSet
<1>2. ASSUME NEW f \in FragmentSet
      PROVE  File(f) \in Entries
  <2>1. PICK e \in Entries : e.kind = "file" /\ f = e.fragment
    BY DEF FragmentSet
  <2> QED
    BY <2>1, EntryKinds
<1>3. Empty \in FragmentSet
  <2>1. File(Empty) \in Entries /\ File(Empty).kind = "file" /\ File(Empty).fragment = Empty
    BY DEF Entries, File
  <2> QED
    BY <1>1, <2>1
<1> QED
  BY <1>1, <1>2, <1>3

(* The entry of a path is an entry.                                         *)
LEMMA EntryIsTyped ==
  ASSUME disk \in [Dirs -> [FileNames -> Entries]], NEW path \in [dir : Dirs, name : FileNames]
  PROVE  EntryAt(disk, path) \in Entries
  BY DEF EntryAt

(* The paths of a scan, as a sequence.                                      *)
LEMMA PathsTyped == Paths(disk) \in Seq([dir : Dirs, name : FileNames])
<1>1. PICK c \in Nat : /\ DOMAIN Paths(disk) = 1 .. c
                      /\ \A i \in 1 .. c : Paths(disk)[i] \in [dir : Dirs, name : FileNames]
  BY PathsAreCounting
<1> DEFINE P == Paths(disk)
<1>2. P = [i \in DOMAIN P |-> P[i]]
  BY DEF Paths
<1>3. DOMAIN P = 1 .. c /\ \A i \in 1 .. c : P[i] \in [dir : Dirs, name : FileNames]
  BY <1>1
<1> DEFINE T == [dir : Dirs, name : FileNames]
<1> HIDE DEF P, T
<1>4. P \in [1 .. c -> T]
  BY <1>2, <1>3 DEF T
<1>5. P \in Seq(T)
  <2> DEFINE Sequences(n) == [1 .. n -> T]
  <2>1. Seq(T) = UNION {Sequences(n) : n \in Nat}
    BY SeqDef
  <2> QED
    BY <1>4, <2>1
<1> QED
  BY <1>5 DEF P, T

(* When nothing is left to read, everything has been read as it is.         *)
LEMMA EverythingRead ==
  ASSUME NEW d, Paths(d) \in Seq([dir : Dirs, name : FileNames]),
         NEW read \in Seq(FragmentSet), HasRead(d, read, <<>>)
  PROVE  AllFiles(d) /\ read = FragmentsOf(d)
<1> DEFINE P == Paths(d)
           n == Len(read)
<1>1. /\ n \in Nat /\ Len(P) \in Nat /\ DOMAIN P = 1 .. Len(P)
      /\ read = [i \in 1 .. n |-> read[i]]
  <2> HIDE DEF P
  <2> QED
    BY DEF P
<1>2. n + 0 = Len(P) /\ \A i \in 1 .. n : EntryAt(d, P[i]) = File(read[i])
  BY DEF HasRead
<1>3. \A f : File(f).kind = "file" /\ File(f).fragment = f
  BY DEF File
<1> HIDE DEF P, n
<1>4. DOMAIN P = 1 .. n
  BY <1>1, <1>2
<1>5. AllFiles(d)
  BY <1>2, <1>3, <1>4 DEF AllFiles, P
<1>6. FragmentsOf(d) = [i \in 1 .. n |-> EntryAt(d, P[i]).fragment]
  BY <1>4 DEF FragmentsOf, P
<1>7. \A i \in 1 .. n : EntryAt(d, P[i]).fragment = read[i]
  BY <1>2, <1>3
<1> QED
  BY <1>1, <1>5, <1>6, <1>7

(* Reading one more file.                                                   *)
LEMMA OneMoreRead ==
  ASSUME NEW d, NEW read \in Seq(FragmentSet), NEW left \in Seq([dir : Dirs, name : FileNames]),
         left # <<>>, HasRead(d, read, left),
         NEW f \in FragmentSet, EntryAt(d, Head(left)) = File(f)
  PROVE  HasRead(d, Append(read, f), Tail(left))
<1> DEFINE n == Len(read)
           m == Len(left)
           read1 == Append(read, f)
           left1 == Tail(left)
<1>1. /\ n \in Nat /\ m \in Nat /\ m # 0
      /\ Len(read1) = n + 1 /\ Len(left1) = m - 1
  OBVIOUS
<1>2. /\ Head(left) = left[1] /\ read1[n + 1] = f
      /\ \A i \in 1 .. n : read1[i] = read[i]
      /\ \A i \in 1 .. m - 1 : left1[i] = left[i + 1]
  OBVIOUS
<1>3. /\ \A i \in 1 .. m : left[i] = Paths(d)[n + i]
      /\ \A i \in 1 .. n : EntryAt(d, Paths(d)[i]) = File(read[i])
  BY DEF HasRead
<1>4. n + m = Len(Paths(d))
  BY DEF HasRead
<1> HIDE DEF n, m, read1, left1
<1>5. Len(read1) + Len(left1) = Len(Paths(d))
  <2>1. (n + 1) + (m - 1) = n + m
    BY <1>1
  <2> QED
    BY <1>1, <1>4, <2>1
<1>6. ASSUME NEW i \in 1 .. Len(left1)
      PROVE  left1[i] = Paths(d)[Len(read1) + i]
  <2>1. i \in Nat /\ i \in 1 .. m - 1 /\ i + 1 \in 1 .. m
    BY <1>1
  <2>2. n + (i + 1) = (n + 1) + i
    BY <1>1, <2>1
  <2> QED
    BY <1>1, <1>2, <1>3, <2>1, <2>2
<1>7. ASSUME NEW i \in 1 .. Len(read1)
      PROVE  EntryAt(d, Paths(d)[i]) = File(read1[i])
  <2>1. CASE i = n + 1
    <3>1. left[1] = Paths(d)[n + 1]
      BY <1>1, <1>3
    <3> QED
      BY <1>2, <2>1, <3>1
  <2>2. CASE i # n + 1
    <3>1. i \in 1 .. n
      BY <1>1, <2>2
    <3> QED
      BY <1>2, <1>3, <3>1
  <2> QED
    BY <2>1, <2>2
<1> QED
  BY <1>5, <1>6, <1>7 DEF HasRead, read1, left1

(* What is read next of unchanged files is not a link to /dev/null.         *)
LEMMA NextIsThere ==
  ASSUME NEW read \in Seq(FragmentSet), NEW left \in Seq([dir : Dirs, name : FileNames]),
         left # <<>>, HasRead(disk, read, left)
  PROVE  EntryAt(disk, Head(left)).kind \notin {"absent", "masked"}
<1>1. PICK c \in Nat :
        /\ DOMAIN Paths(disk) = 1 .. c
        /\ \A i \in 1 .. c : /\ EntryAt(disk, Paths(disk)[i])
                                  = Counting(BaseDirs, Paths(disk)[i].name)
                             /\ Counts(Paths(disk)[i].name)
  BY PathsAreCounting
<1> DEFINE n == Len(read)
<1>2. n \in Nat /\ Len(left) \in Nat \ {0} /\ Head(left) = left[1]
  OBVIOUS
<1>3. Len(Paths(disk)) = c
  BY <1>1, PathsTyped
<1> HIDE DEF n
<1>4. Head(left) = Paths(disk)[n + 1] /\ n + 1 \in 1 .. c
  BY <1>2, <1>3 DEF HasRead, n
<1> QED
  BY <1>1, <1>4 DEF Counts

(* What a valid configuration becomes is not what stands for no settings.   *)
LEMMA ValidatedIsLoaded == ASSUME NEW cfg PROVE Validate(cfg) # NoSettings
<1>1. "loaded" \in DOMAIN NoSettings
  BY DEF NoSettings
<1>2. "loaded" \notin DOMAIN Validate(cfg)
  BY DEF Validate
<1> QED
  BY <1>1, <1>2

(* What the OS has is an entry for each name.                               *)
LEMMA DistTyped == DistConfig \in [FileNames -> Entries]
<1>1. \A n \in FileNames : DistConfig[n] \in Entries
  BY DistAssumption DEF Entries, DistEntries, Range
<1>2. DistConfig = [n \in FileNames |-> DistConfig[n]]
  BY DistAssumption
<1> QED
  BY <1>1, <1>2

(* The invariant holds initially.                                           *)
LEMMA InitIInv == Init => IInv
<1> SUFFICES ASSUME Init PROVE IInv
  OBVIOUS
<1>1. Absent \in Entries
  BY DEF Entries, AdminEntries
<1>2. disk \in [Dirs -> [FileNames -> Entries]]
  BY <1>1, DistTyped DEF Init
<1>3. /\ fragments = <<>> /\ paths = <<>> /\ pc = "none" /\ ~commanded
      /\ paths \in Seq([dir : Dirs, name : FileNames]) /\ fragments \in Seq(FragmentSet)
  BY DEF Init
<1>4. TypeOK
  <2>1. \A i \in DOMAIN fragments : File(fragments[i]) \in Entries
    BY <1>3
  <2>2. pc \in Phases /\ pc \notin Loaded
    BY <1>3 DEF Phases, Loaded
  <2>3. interventions \in 0 .. MaxInterventions
    BY InterventionsAssumption DEF Init
  <2> QED
    BY <1>2, <1>3, <2>1, <2>2, <2>3 DEF Init, TypeOK
<1>5. ReadInv /\ LoadedInv /\ CommandInv
  BY <1>3 DEF ReadInv, LoadedInv, CommandInv, Loaded
<1> QED
  BY <1>4, <1>5 DEF IInv

(* However a process ends, the invariant holds of what is left.             *)
LEMMA EndKeepsIInv ==
  ASSUME IInv, NoProcess, unit' \in {"dead", "auto-restart"},
         UNCHANGED <<disk, override, job, script, fresh, commanded>>,
         socket' \in BOOLEAN, wanted' \in BOOLEAN, interventions' \in 0 .. MaxInterventions
  PROVE  IInv'
<1>1. /\ pc' = "none" /\ paths' = <<>> /\ fragments' = <<>> /\ settings' = NoSettings
      /\ paths' \in Seq([dir : Dirs, name : FileNames]) /\ fragments' \in Seq(FragmentSet)
      /\ DOMAIN fragments' = {}
  BY DEF NoProcess
<1>2. TypeOK'
  <2>1. \A i \in DOMAIN fragments' : File(fragments'[i]) \in Entries
    BY <1>1
  <2>2. /\ pc' \in Phases /\ pc' \notin Loaded
        /\ unit' # "active" /\ unit' \in {"dead", "active", "auto-restart"}
    BY <1>1 DEF Phases, Loaded
  <2>3. /\ disk \in [Dirs -> [FileNames -> Entries]] /\ override \in BOOLEAN
        /\ job \in {"none", "restart", "stop"}
        /\ script \in {"idle", "opened", "written", "done"}
        /\ fresh \in BOOLEAN /\ commanded \in BOOLEAN
    BY DEF IInv, TypeOK
  <2> QED
    BY <1>1, <2>1, <2>2, <2>3 DEF TypeOK
<1>3. ReadInv' /\ LoadedInv'
  BY <1>1 DEF ReadInv, LoadedInv, Loaded
<1>4. CommandInv'
  BY <1>1 DEF IInv, CommandInv
<1> QED
  BY <1>2, <1>3, <1>4 DEF IInv

(* A change of a file makes no claim about the settings that were read, or  *)
(* will be.                                                                 *)
LEMMA ChangeKeepsIInv ==
  ASSUME IInv, disk' \in [Dirs -> [FileNames -> Entries]], ~fresh', ~commanded',
         UNCHANGED <<processVars, unit>>,
         fresh' \in BOOLEAN, commanded' \in BOOLEAN,
         socket' \in BOOLEAN, override' \in BOOLEAN, job' \in {"none", "restart", "stop"},
         script' \in {"idle", "opened", "written", "done"},
         wanted' \in BOOLEAN, interventions' \in 0 .. MaxInterventions
  PROVE  IInv'
<1>1. TypeOK'
  BY DEF IInv, TypeOK, processVars
<1>2. ReadInv' /\ LoadedInv' /\ CommandInv'
  BY DEF IInv, ReadInv, LoadedInv, CommandInv, processVars
<1> QED
  BY <1>1, <1>2 DEF IInv

(* Writing one entry of one name in one directory.                          *)
LEMMA WriteTyped ==
  ASSUME disk \in [Dirs -> [FileNames -> Entries]],
         NEW dir \in Dirs, NEW n \in FileNames, NEW entry \in Entries, Writes(dir, n, entry)
  PROVE  disk' \in [Dirs -> [FileNames -> Entries]] /\ fresh' = FALSE /\ commanded' = FALSE
  BY DEF Writes

(* A new process has read nothing yet.                                      *)
LEMMA StartKeepsIInv ==
  ASSUME IInv, pc = "none", StartsProcess, job' \in {"none", "restart", "stop"},
         UNCHANGED <<fileVars, script, wanted, fresh, commanded, interventions>>
  PROVE  IInv'
<1>1. pc' = "started" /\ unit' = "active" /\ UNCHANGED <<paths, fragments, settings>>
  BY DEF StartsProcess
<1>2. TypeOK'
  BY <1>1 DEF IInv, TypeOK, fileVars, Phases, Loaded
<1>3. ReadInv' /\ LoadedInv' /\ CommandInv'
  BY <1>1 DEF IInv, ReadInv, LoadedInv, CommandInv, Loaded, fileVars
<1> QED
  BY <1>2, <1>3 DEF IInv

(* Reading a file keeps track of it.                                        *)
LEMMA ReadKeepsIInv == IInv /\ ReadNext => IInv'
<1> SUFFICES ASSUME IInv, ReadNext PROVE IInv'
  OBVIOUS
<1> DEFINE entry == EntryAt(disk, Head(paths))
<1>1. /\ pc = "reading" /\ paths # <<>>
      /\ UNCHANGED <<fileVars, job, script, wanted, fresh, commanded, interventions>>
  BY DEF ReadNext, Unsupervised
<1>2. /\ paths \in Seq([dir : Dirs, name : FileNames]) /\ fragments \in Seq(FragmentSet)
      /\ disk \in [Dirs -> [FileNames -> Entries]] /\ TypeOK
  BY DEF IInv, TypeOK, ReadInv
<1>3. /\ Head(paths) \in [dir : Dirs, name : FileNames]
      /\ Tail(paths) \in Seq([dir : Dirs, name : FileNames])
  BY <1>1, <1>2, HeadTailProperties
<1>4. entry \in Entries
  BY <1>2, <1>3, EntryIsTyped
<1>5. \/ /\ entry.kind = "file" /\ fragments' = Append(fragments, entry.fragment)
         /\ paths' = Tail(paths) /\ UNCHANGED <<pc, settings, unit>>
      \/ /\ entry.kind = "masked" /\ fragments' = Append(fragments, Empty)
         /\ paths' = Tail(paths) /\ UNCHANGED <<pc, settings, unit>>
      \/ ExitsFailure
  BY DEF ReadNext, EntryAt
<1> HIDE DEF entry
<1>6. ASSUME NEW f \in FragmentSet, fragments' = Append(fragments, f), paths' = Tail(paths),
             UNCHANGED <<pc, settings, unit>>, fresh => entry = File(f)
      PROVE  IInv'
  <2>1. /\ fragments' \in Seq(FragmentSet)
        /\ paths' \in Seq([dir : Dirs, name : FileNames])
    BY <1>2, <1>3, <1>6
  <2>2. \A i \in DOMAIN fragments' : File(fragments'[i]) \in Entries
    BY <2>1, FileEntries
  <2>3. TypeOK'
    BY <1>1, <1>2, <1>6, <2>1, <2>2 DEF TypeOK, fileVars
  <2>4. ASSUME fresh
        PROVE  HasRead(disk, fragments', paths')
    BY <1>1, <1>2, <1>6, <2>4, OneMoreRead DEF IInv, ReadInv, entry
  <2>5. ReadInv'
    BY <1>1, <1>6, <2>1, <2>4 DEF ReadInv, fileVars
  <2>6. LoadedInv' /\ CommandInv'
    BY <1>1, <1>6 DEF IInv, LoadedInv, CommandInv, Loaded, fileVars
  <2> QED
    BY <2>3, <2>5, <2>6 DEF IInv
<1>7. CASE entry.kind = "file" /\ fragments' = Append(fragments, entry.fragment)
           /\ paths' = Tail(paths) /\ UNCHANGED <<pc, settings, unit>>
  <2>1. entry = File(entry.fragment) /\ entry.fragment \in FragmentSet
    BY <1>4, <1>7, EntryKinds, FileEntries
  <2> QED
    BY <1>6, <1>7, <2>1
<1>8. CASE entry.kind = "masked" /\ fragments' = Append(fragments, Empty)
           /\ paths' = Tail(paths) /\ UNCHANGED <<pc, settings, unit>>
  <2>1. ~fresh
    <3> SUFFICES ASSUME fresh PROVE FALSE
      OBVIOUS
    <3>1. HasRead(disk, fragments, paths)
      BY <1>1 DEF IInv, ReadInv
    <3> QED
      BY <1>1, <1>2, <1>8, <3>1, NextIsThere DEF entry
  <2>2. Empty \in FragmentSet
    BY FileEntries
  <2> QED
    BY <1>6, <1>8, <2>1, <2>2
<1>9. CASE ExitsFailure
  BY <1>1, <1>2, <1>9, EndKeepsIInv DEF ExitsFailure, fileVars, TypeOK
<1> QED
  BY <1>5, <1>7, <1>8, <1>9

(* The settings are what all the files that were read become.               *)
LEMMA AssembleKeepsIInv == IInv /\ Assemble => IInv'
<1> SUFFICES ASSUME IInv, Assemble PROVE IInv'
  OBVIOUS
<1>1. /\ pc = "reading" /\ paths = <<>> /\ TypeOK /\ fragments \in Seq(FragmentSet)
      /\ UNCHANGED <<fileVars, job, script, wanted, fresh, commanded, interventions>>
  BY DEF Assemble, Unsupervised, IInv, ReadInv
<1>2. \/ /\ settings' = Validate(MergeFragments(fragments)) /\ fragments' = <<>>
         /\ pc' = "binding" /\ UNCHANGED <<paths, unit>>
      \/ ExitsFailure
  BY DEF Assemble
<1>3. CASE /\ settings' = Validate(MergeFragments(fragments)) /\ fragments' = <<>>
           /\ pc' = "binding" /\ UNCHANGED <<paths, unit>>
  <2>1. settings' # NoSettings
    BY <1>3, ValidatedIsLoaded
  <2>2. DOMAIN fragments' = {} /\ fragments' \in Seq(FragmentSet)
    BY <1>3
  <2>3. TypeOK'
    BY <1>1, <1>3, <2>1, <2>2 DEF TypeOK, fileVars, Phases, Loaded
  <2>4. ASSUME fresh
        PROVE  AllFiles(disk) /\ settings' = SettingsOf(disk)
    <3>1. HasRead(disk, fragments, <<>>)
      BY <1>1, <2>4 DEF IInv, ReadInv
    <3>2. AllFiles(disk) /\ fragments = FragmentsOf(disk)
      BY <1>1, <3>1, PathsTyped, EverythingRead
    <3> QED
      BY <1>3, <3>2 DEF SettingsOf
  <2>5. LoadedInv'
    BY <1>1, <2>4 DEF LoadedInv, fileVars
  <2>6. ReadInv' /\ CommandInv'
    BY <1>1, <1>3, <2>2 DEF IInv, ReadInv, CommandInv, fileVars
  <2> QED
    BY <2>3, <2>5, <2>6 DEF IInv
<1>4. CASE ExitsFailure
  BY <1>1, <1>4, EndKeepsIInv DEF ExitsFailure, fileVars, TypeOK
<1> QED
  BY <1>2, <1>3, <1>4

(* The other steps of the process.                                          *)
LEMMA ProcessKeepsIInv == IInv /\ ProcessStep => IInv'
<1> SUFFICES ASSUME IInv, ProcessStep PROVE IInv'
  OBVIOUS
<1>1. TypeOK
  BY DEF IInv
<1>2. CASE ScanDirs
  <2>1. /\ pc = "started" /\ pc' = "reading" /\ paths' = Paths(disk) /\ fresh' = TRUE
        /\ UNCHANGED <<fragments, settings, unit>>
        /\ UNCHANGED <<fileVars, job, script, wanted, commanded, interventions>>
    BY <1>2 DEF ScanDirs, Unsupervised
  <2>2. paths' \in Seq([dir : Dirs, name : FileNames])
    BY <2>1, PathsTyped
  <2>3. TypeOK'
    BY <1>1, <2>1, <2>2 DEF TypeOK, fileVars, Phases, Loaded
  <2>4. fragments = <<>> /\ fragments \in Seq(FragmentSet)
    BY <2>1 DEF IInv, ReadInv
  <2>5. HasRead(disk, <<>>, Paths(disk))
    <3> DEFINE P == Paths(disk)
    <3>1. Len(<<>>) = 0 /\ Len(P) \in Nat
      BY PathsTyped
    <3> HIDE DEF P
    <3>2. \A i \in 1 .. Len(P) : P[i] = P[0 + i]
      BY <3>1
    <3> QED
      BY <3>1, <3>2 DEF HasRead, P
  <2>6. ReadInv'
    BY <2>1, <2>4, <2>5 DEF ReadInv, fileVars
  <2>7. LoadedInv' /\ CommandInv'
    BY <2>1 DEF IInv, LoadedInv, CommandInv, Loaded, fileVars
  <2> QED
    BY <2>3, <2>6, <2>7 DEF IInv
<1>3. CASE ReadNext
  BY <1>3, ReadKeepsIInv
<1>4. CASE AssembleFails
  BY <1>1, <1>4, EndKeepsIInv DEF AssembleFails, Unsupervised, ExitsFailure, fileVars, TypeOK
<1>5. CASE Assemble
  BY <1>5, AssembleKeepsIInv
<1>6. ASSUME pc \in {"binding", "initializing"}, pc' \in {"initializing", "ready"},
             UNCHANGED <<disk, override, paths, fragments, settings, unit, job, script,
                         wanted, fresh, commanded, interventions>>,
             socket' \in BOOLEAN
      PROVE  IInv'
  <2>1. TypeOK'
    BY <1>1, <1>6 DEF TypeOK, Phases, Loaded
  <2>2. ReadInv' /\ LoadedInv' /\ CommandInv'
    BY <1>6 DEF IInv, ReadInv, LoadedInv, CommandInv, Loaded
  <2> QED
    BY <2>1, <2>2 DEF IInv
<1>7. CASE BindSocket
  BY <1>6, <1>7 DEF BindSocket
<1>8. CASE BindSocketFails
  BY <1>1, <1>8, EndKeepsIInv DEF BindSocketFails, ExitsFailure, TypeOK
<1>9. CASE NotifyReady
  BY <1>1, <1>6, <1>9 DEF NotifyReady, Unsupervised, fileVars, TypeOK
<1>10. CASE Crashes
  BY <1>1, <1>10, EndKeepsIInv DEF Crashes, Unsupervised, ExitsFailure, fileVars, TypeOK
<1> QED
  BY <1>2, <1>3, <1>4, <1>5, <1>7, <1>8, <1>9, <1>10 DEF ProcessStep

(* The steps of the service manager.                                        *)
LEMMA ManagerKeepsIInv == IInv /\ ManagerStep => IInv'
<1> SUFFICES ASSUME IInv, ManagerStep PROVE IInv'
  OBVIOUS
<1>1. TypeOK
  BY DEF IInv
<1>2. CASE StartTimesOut
  BY <1>1, <1>2, EndKeepsIInv DEF StartTimesOut, Unsupervised, ExitsFailure, fileVars, TypeOK
<1>3. CASE AutoRestarts
  <2>1. pc = "none"
    BY <1>1, <1>3 DEF AutoRestarts, TypeOK
  <2> QED
    BY <1>1, <1>3, <2>1, StartKeepsIInv DEF AutoRestarts, Unsupervised, TypeOK
<1>4. CASE JobTerminates
  BY <1>1, <1>4, EndKeepsIInv DEF JobTerminates, ExitsSuccess, fileVars, TypeOK
<1>5. CASE JobEnds
  <2>1. pc = "none" /\ job' = "none"
    BY <1>1, <1>5 DEF JobEnds, TypeOK
  <2>2. CASE job = "restart"
    BY <1>5, <2>1, <2>2, StartKeepsIInv DEF JobEnds
  <2>3. CASE job # "restart"
    <3>1. UNCHANGED <<fileVars, processVars, unit, script, wanted, fresh, commanded, interventions>>
      BY <1>5, <2>3 DEF JobEnds
    <3>2. TypeOK'
      BY <1>1, <2>1, <3>1 DEF TypeOK, fileVars, processVars
    <3>3. ReadInv' /\ LoadedInv' /\ CommandInv'
      BY <2>1, <3>1 DEF IInv, ReadInv, LoadedInv, CommandInv, fileVars, processVars
    <3> QED
      BY <3>2, <3>3 DEF IInv
  <2> QED
    BY <2>2, <2>3
<1> QED
  BY <1>2, <1>3, <1>4, <1>5 DEF ManagerStep

(* The steps of the script.                                                 *)
LEMMA ScriptKeepsIInv == IInv /\ ScriptStep => IInv'
<1> SUFFICES ASSUME IInv, ScriptStep PROVE IInv'
  OBVIOUS
<1>1. TypeOK /\ disk \in [Dirs -> [FileNames -> Entries]]
  BY DEF IInv, TypeOK
<1>2. /\ "/run" \in Dirs /\ UpdateNowName \in FileNames
      /\ File(Empty) \in Entries /\ File(UpdateNow) \in Entries
  BY DistAssumption DEF Dirs, Range, BaseDirs, Entries
<1>3. CASE UpdateNowOpens
  <2>1. /\ disk' \in [Dirs -> [FileNames -> Entries]] /\ fresh' = FALSE /\ commanded' = FALSE
    BY <1>1, <1>2, <1>3, WriteTyped DEF UpdateNowOpens
  <2> QED
    BY <1>1, <1>3, <2>1, ChangeKeepsIInv DEF UpdateNowOpens, TypeOK
<1>4. CASE UpdateNowWrites
  <2>1. /\ disk' \in [Dirs -> [FileNames -> Entries]] /\ fresh' = FALSE /\ commanded' = FALSE
    BY <1>1, <1>2, <1>4, WriteTyped DEF UpdateNowWrites
  <2> QED
    BY <1>1, <1>4, <2>1, ChangeKeepsIInv DEF UpdateNowWrites, TypeOK
<1>5. CASE UpdateNowRestarts
  <2>1. /\ script' = "done" /\ override' = TRUE /\ job' = "restart" /\ wanted' = TRUE
        /\ commanded' = (disk["/run"][UpdateNowName] = File(UpdateNow))
        /\ UNCHANGED <<disk, socket, processVars, unit, fresh, interventions>>
    BY <1>5 DEF UpdateNowRestarts, Enqueues
  <2>2. TypeOK'
    BY <1>1, <2>1 DEF TypeOK, processVars
  <2>3. ReadInv' /\ LoadedInv'
    BY <2>1 DEF IInv, ReadInv, LoadedInv, processVars
  <2>4. CommandInv'
    BY <2>1 DEF CommandInv
  <2> QED
    BY <2>2, <2>3, <2>4 DEF IInv
<1> QED
  BY <1>3, <1>4, <1>5 DEF ScriptStep

(* The steps of the administrator.                                          *)
LEMMA AdminKeepsIInv == IInv /\ AdminStep => IInv'
<1> SUFFICES ASSUME IInv, AdminStep PROVE IInv'
  OBVIOUS
<1>1. TypeOK /\ disk \in [Dirs -> [FileNames -> Entries]]
  BY DEF IInv, TypeOK
<1>2. Intervenes => interventions' \in 0 .. MaxInterventions
  BY <1>1, InterventionsAssumption DEF Intervenes, TypeOK
<1>3. ASSUME NEW dir \in {"/run", "/etc"}, NEW n \in FileNames, NEW entry \in AdminEntries,
             AdminEdits(dir, n, entry)
      PROVE  IInv'
  <2>1. dir \in Dirs /\ entry \in Entries
    BY DEF Dirs, Range, BaseDirs, Entries
  <2>2. /\ disk' \in [Dirs -> [FileNames -> Entries]] /\ fresh' = FALSE /\ commanded' = FALSE
    BY <1>1, <1>3, <2>1, WriteTyped DEF AdminEdits
  <2> QED
    BY <1>1, <1>2, <1>3, <2>2, ChangeKeepsIInv DEF AdminEdits, TypeOK
<1>4. ASSUME NEW command \in {"restart", "stop"}, AdminCommands(command)
      PROVE  IInv'
  <2>1. /\ job' = command /\ wanted' = (command = "restart")
        /\ UNCHANGED <<fileVars, processVars, unit, script, fresh, commanded>>
        /\ interventions' \in 0 .. MaxInterventions
    BY <1>2, <1>4 DEF AdminCommands, Enqueues
  <2>2. TypeOK'
    BY <1>1, <2>1 DEF TypeOK, fileVars, processVars
  <2>3. ReadInv' /\ LoadedInv' /\ CommandInv'
    BY <2>1 DEF IInv, ReadInv, LoadedInv, CommandInv, fileVars, processVars
  <2> QED
    BY <2>2, <2>3 DEF IInv
<1>5. CASE Killed
  BY <1>1, <1>2, <1>5, EndKeepsIInv DEF Killed, ExitsSuccess, fileVars, TypeOK
<1>6. CASE Reboots
  <2>1. /\ pc' = "none" /\ paths' = <<>> /\ fragments' = <<>> /\ settings' = NoSettings
        /\ socket' = FALSE /\ override' = FALSE
        /\ unit' = "dead" /\ job' = "restart" /\ script' = "idle"
        /\ wanted' = TRUE /\ fresh' = FALSE /\ commanded' = FALSE
        /\ interventions' \in 0 .. MaxInterventions
    BY <1>2, <1>6 DEF Reboots, NoProcess
  <2>2. disk' \in [Dirs -> [FileNames -> Entries]]
    <3>1. Absent \in Entries
      BY DEF Entries, AdminEntries
    <3> QED
      BY <1>1, <1>6, <3>1 DEF Reboots
  <2>3. /\ paths' \in Seq([dir : Dirs, name : FileNames]) /\ fragments' \in Seq(FragmentSet)
        /\ DOMAIN fragments' = {}
    BY <2>1
  <2>4. TypeOK'
    <3>1. \A i \in DOMAIN fragments' : File(fragments'[i]) \in Entries
      BY <2>3
    <3>2. pc' \in Phases /\ pc' \notin Loaded
      BY <2>1 DEF Phases, Loaded
    <3> QED
      BY <2>1, <2>2, <2>3, <3>1, <3>2 DEF TypeOK
  <2>5. ReadInv' /\ LoadedInv' /\ CommandInv'
    BY <2>1, <2>3 DEF ReadInv, LoadedInv, CommandInv, Loaded
  <2> QED
    BY <2>4, <2>5 DEF IInv
<1> QED
  BY <1>3, <1>4, <1>5, <1>6 DEF AdminStep

(* Every step preserves the invariant.                                      *)
LEMMA NextIInv == IInv /\ [Next]_vars => IInv'
<1> SUFFICES ASSUME IInv, [Next]_vars PROVE IInv'
  OBVIOUS
<1>1. CASE UNCHANGED vars
  <2>1. UNCHANGED <<fileVars, processVars, unit, job, script, wanted, fresh, commanded,
                    interventions>>
    BY <1>1 DEF vars
  <2>2. TypeOK'
    BY <2>1 DEF IInv, TypeOK, fileVars, processVars
  <2>3. ReadInv' /\ LoadedInv' /\ CommandInv'
    BY <2>1 DEF IInv, ReadInv, LoadedInv, CommandInv, fileVars, processVars
  <2> QED
    BY <2>2, <2>3 DEF IInv
<1>2. CASE ProcessStep
  BY <1>2, ProcessKeepsIInv
<1>3. CASE ManagerStep
  BY <1>3, ManagerKeepsIInv
<1>4. CASE ScriptStep
  BY <1>4, ScriptKeepsIInv
<1>5. CASE AdminStep
  BY <1>5, AdminKeepsIInv
<1> QED
  BY <1>1, <1>2, <1>3, <1>4, <1>5 DEF Next

(* The inductive invariant holds in every state.                            *)
THEOREM Invariance == Spec => []IInv
  BY InitIInv, NextIInv, PTL DEF Spec

-----------------------------------------------------------------------------
(* The process, its files and its service are typed: a process exists       *)
(* exactly while the service is active, and has settings exactly once it    *)
(* has validated them.                                                      *)
THEOREM TypeCorrect == Spec => []TypeOK
<1>1. IInv => TypeOK
  BY DEF IInv
<1> QED
  BY <1>1, Invariance, PTL

(* An agent whose files did not change while it read them, one by one, runs *)
(* with what they say by their precedence, whatever was edited before.      *)
THEOREM FilesAreFollowed == Spec => []SettingsFollowFiles
<1>1. IInv => SettingsFollowFiles
  BY ValidatedFollows DEF IInv, LoadedInv, SettingsOf, SettingsFollowFiles
<1> QED
  BY <1>1, Invariance, PTL

(* What a script's fragment says of a directive that no fragment overrules. *)
LEMMA ScriptDecides ==
  ASSUME TypeOK, ~Overruled, disk["/run"][UpdateNowName] = File(UpdateNow),
         NEW directive \in {"rollout_wariness", "strategy"}, NEW default
  PROVE  Says(BaseDirs, directive, default) = UpdateNow.directives[directive]
<1> DEFINE Entry(n) == Counting(BaseDirs, n)
           S == {n \in FileNames : /\ Entry(n).kind = "file"
                                   /\ directive \in DOMAIN Entry(n).fragment.directives}
           u == UpdateNowName
<1>1. /\ DOMAIN BaseDirs = {1, 2, 3}
      /\ BaseDirs[1] = "/usr/lib" /\ BaseDirs[2] = "/run" /\ BaseDirs[3] = "/etc"
  BY DEF BaseDirs
<1>2. /\ File(UpdateNow).kind = "file" /\ File(UpdateNow).fragment = UpdateNow
      /\ directive \in DOMAIN UpdateNow.directives
  BY DEF File, UpdateNow, Fragment
<1>3. Entry(u) = File(UpdateNow)
  <2> DEFINE dirs == {i \in {1, 2, 3} : disk[BaseDirs[i]][u].kind # "absent"}
  <2>1. 2 \in dirs /\ 3 \notin dirs /\ \A i \in dirs : i = 1 \/ i = 2
    BY <1>1, <1>2 DEF Overruled
  <2>2. Entry(u) = disk[BaseDirs[Max(dirs)]][u]
    BY <1>1, <2>1 DEF Counting
  <2> HIDE DEF dirs
  <2>3. Max(dirs) = 2
    <3>1. \A i \in dirs : (\A j \in dirs : i >= j) => i = 2
      BY <2>1
    <3>2. \A j \in dirs : 2 >= j
      BY <2>1
    <3> QED
      BY <2>1, <3>1, <3>2 DEF Max
  <2> QED
    BY <1>1, <2>2, <2>3
<1>4. u \in S
  BY <1>2, <1>3, DistAssumption
<1>5. \A n \in S : n \in Nat /\ u \in Nat /\ ~(n > u)
  BY FileNamesAssumption, DistAssumption DEF Overruled
<1>6. Says(BaseDirs, directive, default)
        = IF S = {} THEN default ELSE Entry(Max(S)).fragment.directives[directive]
  BY DEF Says
<1> HIDE DEF S, Entry, u
<1>7. Max(S) = u
  <2>1. \A n \in S : (\A m \in S : n >= m) => n = u
    BY <1>4, <1>5
  <2>2. \A m \in S : u >= m
    BY <1>5
  <2> QED
    BY <1>4, <2>1, <2>2 DEF Max
<1> QED
  BY <1>2, <1>3, <1>4, <1>6, <1>7

(* Once zincati-update-now has run and its restart is done, the agent that  *)
(* runs does what the script asks for, unless a fragment overrules it.      *)
THEOREM ScriptIsObeyed == Spec => []UpdateNowIsObeyed
<1>1. IInv => UpdateNowIsObeyed
  <2> SUFFICES ASSUME IInv, commanded, job = "none", pc \in Loaded, ~Overruled
               PROVE  /\ settings.strategy.label = "immediate"
                      /\ settings.identity.rollout_wariness = {0}
                      /\ override
    BY DEF UpdateNowIsObeyed
  <2>1. /\ fresh /\ override /\ TypeOK
        /\ disk["/run"][UpdateNowName] = File(UpdateNow)
    BY DEF IInv, CommandInv, Loaded
  <2>2. Follows(BaseDirs)
    BY <2>1, ValidatedFollows DEF IInv, LoadedInv, SettingsOf
  <2>3. /\ Says(BaseDirs, "strategy", "") = UpdateNow.directives["strategy"]
        /\ Says(BaseDirs, "rollout_wariness", {}) = UpdateNow.directives["rollout_wariness"]
    BY <2>1, ScriptDecides
  <2>4. /\ UpdateNow.directives["strategy"] = "immediate"
        /\ UpdateNow.directives["rollout_wariness"] = {0}
    BY DEF UpdateNow, Fragment
  <2> QED
    BY <2>1, <2>2, <2>3, <2>4 DEF Follows
<1> QED
  BY <1>1, Invariance, PTL

=============================================================================
