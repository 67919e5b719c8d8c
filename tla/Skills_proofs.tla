----------------------------- MODULE Skills_proofs -----------------------------
(***************************************************************************)
(* Proofs about skills on the disk: what the evolution engine's rollback   *)
(* restores and what can be in a skill's file (Evolution), and what the    *)
(* registry knows after packages were uploaded (SkillInstall), for any     *)
(* skills, packages, directories and bounds.                               *)
(***************************************************************************)
EXTENDS Evolution, SkillInstall, FiniteSetTheorems, TLAPS

------------------------------------------------------------------------------
\* Evolution.

\* A candidate in the list is well typed, and what it is looked up by exists.
LEMMA CandidateAt ==
  ASSUME TypeOK, NEW i \in DOMAIN candidates
  PROVE  candidates[i].name \in Names /\ i \in 1..Len(candidates)
<1>1. i \in 1..Len(candidates)
  BY DEF TypeOK
<1>2. candidates[i] \in Candidate
  BY <1>1 DEF TypeOK
<1> QED
  BY <1>1, <1>2 DEF Candidate

\* Every variable keeps its type; in particular files and backups are copies of
\* candidates that were extracted, under the name they were extracted with.
THEOREM TypeCorrect == Spec => []TypeOK
<1> USE EvolutionAssumption
<1>1. Init => TypeOK
  BY DEF Init, TypeOK, Change, Contents, NoChange, OwnContents
<1>2. TypeOK /\ [Next]_vars => TypeOK'
  <2> SUFFICES ASSUME TypeOK, [Next]_vars PROVE TypeOK'
    OBVIOUS
  <2> USE DEF TypeOK
  <2>1. ASSUME NEW name \in Names, NEW dangerous \in BOOLEAN, Extract(name, dangerous)
        PROVE  TypeOK'
    <3> DEFINE candidate == [name |-> name, dangerous |-> dangerous, life |-> life]
    <3>1. candidate \in Candidate
      BY DEF Candidate
    <3>2. candidates' \in Seq(Candidate) /\ Len(candidates') = Len(candidates) + 1
      BY <2>1, <3>1 DEF Extract
    <3>3. OwnContents'
      <4>1. \A i \in DOMAIN candidates : i \in DOMAIN candidates' /\ candidates'[i] = candidates[i]
        BY <2>1 DEF Extract
      <4>2. file' = file /\ backups' = backups
        BY <2>1 DEF Extract
      <4>3. \A n \in Names, i \in DOMAIN candidates' :
              i \in {file[n], backups[n]} => i \in DOMAIN candidates
        BY <3>2
      <4> QED
        BY <4>1, <4>2, <4>3 DEF OwnContents
    <3> QED
      BY <2>1, <3>2, <3>3 DEF Extract
  <2>2. ASSUME NEW i \in DOMAIN candidates, Validate(i)
        PROVE  TypeOK'
    <3>1. OwnContents'
      BY <2>2 DEF Validate, OwnContents
    <3> QED
      BY <2>2, <3>1 DEF Validate
  <2>3. ASSUME NEW i \in DOMAIN candidates, Solidify(i)
        PROVE  TypeOK'
    <3>1. candidates[i].name \in Names /\ i \in 0..Len(candidates)
      BY CandidateAt
    <3>2. file' \in [Names -> 0..Len(candidates)] /\ backups' \in [Names -> 0..Len(candidates)]
      BY <2>3, <3>1 DEF Solidify
    <3>3. [life |-> life, over |-> file[candidates[i].name]] \in Change
      BY <3>1 DEF Change, Contents
    <3>4. change' \in [Names -> Change]
      BY <2>3, <3>1, <3>3 DEF Solidify
    <3>5. OwnContents'
      <4> DEFINE own == candidates[i].name
      <4>1. \A n \in Names \ {own} : file'[n] = file[n] /\ backups'[n] = backups[n]
        BY <2>3 DEF Solidify
      <4>2. file'[own] = i /\ backups'[own] \in {file[own], backups[own]}
        BY <2>3, <3>1 DEF Solidify
      <4>3. candidates' = candidates
        BY <2>3 DEF Solidify
      <4> QED
        BY <4>1, <4>2, <4>3 DEF OwnContents
    <3> QED
      BY <2>3, <3>2, <3>4, <3>5 DEF Solidify
  <2>4. ASSUME NEW name \in Names, Rollback(name)
        PROVE  TypeOK'
    <3>1. NoChange \in Change
      BY DEF NoChange, Change, Contents
    <3>2. OwnContents'
      BY <2>4 DEF Rollback, OwnContents
    <3> QED
      BY <2>4, <3>1, <3>2 DEF Rollback
  <2>5. CASE Restart
    <3>1. OwnContents'
      BY <2>5 DEF Restart, OwnContents
    <3> QED
      BY <2>5, <3>1 DEF Restart
  <2>6. CASE UNCHANGED vars
    <3>1. OwnContents'
      BY <2>6 DEF vars, OwnContents
    <3> QED
      BY <2>6, <3>1 DEF vars
  <2> QED
    BY <2>1, <2>2, <2>3, <2>4, <2>5, <2>6 DEF Next
<1> QED
  BY <1>1, <1>2, PTL DEF Spec

------------------------------------------------------------------------------
\* What a rollback rests on.  A backup implies a file: without this, a solidify
\* that finds no file would leave the backup of an earlier one in place, and a
\* rollback would bring that back instead of removing the skill.  A backup does
\* not outlive the life in which it was made.
BackupInv ==
  /\ \A name \in Names : backups[name] # 0 => file[name] # 0
  /\ \A name \in Names : change[name].life = life => backups[name] = change[name].over
  /\ \A name \in Names : change[name].life \in 0..life
  /\ \A name \in Names : backups[name] # 0 => change[name].life \in {0, life}
  /\ \A name \in Names : change[name] # NoChange => change[name].life # 0

\* Every operation keeps BackupInv: the backup of a skill solidified in this life
\* is what that solidify replaced.
LEMMA BackupStep ==
  ASSUME TypeOK, BackupInv, [Next]_vars
  PROVE  BackupInv'
<1> USE EvolutionAssumption DEF TypeOK, BackupInv
<1>1. ASSUME NEW name \in Names, NEW dangerous \in BOOLEAN, Extract(name, dangerous)
      PROVE  BackupInv'
  BY <1>1 DEF Extract
<1>2. ASSUME NEW i \in DOMAIN candidates, Validate(i)
      PROVE  BackupInv'
  BY <1>2 DEF Validate
<1>3. ASSUME NEW i \in DOMAIN candidates, Solidify(i)
      PROVE  BackupInv'
  <2> DEFINE name == candidates[i].name
  <2>1. name \in Names /\ i # 0
    BY CandidateAt
  <2>2. backups'[name] = file[name]
    BY <1>3, <2>1 DEF Solidify
  <2>3. /\ file'[name] = i
        /\ change'[name].life = life /\ change'[name].over = file[name]
        /\ life' = life
    BY <1>3, <2>1 DEF Solidify
  <2>4. \A n \in Names \ {name} :
          backups'[n] = backups[n] /\ file'[n] = file[n] /\ change'[n] = change[n]
    BY <1>3, <2>1 DEF Solidify
  <2>5. \A n \in Names :
          /\ backups'[n] # 0 => file'[n] # 0
          /\ change'[n].life = life' => backups'[n] = change'[n].over
          /\ change'[n].life \in 0..life'
          /\ backups'[n] # 0 => change'[n].life \in {0, life'}
          /\ change'[n] # NoChange => change'[n].life # 0
    <3> SUFFICES ASSUME NEW n \in Names
                 PROVE  /\ backups'[n] # 0 => file'[n] # 0
                        /\ change'[n].life = life' => backups'[n] = change'[n].over
                        /\ change'[n].life \in 0..life'
                        /\ backups'[n] # 0 => change'[n].life \in {0, life'}
                        /\ change'[n] # NoChange => change'[n].life # 0
      OBVIOUS
    <3>1. CASE n = name
      BY <2>1, <2>2, <2>3, <3>1
    <3>2. CASE n # name
      BY <2>3, <2>4, <3>2
    <3> QED
      BY <3>1, <3>2
  <2> QED
    BY <2>5
<1>4. ASSUME NEW name \in Names, Rollback(name)
      PROVE  BackupInv'
  <2>1. change'[name].life = 0 /\ life # 0
    BY <1>4 DEF Rollback, NoChange
  <2>2. file'[name] = backups[name]
    BY <1>4 DEF Rollback
  <2>3. change'[name] = NoChange
    BY <1>4 DEF Rollback
  <2> QED
    BY <1>4, <2>1, <2>2, <2>3 DEF Rollback
<1>5. CASE Restart
  \* no skill was solidified in the life that begins
  <2>1. \A name \in Names : change'[name].life \in 0..life' /\ change'[name].life # life'
    BY <1>5 DEF Restart
  <2>2. \A name \in Names : backups'[name] = 0
    BY <1>5 DEF Restart
  <2>3. \A name \in Names : change'[name] # NoChange => change'[name].life # 0
    BY <1>5 DEF Restart
  <2> QED
    BY <2>1, <2>2, <2>3
<1>6. CASE UNCHANGED vars
  BY <1>6 DEF vars
<1> QED
  BY <1>1, <1>2, <1>3, <1>4, <1>5, <1>6 DEF Next

\* Within one life of the platform, rolling a skill back brings back what its
\* last solidify replaced; after a restart it removes the skill.
THEOREM RollbackRestored == Spec => RollbackRestoresOrRemoves
<1>1. Init => BackupInv
  BY DEF Init, BackupInv, NoChange
<1>2. TypeOK /\ BackupInv /\ [Next]_vars => BackupInv'
  BY BackupStep
<1>3. TypeOK /\ BackupInv /\ [Next]_vars =>
        [\A name \in Names :
           change[name] # NoChange /\ change'[name] = NoChange =>
             file'[name] = IF change[name].life = life THEN change[name].over ELSE 0]_vars
  <2> SUFFICES ASSUME TypeOK, BackupInv, Next, NEW name \in Names,
                      change[name] # NoChange, change'[name] = NoChange
               PROVE  file'[name] = IF change[name].life = life THEN change[name].over ELSE 0
    BY DEF vars
  <2> USE EvolutionAssumption DEF TypeOK, BackupInv
  <2>1. life # 0 /\ change'[name].life = 0 /\ change'[name] # change[name]
    BY DEF NoChange
  <2>2. ASSUME NEW i \in DOMAIN candidates, Solidify(i) PROVE FALSE
    <3>1. CASE name = candidates[i].name
      BY <2>1, <2>2, <3>1 DEF Solidify
    <3>2. CASE name # candidates[i].name
      BY <2>1, <2>2, <3>2 DEF Solidify
    <3> QED
      BY <3>1, <3>2
  <2>3. ASSUME NEW n \in Names, Rollback(n) 
        PROVE  file'[name] = IF change[name].life = life THEN change[name].over ELSE 0
    <3>1. n = name
      BY <2>1, <2>3 DEF Rollback
    <3>2. file'[name] = backups[name]
      BY <2>3, <3>1 DEF Rollback
    <3>3. backups[name] = IF change[name].life = life THEN change[name].over ELSE 0
      OBVIOUS
    <3> QED
      BY <3>2, <3>3
  <2> QED
    BY <2>1, <2>2, <2>3 DEF Next, Extract, Validate, Restart
<1> QED
  BY <1>1, <1>2, <1>3, TypeCorrect, PTL DEF Spec, RollbackRestoresOrRemoves

------------------------------------------------------------------------------
\* A candidate that was validated and is dangerous has hits, so that solidify
\* refuses it; what is on disk or in a backup was solidified at some time.
DangerInv ==
  /\ \A i \in DOMAIN candidates : candidates[i].dangerous /\ i \in validated => i \in hits
  /\ \A name \in Names, i \in DOMAIN candidates :
       i \in {file[name], backups[name]} /\ candidates[i].dangerous => i \in unchecked

\* Every operation keeps DangerInv: neither solidify nor rollback puts a
\* validated danger on disk.
LEMMA DangerStep ==
  ASSUME TypeOK, DangerInv, [Next]_vars
  PROVE  DangerInv'
<1> USE DEF TypeOK, DangerInv
<1>1. ASSUME NEW n \in Names, NEW dangerous \in BOOLEAN, Extract(n, dangerous)
      PROVE  DangerInv'
  <2>1. /\ \A i \in DOMAIN candidates : i \in DOMAIN candidates' /\ candidates'[i] = candidates[i]
        /\ \A i \in DOMAIN candidates' : i \in DOMAIN candidates \/ i = Len(candidates) + 1
    BY <1>1 DEF Extract
  <2>2. /\ Len(candidates) + 1 \notin validated
        /\ \A name \in Names : Len(candidates) + 1 \notin {file[name], backups[name]}
    OBVIOUS
  <2> QED
    BY <1>1, <2>1, <2>2 DEF Extract
<1>2. ASSUME NEW j \in DOMAIN candidates, Validate(j)
      PROVE  DangerInv'
  BY <1>2 DEF Validate
<1>3. ASSUME NEW j \in DOMAIN candidates, Solidify(j)
      PROVE  DangerInv'
  <2>1. /\ UNCHANGED <<candidates, hits, validated>>
        /\ unchecked \subseteq unchecked'
        /\ candidates[j].dangerous => j \in unchecked'
    BY <1>3 DEF Solidify
  <2>2. \A name \in Names :
          file'[name] \in {file[name], j} /\ backups'[name] \in {file[name], backups[name]}
    BY <1>3 DEF Solidify
  <2> QED
    BY <2>1, <2>2
<1>4. ASSUME NEW n \in Names, Rollback(n)
      PROVE  DangerInv'
  <2>1. \A name \in Names : file'[name] \in {file[name], backups[name]}
    BY <1>4 DEF Rollback
  <2> QED
    BY <1>4, <2>1 DEF Rollback
<1>5. CASE Restart
  <2>1. \A name \in Names, i \in DOMAIN candidates : i # backups'[name]
    BY <1>5 DEF Restart
  <2> QED
    BY <1>5, <2>1 DEF Restart
<1>6. CASE UNCHANGED vars
  BY <1>6 DEF vars
<1> QED
  BY <1>1, <1>2, <1>3, <1>4, <1>5, <1>6 DEF Next

\* A dangerous skill is on disk only if it was solidified before anyone had
\* validated it, rollbacks and restarts included.
THEOREM DangerOnlyUnchecked == Spec => []DangerCameUnchecked
<1>1. Init => DangerInv
  BY DEF Init, DangerInv
<1>2. TypeOK /\ DangerInv /\ [Next]_vars => DangerInv'
  BY DangerStep
<1>3. TypeOK /\ DangerInv => DangerCameUnchecked
  <2> SUFFICES ASSUME TypeOK, DangerInv, NEW name \in Names, file[name] # 0
               PROVE  candidates[file[name]].dangerous => file[name] \in unchecked
    BY DEF DangerCameUnchecked
  <2>1. file[name] \in DOMAIN candidates
    BY DEF TypeOK
  <2> QED
    BY <2>1 DEF DangerInv
<1> QED
  BY <1>1, <1>2, <1>3, TypeCorrect, PTL DEF Spec
------------------------------------------------------------------------------
\* SkillInstall.

\* What holds of 0, and of the next number whenever it holds of one, holds of
\* all up to N.
LEMMA UpwardInduction ==
  ASSUME NEW N \in Nat, NEW G, 0 \in G, \A n \in 0..(N - 1) : n \in G => n + 1 \in G
  PROVE  0..N \subseteq G
<1> DEFINE B == (0..N) \ G
           W == {0..m : m \in B}
           R == StrictSubsetOrdering(Nat)
<1> SUFFICES ASSUME B # {} PROVE FALSE
  OBVIOUS
<1>1. W # {} /\ W \subseteq FiniteSubsetsOf(Nat)
  <2>1. \A m \in B : 0..m \in SUBSET Nat /\ IsFiniteSet(0..m)
    BY FS_Interval
  <2> QED
    BY <2>1 DEF FiniteSubsetsOf
<1>2. IsWellFoundedOn(R, FiniteSubsetsOf(Nat))
  BY FS_StrictSubsetOrderingWellFounded
<1>3. PICK X \in W : \A Y \in W : ~(<<Y, X>> \in R)
  <2> HIDE DEF W, R
  <2> QED
    BY <1>1, <1>2, WFMin
<1>4. PICK m \in B : X = 0..m
  OBVIOUS
<1>5. m # 0 /\ m - 1 \in 0..(N - 1)
  OBVIOUS
<1>6. m - 1 \notin G
  BY <1>5
<1>7. 0..(m - 1) \in W
  BY <1>5, <1>6
<1>8. <<0..(m - 1), X>> \in R
  <2>1. 0..(m - 1) \in SUBSET Nat /\ 0..m \in SUBSET Nat /\ m \in 0..m /\ m \notin 0..(m - 1)
        /\ 0..(m - 1) \subseteq 0..m
    BY <1>5
  <2> QED
    BY <1>4, <2>1 DEF StrictSubsetOrdering
<1> QED
  BY <1>3, <1>7, <1>8

\* Of some of the first n numbers there is a last.
LEMMA Latest ==
  ASSUME NEW n \in Nat, NEW S \in SUBSET (1..n), S # {}
  PROVE  \E i \in S : \A j \in S : j <= i
<1> DEFINE G == {m \in 0..n : \A X \in SUBSET (1..m) :
                                X # {} => \E i \in X : \A j \in X : j <= i}
<1>1. 0 \in G
  <2>1. 1..0 = {}
    OBVIOUS
  <2>2. \A X \in SUBSET (1..0) : X = {}
    BY <2>1, Zenon
  <2>3. 0 \in 0..n
    OBVIOUS
  <2> QED
    BY <2>2, <2>3, Zenon
<1>2. ASSUME NEW m \in 0..(n - 1), m \in G PROVE m + 1 \in G
  <2> SUFFICES ASSUME NEW X \in SUBSET (1..(m + 1)), X # {}
               PROVE  \E i \in X : \A j \in X : j <= i
    OBVIOUS
  <2>1. CASE m + 1 \in X
    BY <2>1
  <2>2. CASE m + 1 \notin X
    <3>1. X \in SUBSET (1..m)
      BY <2>2
    <3> QED
      BY <1>2, <3>1
  <2> QED
    BY <2>1, <2>2
<1>3. 0..n \subseteq G
  <2> HIDE DEF G
  <2> QED
    BY <1>1, <1>2, UpwardInduction
<1>4. n \in G
  <2> HIDE DEF G
  <2> QED
    BY <1>3
<1> QED
  BY <1>4

\* What the disk can hold, and without a file that does not parse.
Disks == [Range(Dirs) -> Skills \cup {Absent, Torn}]
WholeDisks == [Range(Dirs) -> Skills \cup {Absent}]

\* What a scan of a disk without broken files yields.
LEMMA Scanned ==
  ASSUME NEW d \in WholeDisks
  PROVE  /\ DOMAIN Dirs = 1..Len(Dirs) /\ Len(Dirs) \in Nat
         /\ DOMAIN Scan(d) = {i \in DOMAIN Dirs : d[Dirs[i]] \in Skills}
         /\ \A i \in DOMAIN Scan(d) :
              Scan(d)[i] = d[Dirs[i]] /\ Scan(d)[i] \in Skills /\ Dirs[i] \in Range(Dirs)
<1>1. \A i \in DOMAIN Dirs : Dirs[i] \in Range(Dirs)
  BY DEF Range
<1>2. \A i \in DOMAIN Dirs : d[Dirs[i]] # Absent <=> d[Dirs[i]] \in Skills
  BY <1>1, SkillsAssumption DEF WholeDisks
<1>3. DOMAIN Dirs = 1..Len(Dirs) /\ Len(Dirs) \in Nat
  BY SkillsAssumption
<1> QED
  BY <1>1, <1>2, <1>3 DEF Scan

\* Of the files of one name the scan has a last one.
LEMMA LastOfName ==
  ASSUME NEW d \in WholeDisks, NEW k \in DOMAIN Dirs, d[Dirs[k]] \in Skills
  PROVE  \E l \in DOMAIN Scan(d) :
           /\ Scan(d)[l].name = d[Dirs[k]].name
           /\ k <= l
           /\ \A j \in DOMAIN Scan(d) : Scan(d)[j].name = Scan(d)[l].name => j <= l
<1> DEFINE scan == Scan(d)
           S == {j \in DOMAIN scan : scan[j].name = d[Dirs[k]].name}
<1>1. S \in SUBSET (1..Len(Dirs)) /\ Len(Dirs) \in Nat
  BY Scanned
<1>2. k \in S
  BY Scanned
<1>3. PICK l \in S : \A j \in S : j <= l
  <2> HIDE DEF S
  <2> QED
    BY <1>1, <1>2, Latest
<1> QED
  BY <1>2, <1>3

\* What a registry built from a scan holds of a skill.
LEMMA ResolvedSkill ==
  ASSUME NEW skill, NEW c
  PROVE  Resolve(skill, c).name = skill.name /\ Resolve(skill, c).clearance = skill.clearance
BY DEF Resolve

\* A scan of a disk without broken files builds a registry that mirrors it, and
\* that has the skill of every file but those a later one of its name overrules.
LEMMA RebuiltFromDisk ==
  ASSUME NEW d \in WholeDisks, NEW c
  PROVE  /\ Mirrors(Build(Scan(d), c), d)
         /\ {s.name : s \in Build(Scan(d), c).skills} \subseteq SkillNames
         /\ \A k \in DOMAIN Dirs : d[Dirs[k]] \in Skills =>
              \/ \E s \in Build(Scan(d), c).skills :
                   s.name = d[Dirs[k]].name /\ s.clearance = d[Dirs[k]].clearance
              \/ Overruled(d, k)
<1> DEFINE scan == Scan(d)
           kept == {i \in DOMAIN scan : \A j \in DOMAIN scan :
                                          scan[j].name = scan[i].name => j <= i}
           R == Build(scan, c)
<1>1. R.skills = {Resolve(scan[i], c) : i \in kept}
  BY DEF Build
<1>2. \A i \in kept : /\ i \in DOMAIN Dirs /\ i \in Nat
                      /\ scan[i] = d[Dirs[i]] /\ d[Dirs[i]] \in Skills /\ Dirs[i] \in Range(Dirs)
  <2>1. ASSUME NEW i \in DOMAIN scan
        PROVE  /\ i \in DOMAIN Dirs /\ i \in Nat
               /\ scan[i] = d[Dirs[i]] /\ d[Dirs[i]] \in Skills /\ Dirs[i] \in Range(Dirs)
    <3>1. i \in DOMAIN Dirs /\ scan[i] = d[Dirs[i]] /\ d[Dirs[i]] \in Skills
          /\ Dirs[i] \in Range(Dirs)
      BY Scanned
    <3>2. i \in Nat
      BY <3>1, Scanned
    <3> QED
      BY <3>1, <3>2
  <2>2. kept \subseteq DOMAIN scan
    OBVIOUS
  <2> HIDE DEF kept, scan
  <2> QED
    BY <2>1, <2>2
<1>3. \A i, j \in kept : scan[i].name = scan[j].name => i = j
  <2> SUFFICES ASSUME NEW i \in kept, NEW j \in kept, scan[i].name = scan[j].name
               PROVE  i = j
    OBVIOUS
  <2>1. i <= j /\ j <= i
    OBVIOUS
  <2> QED
    BY <1>2, <2>1
<1>4. \A k \in DOMAIN Dirs : d[Dirs[k]] \in Skills =>
        \E l \in kept : scan[l].name = d[Dirs[k]].name /\ k <= l
  <2> SUFFICES ASSUME NEW k \in DOMAIN Dirs, d[Dirs[k]] \in Skills
               PROVE  \E l \in kept : scan[l].name = d[Dirs[k]].name /\ k <= l
    OBVIOUS
  <2> QED
    BY LastOfName
<1> HIDE DEF kept, R, scan
<1>5. \A s \in R.skills : \E i \in kept : s = Resolve(scan[i], c) /\ s.name = d[Dirs[i]].name
                                         /\ s.clearance = d[Dirs[i]].clearance
  <2> SUFFICES ASSUME NEW s \in R.skills
               PROVE  \E i \in kept : s = Resolve(scan[i], c) /\ s.name = d[Dirs[i]].name
                                      /\ s.clearance = d[Dirs[i]].clearance
    OBVIOUS
  <2>1. PICK i \in kept : s = Resolve(scan[i], c)
    BY <1>1
  <2>2. s.name = scan[i].name /\ s.clearance = scan[i].clearance
    BY <2>1, ResolvedSkill
  <2>3. scan[i] = d[Dirs[i]]
    BY <1>2
  <2> QED
    BY <2>1, <2>2, <2>3
<1>6. DOMAIN d = Range(Dirs)
  BY DEF WholeDisks
<1>7. NamesIn(R) = NamesOn(d)
  <2>1. ASSUME NEW s \in R.skills PROVE s.name \in NamesOn(d)
    BY <1>2, <1>5, <1>6 DEF NamesOn
  <2>2. ASSUME NEW x \in DOMAIN d, d[x] \in Skills
        PROVE  \E s \in R.skills : s.name = d[x].name
    <3>1. PICK k \in DOMAIN Dirs : Dirs[k] = x
      BY <1>6 DEF Range
    <3>2. PICK l \in kept : scan[l].name = d[x].name
      BY <1>4, <2>2, <3>1
    <3>3. Resolve(scan[l], c) \in R.skills
      BY <1>1, <3>2
    <3> QED
      BY <3>2, <3>3, ResolvedSkill
  <2> QED
    BY <2>1, <2>2 DEF NamesIn, NamesOn
<1>8. \A s, t \in R.skills : s.name = t.name => s = t
  <2> SUFFICES ASSUME NEW s \in R.skills, NEW t \in R.skills, s.name = t.name
               PROVE  s = t
    OBVIOUS
  <2>1. PICK i \in kept : s = Resolve(scan[i], c) /\ s.name = d[Dirs[i]].name
    BY <1>5
  <2>2. PICK j \in kept : t = Resolve(scan[j], c) /\ t.name = d[Dirs[j]].name
    BY <1>5
  <2>3. i = j
    BY <1>2, <1>3, <2>1, <2>2
  <2> QED
    BY <2>1, <2>2, <2>3
<1>9. \A s \in R.skills : \E x \in Range(Dirs) :
        d[x] \in Skills /\ d[x].name = s.name /\ d[x].clearance = s.clearance
  <2> SUFFICES ASSUME NEW s \in R.skills
               PROVE  \E x \in Range(Dirs) :
                        d[x] \in Skills /\ d[x].name = s.name /\ d[x].clearance = s.clearance
    OBVIOUS
  <2>1. PICK i \in kept : s.name = d[Dirs[i]].name /\ s.clearance = d[Dirs[i]].clearance
    BY <1>5
  <2> QED
    BY <1>2, <2>1
<1>10. \A s \in R.skills : s.name \in SkillNames
  BY <1>2, <1>5 DEF SkillNames
<1>11. ASSUME NEW k \in DOMAIN Dirs, d[Dirs[k]] \in Skills, ~Overruled(d, k)
       PROVE  \E s \in R.skills :
                s.name = d[Dirs[k]].name /\ s.clearance = d[Dirs[k]].clearance
  <2>1. PICK l \in kept : scan[l].name = d[Dirs[k]].name /\ k <= l
    BY <1>4, <1>11
  <2>2. k \in Nat /\ l \in Nat /\ l \in DOMAIN Dirs /\ scan[l] = d[Dirs[l]] /\ d[Dirs[l]] \in Skills
    BY <1>2, SkillsAssumption
  <2>3. l = k
    BY <1>11, <2>1, <2>2 DEF Overruled
  <2>4. Resolve(scan[l], c) \in R.skills
    BY <1>1, <2>1
  <2> QED
    BY <2>2, <2>3, <2>4, ResolvedSkill
<1>12. Mirrors(R, d)
  BY <1>7, <1>8, <1>9 DEF Mirrors
<1> QED
  BY <1>10, <1>11, <1>12 DEF scan, R

\* Writing the first skills of a package, none of which stops the installation,
\* leaves every file parsed; each is in its directory unless a later one of the
\* package went there too.
LEMMA WrittenDisk ==
  ASSUME InstallTypeOK, NEW p \in Packages, NEW n \in 0..Len(p),
         \A i \in 1..n : ~Stops(p, i)
  PROVE  /\ Written(p, n) \in Disks
         /\ Torn \notin Range(disk) => Torn \notin Range(Written(p, n))
         /\ \A i \in 1..n : \/ Written(p, n)[Target(p, i)] = p[i].skill
                            \/ \E j \in 1..n : i < j /\ Target(p, j) = Target(p, i)
<1> DEFINE w == Written(p, n)
<1>1. p \in Seq(Entries) /\ n \in Nat
  BY SkillsAssumption
<1>2. \A i \in 1..n : p[i].skill \in Skills /\ p[i].parses
  <2> SUFFICES ASSUME NEW i \in 1..n PROVE p[i].skill \in Skills /\ p[i].parses
    OBVIOUS
  <2>1. p[i] \in Entries
    BY <1>1
  <2>2. ~Stops(p, i)
    OBVIOUS
  <2> QED
    BY <2>1, <2>2 DEF Entries, Stops
<1>3. ASSUME NEW x \in Range(Dirs)
      PROVE  \/ w[x] = disk[x] /\ \A i \in 1..n : Target(p, i) # x
             \/ \E i \in 1..n : /\ Target(p, i) = x /\ w[x] = p[i].skill
                                /\ \A j \in 1..n : Target(p, j) = x => j <= i
  <2> DEFINE writes == {i \in 1..n : Target(p, i) = x}
             i == CHOOSE i \in writes : \A j \in writes : j <= i
  <2>1. w[x] = IF writes = {} THEN disk[x] ELSE Content(p[i])
    BY DEF Written
  <2>2. CASE writes = {}
    BY <2>1, <2>2
  <2>3. CASE writes # {}
    <3>1. writes \in SUBSET (1..n)
      OBVIOUS
    <3>2. \E k \in writes : \A j \in writes : j <= k
      <4> HIDE DEF writes
      <4> QED
        BY <1>1, <2>3, <3>1, Latest
    <3>3. i \in writes /\ \A j \in writes : j <= i
      <4> HIDE DEF writes
      <4> QED
        BY <3>2
    <3>4. i \in 1..n /\ Target(p, i) = x /\ \A j \in 1..n : Target(p, j) = x => j <= i
      BY <3>3
    <3>5. w[x] = p[i].skill
      <4> HIDE DEF i
      <4> QED
        BY <1>2, <2>1, <2>3, <3>4 DEF Content
    <3> HIDE DEF i, w
    <3> QED
      BY <3>4, <3>5
  <2> QED
    BY <2>2, <2>3
<1>4. DOMAIN w = Range(Dirs) /\ w = [x \in Range(Dirs) |-> w[x]]
  BY DEF Written
<1> HIDE DEF w
<1>5. \A x \in Range(Dirs) : w[x] \in Skills \/ w[x] = disk[x]
  BY <1>2, <1>3
<1>6. w \in Disks
  BY <1>4, <1>5 DEF Disks, InstallTypeOK
<1>7. Torn \notin Range(disk) => Torn \notin Range(w)
  <2> SUFFICES ASSUME Torn \notin Range(disk), NEW x \in Range(Dirs), w[x] = Torn
               PROVE  FALSE
    BY <1>4 DEF Range
  <2>1. disk[x] # Torn
    BY DEF InstallTypeOK, Range
  <2> QED
    BY <1>5, <2>1, SkillsAssumption
<1>8. ASSUME NEW i \in 1..n
      PROVE  \/ w[Target(p, i)] = p[i].skill
             \/ \E j \in 1..n : i < j /\ Target(p, j) = Target(p, i)
  <2>1. Target(p, i) \in Range(Dirs)
    BY <1>2, SkillsAssumption DEF Target, SkillNames
  <2>2. PICK m \in 1..n : /\ Target(p, m) = Target(p, i) /\ w[Target(p, i)] = p[m].skill
                          /\ \A j \in 1..n : Target(p, j) = Target(p, i) => j <= m
    BY <1>3, <2>1
  <2>3. i <= m
    BY <2>2
  <2> QED
    BY <2>2, <2>3
<1> QED
  BY <1>6, <1>7, <1>8 DEF w

\* A disk that can be loaded holds skills and nothing else.
LEMMA LoadableDisk ==
  ASSUME NEW d \in Disks, Torn \notin Range(d)
  PROVE  d \in WholeDisks
BY DEF Disks, WholeDisks, Range

\* The invariant: what the properties say.
InstallInv ==
  /\ InstallTypeOK
  /\ RegistryKnowsTheDisk
  /\ UploadTakesEffect
  /\ DiskLoadsUnlessTorn

\* A registry read from a disk that loads is typed, and knows that disk.
LEMMA Reread ==
  ASSUME NEW d \in Disks, Torn \notin Range(d), NEW c
  PROVE  /\ Mirrors(Build(Scan(d), c), d)
         /\ {s.name : s \in Build(Scan(d), c).skills} \subseteq SkillNames
BY LoadableDisk, RebuiltFromDisk

\* An upload that gets to its end takes effect.
LEMMA InstalledTakesEffect ==
  ASSUME InstallTypeOK, NEW p \in Packages, Upload(p, Len(p)), Loadable(disk')
  PROVE  UploadTakesEffect'
<1>1. /\ disk' = Written(p, Len(p)) /\ registry' = Build(Scan(disk'), config)
      /\ last' = [ended |-> "installed", package |-> p]
      /\ Torn \notin Range(disk') /\ \A i \in 1..Len(p) : ~Stops(p, i)
  BY DEF Upload, Reaches, Loadable, Reload
<1>2. p \in Seq(Entries) /\ Len(p) \in 0..Len(p) /\ DOMAIN p = 1..Len(p)
  BY SkillsAssumption
<1>3. disk' \in WholeDisks
  BY <1>1, <1>2, WrittenDisk, LoadableDisk
<1>4. SUFFICES ASSUME NEW i \in 1..Len(p),
                      ~\E j \in 1..Len(p) : i < j /\ Target(p, j) = Target(p, i)
               PROVE  \/ Registers(registry', p[i])
                      \/ \E k \in DOMAIN Dirs : Dirs[k] = Target(p, i) /\ Overruled(disk', k)
  BY <1>1, <1>2 DEF UploadTakesEffect, Target
<1>5. disk'[Target(p, i)] = p[i].skill /\ p[i].skill \in Skills
  <2>1. p[i] \in Entries
    BY <1>2
  <2>2. p[i].skill \in Skills
    BY <2>1 DEF Entries
  <2> QED
    BY <2>2, <1>1, <1>2, <1>4, <2>1, WrittenDisk
<1>6. PICK k \in DOMAIN Dirs : Dirs[k] = Target(p, i)
  <2>1. p[i].skill.name \in SkillNames
    BY <1>5 DEF SkillNames
  <2>2. Target(p, i) \in Range(Dirs)
    BY <2>1, SkillsAssumption DEF Target
  <2> QED
    BY <2>2 DEF Range
<1>7. \/ \E s \in Build(Scan(disk'), config).skills :
           s.name = disk'[Dirs[k]].name /\ s.clearance = disk'[Dirs[k]].clearance
      \/ Overruled(disk', k)
  BY <1>3, <1>5, <1>6, RebuiltFromDisk
<1> QED
  BY <1>1, <1>5, <1>6, <1>7 DEF Registers

LEMMA InstallInvariant == InstallSpec => []InstallInv
<1>1. InstallInit => InstallInv
  <2> SUFFICES ASSUME InstallInit PROVE InstallInv
    OBVIOUS
  <2>1. disk \in Disks /\ Torn \notin Range(disk)
    BY SkillsAssumption DEF InstallInit, Disks, Range
  <2>3. Mirrors(registry, disk) /\ {s.name : s \in registry.skills} \subseteq SkillNames
    BY <2>1, Reread DEF InstallInit
  <2>4. last \in [ended : {"none", "failed", "installed"}, package : Seq(Entries)]
    BY DEF InstallInit, NoUpload
  <2>5. uploads \in 0..MaxUploads /\ lives \in 1..MaxStarts /\ torn \in BOOLEAN
    <3>1. MaxUploads \in Nat /\ MaxStarts \in Nat \ {0}
      BY SkillsAssumption
    <3>2. uploads \in 0..MaxUploads /\ lives \in 1..MaxStarts
      BY <3>1 DEF InstallInit
    <3> QED
      BY <3>2 DEF InstallInit
  <2>6. InstallTypeOK
    BY <2>1, <2>3, <2>4, <2>5 DEF InstallInit, InstallTypeOK, Disks
  <2> QED
    BY <2>1, <2>3, <2>6
    DEF InstallInv, InstallInit, NoUpload, RegistryKnowsTheDisk, UploadTakesEffect,
        DiskLoadsUnlessTorn
<1>2. InstallInv /\ [InstallNext]_installVars => InstallInv'
  <2> SUFFICES ASSUME InstallInv, [InstallNext]_installVars PROVE InstallInv'
    OBVIOUS
  <2>1. InstallTypeOK /\ disk \in Disks
    BY DEF InstallInv, InstallTypeOK, Disks
  <2>2. ASSUME NEW p \in Packages, NEW n \in 0..Len(p), Upload(p, n)
        PROVE  InstallInv'
    <3>1. disk' \in Disks /\ (Torn \notin Range(disk) => Torn \notin Range(disk'))
      BY <2>1, <2>2, WrittenDisk DEF Upload, Reaches
    <3>2. p \in Seq(Entries)
      BY SkillsAssumption
    <3>3. uploads' \in 0..MaxUploads
      BY <2>1, <2>2, SkillsAssumption DEF Upload, InstallTypeOK
    <3>4. CASE n = Len(p) /\ Loadable(disk')
      <4>1. /\ Mirrors(registry', disk')
            /\ {s.name : s \in registry'.skills} \subseteq SkillNames
        <5>1. Torn \notin Range(disk') /\ registry' = Build(Scan(disk'), config)
          BY <2>2, <3>4 DEF Upload, Loadable, Reload
        <5> QED
          BY <3>1, <5>1, Reread
      <4>2. last' \in [ended : {"none", "failed", "installed"}, package : Seq(Entries)]
        BY <2>2, <3>2, <3>4 DEF Upload
      <4>3. UploadTakesEffect'
        BY <2>1, <2>2, <3>4, InstalledTakesEffect
      <4> QED
        BY <2>2, <3>1, <3>3, <4>1, <4>2, <4>3
        DEF InstallInv, InstallTypeOK, Upload, RegistryKnowsTheDisk, DiskLoadsUnlessTorn, Disks
    <3>5. CASE ~(n = Len(p) /\ Loadable(disk'))
      <4>1. registry' = registry /\ last' = [ended |-> "failed", package |-> p]
        BY <2>2, <3>5 DEF Upload
      <4> QED
        BY <2>2, <3>1, <3>2, <3>3, <4>1
        DEF InstallInv, InstallTypeOK, Upload, RegistryKnowsTheDisk, UploadTakesEffect,
            DiskLoadsUnlessTorn, Disks
    <3> QED
      BY <3>4, <3>5
  <2>3. ASSUME NEW p \in Packages, NEW n \in 1..Len(p), NEW half \in BOOLEAN,
               DieInstalling(p, n, half)
        PROVE  InstallInv'
    <3>1. p \in Seq(Entries) /\ n \in 0..Len(p) /\ n - 1 \in 0..Len(p)
      BY SkillsAssumption
    <3>2. \A i \in 1..n : ~Stops(p, i)
      BY <2>3 DEF DieInstalling
    <3>3. uploads' \in 0..MaxUploads
      BY <2>1, <2>3, SkillsAssumption DEF DieInstalling, InstallTypeOK
    <3>4. disk' \in Disks /\ (~torn' => Torn \notin Range(disk'))
      <4>1. CASE half
        <5>1. Written(p, n - 1) \in Disks
          <6>1. \A i \in 1..(n - 1) : ~Stops(p, i)
            BY <3>1, <3>2
          <6> QED
            BY <2>1, <3>1, <6>1, WrittenDisk
        <5>2. disk' = [Written(p, n - 1) EXCEPT ![Target(p, n)] = Torn] /\ torn'
          BY <2>3, <4>1 DEF DieInstalling
        <5>3. disk' \in Disks
          BY <5>1, <5>2 DEF Disks
        <5> QED
          BY <5>2, <5>3
      <4>2. CASE ~half
        BY <2>1, <2>3, <3>1, <3>2, <4>2, WrittenDisk
        DEF DieInstalling, InstallInv, DiskLoadsUnlessTorn
      <4> QED
        BY <4>1, <4>2
    <3>5. registry' = Absent /\ torn' \in BOOLEAN
      BY <2>1, <2>3 DEF DieInstalling, InstallTypeOK
    <3> QED
      BY <2>1, <2>3, <3>3, <3>4, <3>5
      DEF InstallInv, InstallTypeOK, DieInstalling, RegistryKnowsTheDisk, UploadTakesEffect,
          running, DiskLoadsUnlessTorn, Disks
  <2>4. ASSUME NEW c \in Configs, EditConfig(c)
        PROVE  InstallInv'
    BY <2>4 DEF EditConfig, InstallInv, InstallTypeOK, RegistryKnowsTheDisk, UploadTakesEffect,
                running, DiskLoadsUnlessTorn
  <2>5. CASE Stop
    BY <2>5 DEF Stop, InstallInv, InstallTypeOK, RegistryKnowsTheDisk, UploadTakesEffect,
                running, DiskLoadsUnlessTorn
  <2>6. CASE Start
    <3>1. /\ Mirrors(registry', disk)
          /\ {s.name : s \in registry'.skills} \subseteq SkillNames
      BY <2>1, <2>6, Reread DEF Start, Loadable
    <3>2. lives' \in 1..MaxStarts
      BY <2>1, <2>6, SkillsAssumption DEF Start, InstallTypeOK
    <3>3. last' \in [ended : {"none", "failed", "installed"}, package : Seq(Entries)]
      BY <2>6 DEF Start, NoUpload
    <3>4. last'.ended = "none"
      BY <2>6 DEF Start, NoUpload
    <3> QED
      BY <2>1, <2>6, <3>1, <3>2, <3>3, <3>4
      DEF Start, InstallInv, InstallTypeOK, RegistryKnowsTheDisk, UploadTakesEffect,
          DiskLoadsUnlessTorn
  <2>7. CASE UNCHANGED installVars
    BY <2>7 DEF installVars, InstallInv, InstallTypeOK, RegistryKnowsTheDisk, UploadTakesEffect,
                running, DiskLoadsUnlessTorn
  <2> QED
    BY <2>2, <2>3, <2>4, <2>5, <2>6, <2>7 DEF InstallNext
<1> QED
  BY <1>1, <1>2, PTL DEF InstallSpec

\* The types of what survives and of what the process holds: in particular, the
\* registry has no skill that no package and no directory ever had.
THEOREM InstallTypeCorrect == InstallSpec => []InstallTypeOK
<1>1. InstallInv => InstallTypeOK
  BY DEF InstallInv
<1> QED
  BY <1>1, InstallInvariant, PTL

\* After an upload that succeeded, and after every start, the registry knows the
\* skills on the disk and no others, each with the clearance of one of its files,
\* however many uploads failed or died before and however many files bring one
\* name; and what was uploaded is what the registry has, but for the two cases
\* the property names.
THEOREM RegistryFollowsDisk == InstallSpec => []RegistryMatchesDisk
<1>1. InstallInv => RegistryMatchesDisk
  BY DEF InstallInv, RegistryMatchesDisk
<1> QED
  BY <1>1, InstallInvariant, PTL

\* Whatever was uploaded and however it failed, a directory is unreadable only
\* after the process died inside a write.
THEOREM DiskStaysLoadable == InstallSpec => []DiskLoadsUnlessTorn
<1>1. InstallInv => DiskLoadsUnlessTorn
  BY DEF InstallInv
<1> QED
  BY <1>1, InstallInvariant, PTL
==============================================================================
