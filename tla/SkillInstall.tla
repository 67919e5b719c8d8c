----------------------------- MODULE SkillInstall -----------------------------
(***************************************************************************)
(* A skill package is uploaded: ZipInstaller writes its skills under the   *)
(* skills directory, then the platform reads skills.yaml again and         *)
(* rebuilds the registry from a scan of the directory.                     *)
(*                                                                         *)
(* The whole call is synchronous, so only its own failure or the death of  *)
(* the process stops it half way.  What survives is the directory and      *)
(* skills.yaml.  A package the checks before the first write refuse        *)
(* changes nothing and is left out, as are the files beside a SKILL.md,    *)
(* which nothing in the platform reads.                                    *)
(***************************************************************************)
EXTENDS SkillAccess, Sequences, Functions

CONSTANTS
  Skills,        \* what a SKILL.md that parses says: name, clearance, roles
  Dirs,          \* the directories of skills, in the order of a scan
  DirOf,         \* [names -> Dirs]: sanitizeName; several names may share one
  Packages,      \* what may be uploaded: sequences of Entries
  Configs,       \* what skills.yaml may say, Malformed included
  Malformed,     \* a skills.yaml the loader refuses
  InitialDisk,   \* what the directory holds at first: skills placed by hand lie
                 \* in any directory, two of one name included
  Absent, Torn,  \* a directory without SKILL.md; one that does not parse
  MaxUploads, MaxStarts  \* bounds on uploads and on starts of the process

SkillNames == {s.name : s \in Skills}

\* One SKILL.md of a package.  Either it parses, or parseSkillMarkdown throws;
\* of the files beside it one may lie in a directory of its own, which nothing
\* creates, so that writing it throws.
Entries == [skill : Skills, parses : BOOLEAN, nested : BOOLEAN]

ASSUME SkillsAssumption ==
  /\ Dirs \in Seq(Range(Dirs)) /\ IsInjective(Dirs)
  /\ DirOf \in [SkillNames -> Range(Dirs)]
  /\ Packages \subseteq Seq(Entries) \ {<<>>}
  /\ InitialDisk \in [Range(Dirs) -> Skills \cup {Absent}]
  /\ Absent \notin Skills /\ Torn \notin Skills \cup {Absent}
  /\ MaxUploads \in Nat /\ MaxStarts \in Nat \ {0}

VARIABLES
  disk,       \* [directories -> what their SKILL.md says]
  config,     \* skills.yaml
  registry,   \* SkillRegistry of the running process, or Absent
  uploads,    \* how many packages were uploaded
  lives,      \* how many times the process was started
  last,       \* the last upload of this life and how it ended; history
  torn        \* whether the process ever died inside a write; history

installVars == <<disk, config, registry, uploads, lives, last, torn>>

running == registry # Absent

NoUpload == [ended |-> "none", package |-> <<>>]

InstallTypeOK ==
  /\ disk \in [Range(Dirs) -> Skills \cup {Absent, Torn}]
  /\ config \in Configs
  /\ registry = Absent \/ {s.name : s \in registry.skills} \subseteq SkillNames
  /\ uploads \in 0..MaxUploads
  /\ lives \in 1..MaxStarts
  /\ last \in [ended : {"none", "failed", "installed"}, package : Seq(Entries)]
  /\ torn \in BOOLEAN

------------------------------------------------------------------------------
\* scanSkillFiles: the SKILL.md files by the place of their directories.
Scan(d) == [i \in {i \in DOMAIN Dirs : d[Dirs[i]] # Absent} |-> d[Dirs[i]]]

\* The scan of a directory with a file that does not parse throws, and so does
\* loadSkillsConfig on a malformed skills.yaml.
Loadable(d) == config # Malformed /\ Torn \notin Range(d)

\* The directory the i-th skill of a package goes to.
Target(p, i) == DirOf[p[i].skill.name]

\* (slip) The file is written before it is parsed.
Stops_AfterWriting(p, i) == p[i].nested

\* The i-th skill of a package stops the installation.
Stops(p, i) == ~p[i].parses \/ p[i].nested

\* What an entry's SKILL.md leaves on the disk.
Content(e) == IF e.parses THEN e.skill ELSE Torn

\* The directory after the first n skills of a package were written in turn.
Written(p, n) ==
  [d \in Range(Dirs) |->
     LET writes == {i \in 1..n : Target(p, i) = d}
     IN  IF writes = {} THEN disk[d]
         ELSE Content(p[CHOOSE i \in writes : \A j \in writes : j <= i])]

\* How many skills of a package are written: all those before the first stop.
Reaches(p, n) ==
  /\ \A i \in 1..n : ~Stops(p, i)
  /\ n < Len(p) => Stops(p, n + 1)

\* (slip) Skills go by their directory.
Reload_ByDirectory(d) ==
  [Build(Scan(d), config) EXCEPT !.skills = {[s EXCEPT !.name = DirOf[s.name]] : s \in @}]

\* reloadFromDir.
Reload(d) == Build(Scan(d), config)

------------------------------------------------------------------------------
InstallInit ==
  /\ disk = InitialDisk
  /\ config \in Configs \ {Malformed}
  /\ registry = Build(Scan(disk), config)
  /\ uploads = 0
  /\ lives = 1
  /\ last = NoUpload
  /\ torn = FALSE

\* installSkillZip.  The registry is rebuilt when every skill was written and
\* what is on the disk by then loads; otherwise the call throws and what was
\* written stays.
Upload(p, n) ==
  /\ running
  /\ uploads < MaxUploads
  /\ Reaches(p, n)
  /\ uploads' = uploads + 1
  /\ disk' = Written(p, n)
  /\ IF n = Len(p) /\ Loadable(disk')
     THEN /\ registry' = Reload(disk')
          /\ last' = [ended |-> "installed", package |-> p]
     ELSE /\ last' = [ended |-> "failed", package |-> p]
          /\ UNCHANGED registry
  /\ UNCHANGED <<config, lives, torn>>

\* The process dies with n skills written, or while it writes the file of the
\* n-th, which that write has emptied already.
DieInstalling(p, n, half) ==
  /\ running
  /\ uploads < MaxUploads
  /\ \A i \in 1..n : ~Stops(p, i)
  /\ uploads' = uploads + 1
  /\ disk' = IF half THEN [Written(p, n - 1) EXCEPT ![Target(p, n)] = Torn]
             ELSE Written(p, n)
  /\ registry' = Absent
  /\ torn' = (torn \/ half)
  /\ UNCHANGED <<config, lives, last>>

\* The administrator edits skills.yaml.
EditConfig(c) ==
  /\ config' = c
  /\ UNCHANGED <<disk, registry, uploads, lives, last, torn>>

Stop ==
  /\ running
  /\ registry' = Absent
  /\ UNCHANGED <<disk, config, uploads, lives, last, torn>>

\* The constructor of Platform: it throws unless everything loads.
Start ==
  /\ ~running
  /\ lives < MaxStarts
  /\ Loadable(disk)
  /\ registry' = Build(Scan(disk), config)
  /\ lives' = lives + 1
  /\ last' = NoUpload
  /\ UNCHANGED <<disk, config, uploads, torn>>

InstallNext ==
  \/ \E p \in Packages :
       \/ \E n \in 0..Len(p) : Upload(p, n)
       \/ \E n \in 1..Len(p), half \in BOOLEAN : DieInstalling(p, n, half)
  \/ \E c \in Configs : EditConfig(c)
  \/ Stop
  \/ Start

InstallSpec == InstallInit /\ [][InstallNext]_installVars

------------------------------------------------------------------------------
NamesOn(d) == {d[x].name : x \in {x \in DOMAIN d : d[x] \in Skills}}
NamesIn(r) == {s.name : s \in r.skills}

\* The registry has the skills of a directory and no others, each once and with
\* the clearance that a file of its name gives it.
Mirrors(r, d) ==
  /\ NamesIn(r) = NamesOn(d)
  /\ \A s, t \in r.skills : s.name = t.name => s = t
  /\ \A s \in r.skills : \E x \in Range(Dirs) :
       d[x] \in Skills /\ d[x].name = s.name /\ d[x].clearance = s.clearance

\* Unless the last upload failed, the registry knows what is on the disk: also
\* the skills an earlier upload left behind when it failed, and none of those a
\* later package replaced because it shares their directory.
RegistryKnowsTheDisk ==
  running /\ last.ended # "failed" => Mirrors(registry, disk)

\* The file in the k-th directory is not the last of its name in a scan.
Overruled(d, k) ==
  \E l \in DOMAIN Dirs : k < l /\ d[Dirs[l]] \in Skills /\ d[Dirs[l]].name = d[Dirs[k]].name

\* The registry has the skill of an entry, with the clearance it came with.
Registers(r, e) ==
  \E s \in r.skills : s.name = e.skill.name /\ s.clearance = e.skill.clearance

\* After an upload that was reported as installed the registry has each skill of
\* the package with the clearance it was uploaded with.  Two cases are excused:
\* a later skill of the package took its directory, and a skill of that name
\* placed by hand in a directory that is scanned later, which build lets win
\* (skillRegistry.ts), so that the upload changes the disk and not the registry.
UploadTakesEffect ==
  running /\ last.ended = "installed" =>
    \A i \in DOMAIN last.package :
      \/ Registers(registry, last.package[i])
      \/ \E j \in DOMAIN last.package :
           i < j /\ Target(last.package, j) = Target(last.package, i)
      \/ \E k \in DOMAIN Dirs :
           Dirs[k] = Target(last.package, i) /\ Overruled(disk, k)

\* What the registry has is what the disk has, and what was uploaded last is
\* what the registry has, however many files bring one name.
RegistryMatchesDisk == RegistryKnowsTheDisk /\ UploadTakesEffect

\* A failed upload, however far it got, leaves a directory the next start can
\* load; only a process that died inside a write does not.
DiskLoadsUnlessTorn == ~torn => Torn \notin Range(disk)
==============================================================================
