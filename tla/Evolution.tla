------------------------------- MODULE Evolution -------------------------------
(***************************************************************************)
(* Skills a seat teaches itself: EvolutionEngine from a candidate to a     *)
(* SKILL.md under the runtime directory and back.                          *)
(*                                                                         *)
(* The files survive a restart of the platform; the candidates and the     *)
(* backups live in memory and do not.  A candidate's content never changes *)
(* after extract, so a file is identified with the candidate it came from. *)
(* The log, which nothing reads, is left out, and reflect with it.         *)
(***************************************************************************)
EXTENDS Naturals, Sequences

CONSTANTS
  Names,           \* the skill names candidates are given
  MaxCandidates,   \* bound on the candidates extracted
  MaxLives         \* bound on the lives of the process, restarts included

ASSUME EvolutionAssumption == MaxCandidates \in Nat /\ MaxLives \in Nat \ {0}

VARIABLES
  life,        \* how many times the platform has been started
  candidates,  \* Seq(Candidate), of all lives
  hits,        \* the candidates whose dangerHits is not empty
  file,        \* [Names -> content]: <runtimeDir>/skills/<name>/SKILL.md
  backups,     \* [Names -> content]: EvolutionEngine.backups
  change,      \* [Names -> Change]: the last solidify not rolled back; history
  validated,   \* the candidates validate was called with; history
  unchecked    \* those that were solidified before that; history

vars == <<life, candidates, hits, file, backups, change, validated, unchecked>>

\* What a file or a backup holds: the candidate it is a copy of, 0 for nothing.
Contents == 0..MaxCandidates

\* dangerous: the content matches one of DANGEROUS_PATTERNS.
Candidate == [name : Names, dangerous : BOOLEAN, life : 1..MaxLives]

\* In which life a skill was last solidified, 0 for never, and over what.
Change == [life : 0..MaxLives, over : Contents]

NoChange == [life |-> 0, over |-> 0]

\* The files and backups of a name are copies of candidates of that name.
OwnContents ==
  \A name \in Names, i \in DOMAIN candidates :
    i \in {file[name], backups[name]} => candidates[i].name = name

TypeOK ==
  /\ life \in 1..MaxLives
  /\ candidates \in Seq(Candidate) /\ Len(candidates) <= MaxCandidates
  /\ file \in [Names -> 0..Len(candidates)]
  /\ backups \in [Names -> 0..Len(candidates)]
  /\ OwnContents
  /\ change \in [Names -> Change]
  /\ hits \subseteq DOMAIN candidates
  /\ validated \subseteq DOMAIN candidates
  /\ unchecked \subseteq DOMAIN candidates

------------------------------------------------------------------------------
\* The candidates the running process can still refer to.
Live == {i \in DOMAIN candidates : candidates[i].life = life}

Init ==
  /\ life = 1
  /\ candidates = <<>>
  /\ file = [n \in Names |-> 0]
  /\ backups = [n \in Names |-> 0]
  /\ change = [n \in Names |-> NoChange]
  /\ hits = {} /\ validated = {} /\ unchecked = {}

\* extract: several candidates may be given one name.
Extract(name, dangerous) ==
  /\ Len(candidates) < MaxCandidates
  /\ candidates' = Append(candidates,
       [name |-> name, dangerous |-> dangerous, life |-> life])
  /\ UNCHANGED <<life, hits, file, backups, change, validated, unchecked>>

\* (slip) The hits are reported but not kept.
Validate_ReportsOnly(i) ==
  /\ i \in Live
  /\ validated' = validated \cup {i}
  /\ UNCHANGED <<life, candidates, hits, file, backups, change, unchecked>>

\* validate, at any time and any number of times.
Validate(i) ==
  /\ i \in Live
  /\ hits' = IF candidates[i].dangerous THEN hits \cup {i} ELSE hits \ {i}
  /\ validated' = validated \cup {i}
  /\ UNCHANGED <<life, candidates, file, backups, change, unchecked>>

\* (slip) The backup is read after the new content is written.
Solidify_BackupLate(i) ==
  /\ i \in Live
  /\ i \notin hits
  /\ LET name == candidates[i].name
     IN  /\ file' = [file EXCEPT ![name] = i]
         /\ backups' = [backups EXCEPT ![name] = i]
         /\ change' = [change EXCEPT ![name] = [life |-> life, over |-> file[name]]]
  /\ unchecked' = unchecked \cup ({i} \ validated)
  /\ UNCHANGED <<life, candidates, hits, validated>>

\* (slip) There is one backup, not one for each name.
Solidify_OneBackup(i) ==
  /\ i \in Live
  /\ i \notin hits
  /\ LET name == candidates[i].name
     IN  /\ file' = [file EXCEPT ![name] = i]
         /\ backups' = [n \in Names |-> IF file[name] # 0 THEN file[name] ELSE backups[n]]
         /\ change' = [change EXCEPT ![name] = [life |-> life, over |-> file[name]]]
  /\ unchecked' = unchecked \cup ({i} \ validated)
  /\ UNCHANGED <<life, candidates, hits, validated>>

\* solidify: refused only if a validation has found something; a candidate that
\* was never validated passes.  The content found is backed up, in place of the
\* backup of an earlier solidify of that name; where none is found, an earlier
\* backup stays.
Solidify(i) ==
  /\ i \in Live
  /\ i \notin hits
  /\ LET name == candidates[i].name
     IN  /\ file' = [file EXCEPT ![name] = i]
         /\ backups' = [backups EXCEPT ![name] = IF file[name] # 0 THEN file[name] ELSE @]
         /\ change' = [change EXCEPT ![name] = [life |-> life, over |-> file[name]]]
  /\ unchecked' = unchecked \cup ({i} \ validated)
  /\ UNCHANGED <<life, candidates, hits, validated>>

\* rollback: the backup is written back and kept; without one the directory of
\* the skill is removed.
Rollback(name) ==
  /\ file' = [file EXCEPT ![name] = backups[name]]
  /\ change' = [change EXCEPT ![name] = NoChange]
  /\ UNCHANGED <<life, candidates, hits, backups, validated, unchecked>>

\* The platform stops, or crashes, and is started again.
Restart ==
  /\ life < MaxLives
  /\ life' = life + 1
  /\ backups' = [n \in Names |-> 0]
  /\ UNCHANGED <<candidates, hits, file, change, validated, unchecked>>

Next ==
  \/ \E name \in Names, dangerous \in BOOLEAN : Extract(name, dangerous)
  \/ \E i \in DOMAIN candidates : Validate(i)
  \/ \E i \in DOMAIN candidates : Solidify(i)
  \/ \E name \in Names : Rollback(name)
  \/ Restart

Spec == Init /\ [][Next]_vars

------------------------------------------------------------------------------
\* Rolling a skill back in the life of the process that solidified it last brings
\* back what that solidify replaced, whatever was solidified and rolled back in
\* between.  After a restart, with the backups gone, the same call removes the
\* skill, also one that had been there before the solidify; the specification
\* has every rollback restore what was before.
RollbackRestoresOrRemoves ==
  [][\A name \in Names :
       change[name] # NoChange /\ change'[name] = NoChange =>
         file'[name] = IF change[name].life = life THEN change[name].over ELSE 0]_vars

\* The specification has every product that hits a dangerous instruction refused.
\* solidify does not validate, so this is what remains true: a dangerous skill
\* that is on disk, by solidify or by rollback, came there before anyone had
\* validated it; once refused in time, it never does.
DangerCameUnchecked ==
  \A name \in Names :
    LET i == file[name]
    IN  i # 0 /\ candidates[i].dangerous => i \in unchecked
==============================================================================
