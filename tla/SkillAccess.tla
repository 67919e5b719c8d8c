----------------------------- MODULE SkillAccess -----------------------------
(***************************************************************************)
(* Which skills a seat may use: the pure part of SkillRegistry.            *)
(*                                                                         *)
(* The registry is rebuilt from two inputs, the SKILL.md files found under *)
(* the skills directory (a sequence in scan order) and the administrator's *)
(* skills.yaml.  A skill's wording (description, body) is left out.        *)
(***************************************************************************)
EXTENDS Naturals, FiniteSets

\* An entry of skills.yaml that leaves `allowed_roles` out.
CONSTANT Unlisted

\* SkillRegistry.build, one skill: the administrator's entry wins over the
\* metadata embedded in SKILL.md, and a skill without an entry is enabled.
Resolve(skill, config) ==
  LET listed == skill.name \in DOMAIN config.entries
      entry  == config.entries[skill.name]
  IN  [name          |-> skill.name,
       clearance     |-> skill.clearance,
       enabled       |-> listed => entry.enabled,
       allowed_roles |-> IF listed /\ entry.allowed_roles # Unlisted
                         THEN entry.allowed_roles ELSE skill.allowed_roles]

\* (slip) The file scanned first wins.
Build_FirstWins(parsed, config) ==
  [skills |-> {Resolve(parsed[i], config) :
                 i \in {i \in DOMAIN parsed :
                          \A j \in DOMAIN parsed :
                            parsed[j].name = parsed[i].name => i <= j}},
   packs  |-> config.packs]

\* SkillRegistry.build: keyed by name, the file scanned last wins.
Build(parsed, config) ==
  [skills |-> {Resolve(parsed[i], config) :
                 i \in {i \in DOMAIN parsed :
                          \A j \in DOMAIN parsed :
                            parsed[j].name = parsed[i].name => j <= i}},
   packs  |-> config.packs]

\* Skill packs expanded, plus the skills allowed by name.
ReferencedBy(role, registry) ==
  role.skill_allow
    \cup UNION {registry.packs[p] : p \in role.packs \cap DOMAIN registry.packs}

\* SkillRegistry.availableSkills: referenced, authorised, enabled, cleared.
AvailableSkills(role, registry) ==
  {s \in registry.skills :
     /\ s.enabled
     /\ role.id \in s.allowed_roles
     /\ role.clearance >= s.clearance
     /\ s.name \in ReferencedBy(role, registry)}
==============================================================================
