---------------------------- MODULE TaskManagerMC ----------------------------
(***************************************************************************)
(* A small organization for TLC: a director over two staff seats that      *)
(* share a role, two skills of which one can be switched off, and two      *)
(* kinds of task.                                                          *)
(***************************************************************************)
EXTENDS TaskManager, TLC

CONSTANTS director, staff1, staff2, core, ooda, ipb, commander, staff

MCSeats == {director, staff1, staff2}
MCSeatIndex == (director :> 0 @@ staff1 :> 1 @@ staff2 :> 2)
MCRoles == {commander, staff}
MCSeatRole == (director :> commander @@ staff1 :> staff @@ staff2 :> staff)
MCRolePacks == [role \in MCRoles |-> {core}]
MCRoleAllow == [role \in MCRoles |-> {}]

Full    == [clearance |-> 2, can_dispatch |-> TRUE,  can_approve |-> TRUE]
Novice  == [clearance |-> 1, can_dispatch |-> FALSE, can_approve |-> FALSE]
MCRights == (commander :> {Full} @@ staff :> {Full, Novice})
MCInitialRights == (commander :> Full @@ staff :> Novice)

\* Two SKILL.md files; the administrator lists one of them, enabled or not, and
\* opens it to both roles.
MCParsed ==
  << [name |-> ooda, clearance |-> 1, allowed_roles |-> {commander, staff}],
     [name |-> ipb,  clearance |-> 1, allowed_roles |-> {commander}] >>
MCConfig(on) ==
  [entries |-> (ipb :> [enabled |-> on, allowed_roles |-> MCRoles]),
   packs   |-> (core :> {ooda, ipb})]
MCRegistries == {Build(MCParsed, MCConfig(on)) : on \in BOOLEAN}

MCTaskInputs ==
  {[requiredSkills |-> {ooda}, requiredClearance |-> 1],
   [requiredSkills |-> {ipb},  requiredClearance |-> 2]}
==============================================================================
