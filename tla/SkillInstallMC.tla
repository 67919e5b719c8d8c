---------------------------- MODULE SkillInstallMC ----------------------------
(***************************************************************************)
(* Three skill names of which two are sanitized to one directory, and      *)
(* packages that are whole, broken in the middle, nested, or collide.  At  *)
(* first the directory holds two skills placed by hand: one is scanned     *)
(* before an upload of its name, the other after it.                       *)
(***************************************************************************)
EXTENDS SkillInstall, TLC

CONSTANTS ooda, ipb, ipb_x, dirOoda, dirIpb, dirOwn, commander, staff

Skill(name, clearance) ==
  [name |-> name, clearance |-> clearance, allowed_roles |-> {commander}]

MCSkills == {Skill(n, c) : n \in {ooda, ipb, ipb_x}, c \in 1..2}
MCDirs == <<dirIpb, dirOoda, dirOwn>>
MCDirOf == (ooda :> dirOoda @@ ipb :> dirIpb @@ ipb_x :> dirIpb)
MCInitialDisk ==
  (dirIpb :> Skill(ooda, 1) @@ dirOoda :> Absent @@ dirOwn :> Skill(ipb, 1))

Good(s)   == [skill |-> s, parses |-> TRUE, nested |-> FALSE]
Broken(s) == [skill |-> s, parses |-> FALSE, nested |-> FALSE]
Nested(s) == [skill |-> s, parses |-> TRUE, nested |-> TRUE]

MCPackages ==
  { <<Good(Skill(ooda, 2))>>,
    <<Good(Skill(ipb, 1)), Broken(Skill(ooda, 2))>>,
    <<Good(Skill(ooda, 1)), Nested(Skill(ipb, 2))>>,
    <<Good(Skill(ipb, 1)), Good(Skill(ipb_x, 2))>>,
    <<Good(Skill(ipb, 2)), Good(Skill(ooda, 1))>> }

Listing(roles, on) ==
  [entries |-> (ooda :> [enabled |-> on, allowed_roles |-> roles]),
   packs   |-> <<>>]
MCConfigs == {Malformed, Listing(Unlisted, TRUE), Listing({staff}, TRUE),
              Listing({staff}, FALSE)}
==============================================================================
