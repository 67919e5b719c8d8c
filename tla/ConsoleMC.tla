------------------------------ MODULE ConsoleMC ------------------------------
(***************************************************************************)
(* The configuration of the repository: its simulators, its roles and its  *)
(* five documents, and two that an administrator may add: one is denied to *)
(* the director, the other is for the staff only.                          *)
(***************************************************************************)
EXTENDS Console

\* The seat instructions go to, and another one.
TwoSeats == {"seat-staff-1", "seat-staff-2"}
TwoServices == {"sim-red", "sim-blue"}
Clearances == [director |-> 5, staff |-> 4, support |-> 2]
May == {"director", "staff"}
Doc(level, roles) == [clearance |-> level, allow |-> roles, deny |-> {}]
Library == [org |-> Doc(1, {}), ooda |-> Doc(2, {}), plan |-> Doc(3, May),
            eval |-> Doc(4, May), secret |-> Doc(5, {"director"}),
            staffs |-> Doc(2, {"staff"}),
            denied |-> [clearance |-> 3, allow |-> {}, deny |-> {"director"}]]
==============================================================================
