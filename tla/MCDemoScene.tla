------------------------------ MODULE MCDemoScene ------------------------------
(* Three rooms, the middle one filling every slot, the last one tougher. *)
EXTENDS DemoScene

MCRooms == << [monsterCount |-> 2, monsterHealth |-> 2],
              [monsterCount |-> 3, monsterHealth |-> 2],
              [monsterCount |-> 1, monsterHealth |-> 3] >>
=============================================================================
