--------------------------- MODULE MCClientProgram ---------------------------
EXTENDS ClientProgram

Lengths == [n \in {"ana", "zoe", "leo", "max", "eva", "rio", "ny", "mall"} |->
             CASE n = "ny" -> 2 [] n = "mall" -> 4 [] OTHER -> 3]
Row(name, race, total) == [name |-> name, race |-> race, total |-> total, status |-> 0]
Many == <<Row("ana", 1, 5), Row("zoe", 2, 6), Row("leo", 3, 7), Row("max", 4, 8)>>
Few == <<Row("zoe", 7, 9)>>

\* Three cars: with both checkpoints, with the goal alone, with none left.
Cars ==
  << [car |-> <<1, 0, 90, 3, 0, 1, 10, 20, 0, 45>>, next |-> <<<<1, 2>>, <<3, 4>>>>, goal |-> 0,
      second |-> 1, after |-> <<<<5, 6>>>>, afterGoal |-> 1],
     [car |-> <<2, 1, 80, 1, 7, 2, 11, 21, 1, 90>>, next |-> <<<<7, 8>>>>, goal |-> 1,
      second |-> 0, after |-> <<>>, afterGoal |-> 0],
     [car |-> <<4, 0, 0, 2, 3, 0, 12, 22, 0, 180>>, next |-> <<>>, goal |-> 0,
      second |-> 0, after |-> <<>>, afterGoal |-> 0] >>
Npcs == << <<9, 0, 30, 40, 0, 270>> >>
MapsListed == <<"rio", "ny", "mall">>
=============================================================================
