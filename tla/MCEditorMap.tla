----------------------------- MODULE MCEditorMap -----------------------------
EXTENDS EditorMap, TLC

\* A city of six cells: a ramp in the upper row, a wall in the lower.
CityGrid ==
  [x \in Cells |-> CASE x = <<0, 1>> -> SENSOR_ALT0 [] x = <<1, 2>> -> NO_TRANSITABLE
                     [] OTHER -> TRANSITABLE]
City == [grid |-> CityGrid, checkpoints_order |-> <<>>, direccion_salida |-> "", extra |-> "npcs"]

\* A map saved before, whose second checkpoint was laid across the first.
MineGrid ==
  [x \in Cells |-> CASE x \in {<<0, 0>>, <<1, 0>>} -> SALIDA [] x = <<1, 1>> -> META
                     [] x \in {<<0, 1>>, <<0, 2>>} -> CHECKPOINT [] OTHER -> NO_TRANSITABLE]
Mine ==
  [grid |-> MineGrid, direccion_salida |-> "arriba", extra |-> "npcs",
   checkpoints_order |-> << [order |-> 1, cells |-> {<<0, 1>>, <<0, 2>>}],
                            [order |-> 2, cells |-> {<<0, 1>>}] >>]

\* A file that holds no matrix.
Torn == [grid |-> NoStroke, checkpoints_order |-> <<>>, direccion_salida |-> "", extra |-> "none"]

SmallDisk == "city" :> City @@ "mine" :> Mine @@ "torn" :> Torn
SmallClicks == {<<0, 0>>, <<0, 1>>, <<1, 1>>, <<1, 2>>}
=============================================================================
