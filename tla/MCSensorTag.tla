---------------------------- MODULE MCSensorTag ----------------------------
(* Small devices for TLC.  A handle in the model stands for one of the 65535. *)
EXTENDS SensorTag

Sensor(h, id, n) == [handle |-> h, value |-> h + 1, uuid |-> id, wide |-> TRUE, length |-> n]
Info(h, id) == [Sensor(h, id, 6) EXCEPT !.wide = FALSE]

MCLastHandle == 13
MCPerAnswer == [wide \in BOOLEAN |-> IF wide THEN 1 ELSE 2]

\* The two sensors whose readings have the same length, and another.
Tag == [services |-> {[handle |-> 1, last |-> 4], [handle |-> 5, last |-> 13]},
        characteristics |-> {Sensor(2, "aa31", 6), Sensor(5, "aa51", 6), Sensor(8, "aa11", 3)}]

\* More narrow characteristics than the table holds, and a service of one handle.
Crowded == [services |-> {[handle |-> 1, last |-> 1], [handle |-> 2, last |-> 13]},
            characteristics |-> {Info(h, "2a00") : h \in {2, 4, 6, 8, 10, 12}}]

MCUUIDs == {"aa31", "aa51", "aa11", "2a00"}
MCDevices == {Tag, Crowded}
MCMaxAttr == 3
MCRates == {-2, 1}
MCGaps == {2, 3}
MCGarbage == {0, 9}
MCAsked == {"gyroscope", "magnetom", "accelero", "humidity"}
=============================================================================
