------------------------ MODULE MCStationSelection ------------------------
(***************************************************************************)
(* Station files with rows in the main hours, between them, and in and at  *)
(* the edges of both parts of the day, laid out around the scene hour.     *)
(***************************************************************************)
EXTENDS StationSelection

Row(h, d, minutes, wind, temp) ==
    [time |-> 100 * ((h + d) % 24) + minutes, wind |-> wind, temp |-> temp]

MCRowsAt(h) == {Row(h, -1, 0, 9999, 200), Row(h, 0, 0, 20, 200), Row(h, 0, 0, 9999, 200),
            Row(h, 0, 30, 9999, 200), Row(h, 1, 0, 0, 200), Row(h, 1, 0, 9999, 200),
            Row(h, 2, 0, 20, 200), Row(h, 6, 0, 20, 200), Row(h, 12, 0, 20, -200),
            Row(h, 18, 0, 20, 9999), Row(h, 18, 0, 20, 200)}
=============================================================================
