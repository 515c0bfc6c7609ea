----------------------------- MODULE MCReadings -----------------------------
(***************************************************************************)
(* Measurements around every change of form, carry, sign and limit.        *)
(***************************************************************************)
EXTENDS Readings

MCCoordinates ==
  [degrees : {0, 9, 48, 89}, hemisphere : {"N", "S"},
   minutes : {0, 1, 380, 100000, 703800, 2999999, 5999999}]
  \cup [degrees : {0, 11, 100, 179}, hemisphere : {"E", "W"},
        minutes : {0, 4, 3100000, 5999997, 5999999}]
  \cup [degrees : {180}, hemisphere : {"E", "W"}, minutes : {0}]

MCClocks ==
  [hour : {0, 9, 23}, minute : {0, 5, 59}, second : {0, 7, 59, 60},
   centisecond : {0, 1, 20, 99}]
MCDates == [year : {2000, 2024, 2099}, month : {1, 2, 12}, day : {1, 29, 31}]

MCAltitudes ==
  (-9 .. 9) \cup (27740 .. 27790) \cup (322650 .. 322675) \cup {-6000, -4999, -123, 999, 400000}
MCSpeeds == (176910 .. 176945) \cup {0, 1, 2, 3, 4, 5, 27, 53996, 53997, 176000, 999999}
MCBearings == {0, 1, 4, 5, 9, 99, 4567, 17999, 18000, 35998, 35999, 36000}
MCDops == {50, 51, 55, 99, 100, 999, 1254, 9999}
MCSatellites == {0, 1, 12, 61, 62, 63, 64, 255}
MCTemperatures == {-32768, -12421, -12420, -521, 0, 1, 17, 5000, 32767}

\* The clock is of 100 milliseconds; presses go past one byte.
MCSessions == [start : {0, 1, 50, 99}, age : {0, 1, 49, 50, 99}, presses : {1, 255, 256, 257}]
MCRates == (0 .. 10) \cup {33, 100, 101, 999, 1000, 1001, 7999, 8000, 65535}

\* All ways to put a box down on a face, and tilted ones.
Square == {<<1, 0, 0>>, <<-1, 0, 0>>, <<0, 1, 0>>, <<0, -1, 0>>, <<0, 0, 1>>, <<0, 0, -1>>}
Tilted == {<<1, 2, 2>>, <<2, 1, -2>>, <<2, -2, 1>>, <<-2, 2, -1>>, <<2, 1, 2>>, <<1, 2, -2>>}
MCMountings ==
  {[up |-> u, forward |-> f, length |-> 1, trim |-> t] :
     <<u, f, t>> \in {x \in Square \X Square \X {<<0, 0, 0>>, <<300, -300, 900>>} :
                        Dot(x[1], x[2]) = 0}}
  \cup {[up |-> u, forward |-> f, length |-> 3, trim |-> <<0, 0, 0>>] :
          <<u, f>> \in {x \in Tilted \X Tilted : Dot(x[1], x[2]) = 0}}

\* Two faces, a reading near each, and one on the way.
MCPoses == {<<8, 0, 0>>, <<7, 1, 0>>, <<-8, 0, 0>>, <<-8, -1, 1>>, <<0, 6, 0>>}

\* A flat box that faces forward.
MCFlat == {[up |-> <<0, 0, 1>>, forward |-> <<1, 0, 0>>, length |-> 1, trim |-> <<0, 0, 0>>]}

MCWrongBytes == {0, 1, 2, 62, 128, 181, 255}
=============================================================================
