------------------------------ MODULE MCColors ----------------------------
(* A few colours with light in all channels, in some and in none.          *)
EXTENDS Colors, TLC

Rgb(r, g, b) == [red |-> r, green |-> g, blue |-> b]

MCPalette == {Rgb(0, 0, 0), Rgb(255, 255, 255), Rgb(200, 100, 50), Rgb(10, 20, 201), Rgb(0, 254, 3)}
MCTemperatures == {0, 1000, 3000, 40000, 50000}
MCBlackBody == 1000 :> Rgb(255, 67, 0) @@ 3000 :> Rgb(255, 177, 109) @@ 40000 :> Rgb(151, 185, 255)
MCRatios == {Rat(-1), Rat(0), <<1, 3>>, Rat(1), Rat(2)}
===========================================================================
