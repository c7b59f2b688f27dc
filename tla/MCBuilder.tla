----------------------------- MODULE MCBuilder ----------------------------
(* Trajectories of up to three parts, on a grid of 2 mm.                   *)
EXTENDS BuilderUse

At(x, z, yaw) == [x |-> x, y |-> 0, z |-> z, yaw |-> yaw]

(* On the grid, off it and negative, and out of range.                     *)
MCPositions == {At(8, 0, 0), At(-7, 5, -100), At(8, 70000, 3700)}
MCByte == 0 .. 255
===========================================================================
