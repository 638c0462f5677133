----------------------------- MODULE MCGbServer -----------------------------
(* Instances of module GbServer for TLC. *)
EXTENDS GbServer

CONSTANTS r1, r2, r3, c1

\* Three REGISTERs among themselves; or one device that is called.
MCWorkloads == {{r1, r2, r3}, {r1, c1}}
MCExpires == {-1, 0, 2}
=============================================================================
