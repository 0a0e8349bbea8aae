---------------------------- MODULE MCPathRewriting ----------------------------
(* Directories and grants for PathRewriting. *)
EXTENDS PathRewriting

MCHomes == "~" :> <<"a", "b">>
MCCwd == <<"b">>
MCGrantPaths == { <<"/">>, <<"~">>, <<"~", "..">>, <<"/", "a", "..", "b">>, <<"a">> }
===============================================================================
