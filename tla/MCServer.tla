------------------------------ MODULE MCServer ------------------------------
(* A small instance of Server: two workers, mailboxes of one, three        *)
(* connections, and every mixture of the bundle's files on disk.           *)
EXTENDS Server

CONSTANTS c1, c2, c3

MCConns == {c1, c2, c3}

MCDisks ==
  SUBSET ((Children \X {"server_js", "app_dir"})
            \cup ({"root", "standalone"} \X {"server_js", "app_dir"})
            \cup {<<"root", "static">>, <<"app", "static">>})

(* -1 is an absent value, -2 one that does not parse; the others sit on    *)
(* both sides of where a worker more or less fits.                         *)
MCPoolSizes == {-1, -2, 0, 3}
MCBudgets == {-1, -2, 0, 63, 128, 191, 192, 320, 1024}
MCPerIsolate == {-1, 0, 100}
MCCgroups == {-1, 0, 256, 1048576}
MCCpus == {-1, 1, 8}

(* Connections are interchangeable only for safety; the run checks         *)
(* liveness too, so it uses no symmetry.                                   *)
=============================================================================
