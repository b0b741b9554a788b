------------------------------ MODULE MCTask ------------------------------
(* Small instances of Task for TLC.                                        *)
EXTENDS Task, TLC

CONSTANTS a, b

OnePipe == a :> "pipe"
SocketAndRemote == a :> "socket" @@ b :> "remote"

=============================================================================
