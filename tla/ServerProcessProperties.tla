---------------------- MODULE ServerProcessProperties -----------------------
(***************************************************************************)
(* What holds of the server processes and their connections.               *)
(***************************************************************************)
EXTENDS ServerProcess

Messages == {"request", "nothing", "Stop", "Resume", "Exit"}

(* Every variable keeps its type, and no process has more descriptors than *)
(* it may have.                                                            *)
TypeOK ==
  /\ process \in [Server -> {"unborn", "running", "exited", "fatal", "killed"}]
  /\ pretend_fail \in [Server -> BOOLEAN]
  /\ accepting \in [Server -> BOOLEAN]
  /\ {no_response, req_fd, lost} \subseteq [Server -> Nat]
  /\ IsABag(conns)
  /\ DOMAIN conns \subseteq
       [from : Server \cup {Outside}, to : Server, msg : Messages,
        near : {"connect", "write", "read", "leaked", "closed"},
        far : {"none", "backlog", "read", "write", "leaked", "done", "fin", "rst"}]
  /\ exits \in 0 .. N /\ sent \in 0 .. MaxSent /\ killed \in 0 .. MaxKilled
  /\ troubled \subseteq Server
  /\ \A s \in Server : Fds(s) <= MaxFds

(* On a connection between two servers, an end stays open with nothing     *)
(* armed for it only when a server failed: its opener was told to stop, or *)
(* the server it goes to was, was missing, ended or ran out of             *)
(* descriptors.  Otherwise every socket between servers is closed by the   *)
(* handler of its last completion, also when elections, broadcasts and     *)
(* deaths elsewhere come between (aIOServer.cpp:152-156,215-226,           *)
(* appendEntriesExecutor.cpp:150, requestVoteExecutor.cpp:52).             *)
PeerLeaksNeedFailures ==
  \A c \in DOMAIN conns : c.from \in Server =>
    /\ c.near = "leaked" => c.from \in troubled \/ c.to \in troubled
    /\ c.far = "leaked" => c.to \in troubled

(* A server ends in fatal_error (aIOServer.cpp:336) only when another      *)
(* process has ended before and left it an empty message to read: neither  *)
(* commands nor dropped messages nor refused connections bring it down     *)
(* (aIOServer.cpp:204-214,238-265).                                        *)
FatalNeedsADeath ==
  (\E s \in Server : process[s] = "fatal") =>
    killed > 0 \/ (\E s \in Server : process[s] = "exited")

(* "exit" ends every server it reaches, also one that pretends to fail: an *)
(* Exit that was accepted is always obeyed.  Only in the backlog of a      *)
(* server that has stopped accepting it waits, and main waits for the      *)
(* process, for ever (main.cpp:46-66,164, aIOServer.cpp:186-196,238-245).  *)
Ending(s) == process[s] \in {"exited", "fatal", "killed"}

Exits(s) == {c \in DOMAIN conns : c.to = s /\ c.msg = "Exit"}
Deaf(s) == ~accepting[s] /\ \E c \in Exits(s) : c.far = "backlog"

ExitEndsServers == \A s \in Server : (Exits(s) # {}) ~> (Ending(s) \/ Deaf(s))

=============================================================================
