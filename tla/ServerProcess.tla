--------------------------- MODULE ServerProcess ----------------------------
(***************************************************************************)
(* The server processes of a cluster and their connections: what           *)
(* main (server/main.cpp), the event loop of a server (AIOServer::run and  *)
(* process) and its io_uring layer (AsyncIO) do with sockets, whatever the *)
(* messages say.                                                           *)
(*                                                                         *)
(* Every message has a connection of its own.  The near end is the         *)
(* descriptor of who opened it, the far end that of the server it goes to; *)
(* an end is in the state of the io_uring request that is armed for it,    *)
(* and "leaked" when it is open and nothing is armed.                      *)
(*                                                                         *)
(* What lies outside the cluster (the client, the routing service, cmd of  *)
(* main) sends and goes; it may be gone at any moment.  Of the descriptors *)
(* that lead there only their number is kept: once a request was read or a *)
(* connection to the routing service opened, nothing else depends on the   *)
(* other end.                                                              *)
(***************************************************************************)
EXTENDS Integers, FiniteSets, BagsExt, Bags

CONSTANTS
  N,            \* servers, 0 .. N - 1 in the order main forks them
  Outside,      \* the client, the routing service, cmd of main
  Backlog,      \* listen(sock, 10)
  MaxFds,       \* descriptors a process may have open for connections
  MaxUnderWay,  \* bound: connections a server opened and is not through with
  MaxSent,      \* bound: requests, Stop and Resume messages from outside
  MaxKilled     \* bound: processes that die of a signal, outside ones too

ASSUME ProcessAssumption ==
  /\ N \in Nat /\ Outside \notin Int
  /\ {Backlog, MaxFds} \subseteq Nat \ {0} /\ {MaxUnderWay, MaxSent, MaxKilled} \subseteq Nat

Server == 0 .. N - 1

VARIABLES
  process,      \* "unborn", "running", or how it ended
  pretend_fail,
  accepting,    \* an accept request is armed
  conns,        \* the connections with an open end, a bag
  no_response,  \* [Server -> sockets to the outside that close after a write]
  req_fd,       \* [Server -> sockets of requests that entries of its log keep]
  lost,         \* [Server -> sockets to the outside with nothing armed]
  exits,        \* servers that cmd has gone through after "exit"
  sent, killed, \* how often so far, against the bounds
  troubled      \* history: servers that were missing, told to stop, short of
                \* descriptors, or ended

outward  == <<no_response, req_fd, lost>>
counters == <<exits, sent, killed>>
vars == <<process, pretend_fail, accepting, conns, outward, counters, troubled>>

(* "nothing" is what is read when the opener died before it wrote.         *)
Conn(from, to, msg) == [from |-> from, to |-> to, msg |-> msg, near |-> "connect", far |-> "none"]

Init ==
  /\ process = [s \in Server |-> "unborn"]
  /\ pretend_fail = [s \in Server |-> FALSE]
  /\ accepting = [s \in Server |-> FALSE]
  /\ conns = EmptyBag
  /\ no_response = [s \in Server |-> 0]
  /\ req_fd = [s \in Server |-> 0]
  /\ lost = [s \in Server |-> 0]
  /\ exits = 0 /\ sent = 0 /\ killed = 0
  /\ troubled = {}

-----------------------------------------------------------------------------
(* Descriptors.                                                            *)

(* Connections that look alike are told apart by a number.                 *)
Copies(S) == UNION {{c} \X (1 .. conns[c]) : c \in S}

Count(S) == Cardinality(Copies(S))

(* The ends that s has open; no server connects to itself.                 *)
NearEnds(s) == {c \in DOMAIN conns : c.from = s /\ c.near # "closed"}

FarEnds(s) == {c \in DOMAIN conns : c.to = s /\ c.far \in {"read", "write", "leaked"}}

Fds(s) == Count(NearEnds(s) \cup FarEnds(s)) + no_response[s] + req_fd[s] + lost[s]

(* Faulty variant of Free, for mutation: accepted sockets do not count.     *)
FreeOfOwn(s) == MaxFds - Count(NearEnds(s)) - no_response[s]

Free(s) == MaxFds - Fds(s)

Waiting(s) == {c \in DOMAIN conns : c.to = s /\ c.far = "backlog"}

Alive(s) == process[s] = "running"

Over(c) == c.near = "closed" /\ c.far \in {"none", "done", "fin", "rst"}

(* Connection c becomes d; one without an open end is forgotten. *)
After(c, d) == IF Over(d) THEN BagRemove(conns, c) ELSE BagAdd(BagRemove(conns, c), d)

Becomes(c, d) == conns' = After(c, d)

(* The kernel closes what s had open.  The other end reads 0 bytes, or an  *)
(* error when something that was sent to s had not been read.              *)
Readable(c) == c.far = "read" /\ c.near \in {"read", "closed"}

CutShort(c) == c.far = "backlog" \/ (Readable(c) /\ c.msg # "nothing")

Closed(s, c) ==
  CASE c.from = s -> [c EXCEPT !.near = "closed",
                               !.msg = IF c.near = "write" THEN "nothing" ELSE @]
    [] c.to = s /\ CutShort(c) -> [c EXCEPT !.far = "rst"]
    [] c.to = s /\ ~CutShort(c) /\ c.far \in {"read", "write", "leaked"} -> [c EXCEPT !.far = "fin"]
    [] OTHER -> c

Ended(s, how) ==
  /\ process' = [process EXCEPT ![s] = how]
  /\ accepting' = [accepting EXCEPT ![s] = FALSE]
  /\ conns' = [d \in {x \in {Closed(s, c) : c \in DOMAIN conns} : ~Over(x)} |->
                 Count({c \in DOMAIN conns : Closed(s, c) = d})]
  /\ no_response' = [no_response EXCEPT ![s] = 0]
  /\ req_fd' = [req_fd EXCEPT ![s] = 0]
  /\ lost' = [lost EXCEPT ![s] = 0]
  /\ troubled' = troubled \cup {s}

-----------------------------------------------------------------------------
(* main and what comes from outside.                                       *)

(* main forks the servers one after the other; a server that starts        *)
(* listens, and arms its accept and its timer.                             *)
Start(s) ==
  /\ process[s] = "unborn"
  /\ \A t \in 0 .. s - 1 : process[t] # "unborn"
  /\ process' = [process EXCEPT ![s] = "running"]
  /\ accepting' = [accepting EXCEPT ![s] = TRUE]
  /\ UNCHANGED <<pretend_fail, conns, outward, counters, troubled>>

(* The sender waits for no response, or gives up waiting (utils.py:103):   *)
(* a response that comes later is written all the same.                    *)
Send(s, msg) ==
  /\ Alive(s) /\ Count(Waiting(s)) < Backlog
  /\ conns' = BagAdd(conns, [Conn(Outside, s, msg) EXCEPT !.near = "closed", !.far = "backlog"])

Message(s, msg) ==
  /\ sent < MaxSent
  /\ sent' = sent + 1
  /\ Send(s, msg)
  /\ UNCHANGED <<process, pretend_fail, accepting, outward, exits, killed, troubled>>

(* A process outside dies between connect and write. *)
SenderKilled(s) ==
  /\ killed < MaxKilled
  /\ killed' = killed + 1
  /\ Send(s, "nothing")
  /\ UNCHANGED <<process, pretend_fail, accepting, outward, exits, sent, troubled>>

(* "exit" on the terminal, after the servers were forked: every server is  *)
(* sent Exit, in order, and those that cannot be reached are skipped, also *)
(* one whose backlog stays full until connect gives up.                    *)
ExitCommand ==
  /\ exits < N
  /\ \A s \in Server : process[s] # "unborn"
  /\ exits' = exits + 1
  /\ \/ Send(exits, "Exit")
     \/ /\ Alive(exits) => Count(Waiting(exits)) >= Backlog
        /\ UNCHANGED conns
  /\ UNCHANGED <<process, pretend_fail, accepting, outward, sent, killed, troubled>>

(* A signal, SIGKILL of the operator or the fault of a read past the log.  *)
Killed(s) ==
  /\ Alive(s) /\ killed < MaxKilled
  /\ killed' = killed + 1
  /\ Ended(s, "killed")
  /\ UNCHANGED <<pretend_fail, exits, sent>>

-----------------------------------------------------------------------------
(* The completions of the near end: broadcast_vote and                     *)
(* broadcast_heart_beat, EVENT_CONNECT, EVENT_WRITE and the response.      *)

Peers(s) == Server \ {s}

UnderWay(s) == Count({c \in NearEnds(s) : c.near # "leaked"}) + no_response[s]

(* Room in the model for the connections of one more broadcast. *)
RoomForBroadcast(n) == n + N <= MaxUnderWay

(* The routing service comes first, then the peers in order; socket()      *)
(* fails when the descriptors are used up.                                 *)
Opened(s, free) == {p \in Peers(s) : Cardinality({q \in Peers(s) : q < p}) + 1 < free}

(* The requests for a socket that was not opened are submitted all the     *)
(* same and fail.  bag is what the connections are otherwise.              *)
Broadcast(s, bag, free) ==
  /\ conns' = bag (+) SetToBag({Conn(s, p, "request") : p \in Opened(s, free)})
  /\ no_response' = [no_response EXCEPT ![s] = IF free > 0 THEN @ + 1 ELSE @]

(* A timer may fire at any moment. *)
Timeout(s) ==
  /\ Alive(s) /\ ~pretend_fail[s]
  /\ RoomForBroadcast(UnderWay(s))
  /\ Broadcast(s, conns, Free(s))
  /\ UNCHANGED <<process, pretend_fail, accepting, req_fd, lost, counters, troubled>>

(* A socket to the outside is written to and closed; when the other end    *)
(* refuses or resets, the negative result is skipped.                      *)
Parted(s) ==
  /\ no_response[s] > 0
  /\ no_response' = [no_response EXCEPT ![s] = @ - 1]
  /\ UNCHANGED lost \/ lost' = [lost EXCEPT ![s] = @ + 1]
  /\ UNCHANGED <<process, pretend_fail, accepting, conns, req_fd, counters, troubled>>

(* The kernel of the target takes the connection until accept asks for it. *)
Connected(c) ==
  /\ c.near = "connect"
  /\ Alive(c.to)
  /\ Count(Waiting(c.to)) < Backlog
  /\ Becomes(c, [c EXCEPT !.near = "write", !.far = "backlog"])
  /\ UNCHANGED <<process, pretend_fail, accepting, outward, counters, troubled>>

(* A negative result is skipped: the socket stays open.  A connection that *)
(* finds no room in the backlog fails, too, when it is never accepted.     *)
Refused(c) ==
  /\ c.near = "connect"
  /\ Alive(c.to) => ~accepting[c.to] /\ Count(Waiting(c.to)) >= Backlog
  /\ Becomes(c, [c EXCEPT !.near = "leaked"])
  /\ troubled' = troubled \cup {c.to}
  /\ UNCHANGED <<process, pretend_fail, accepting, outward, counters>>

Written(c) ==
  /\ c.near = "write"
  /\ Becomes(c, [c EXCEPT !.near = IF c.far \in {"fin", "rst"} THEN "leaked" ELSE "read"])
  /\ UNCHANGED <<process, pretend_fail, accepting, outward, counters, troubled>>

(* Faulty variant of AfterResponse, for mutation: executeRsp forgets to    *)
(* close.                                                                  *)
AfterResponseOpen(c) == [c EXCEPT !.near = "leaked"]

(* executeRsp closes the socket; a server that pretends to fail does not   *)
(* get that far.                                                           *)
AfterResponse(c) == [c EXCEPT !.near = IF pretend_fail[c.from] THEN "leaked" ELSE "closed"]

(* The response may commit entries, whose requests are answered, or be a   *)
(* vote, which a leader follows with a broadcast at once.                  *)
ReadResponse(c) ==
  LET s == c.from
  IN
  /\ c.near = "read" /\ c.far = "done"
  /\ \/ /\ Becomes(c, AfterResponse(c))
        /\ \E n \in IF pretend_fail[s] THEN {0} ELSE 0 .. req_fd[s] :
             /\ req_fd' = [req_fd EXCEPT ![s] = @ - n]
             /\ no_response' = [no_response EXCEPT ![s] = @ + n]
     \/ /\ ~pretend_fail[s]
        /\ RoomForBroadcast(UnderWay(s) - 1)
        /\ Broadcast(s, After(c, AfterResponse(c)), Free(s) + 1)
        /\ UNCHANGED req_fd
  /\ UNCHANGED <<process, pretend_fail, accepting, lost, counters, troubled>>

(* The target is gone.  An error is skipped; 0 bytes parse as an empty     *)
(* message, which is fatal unless the server pretends to fail.             *)
ReadEnd(c) ==
  /\ c.near = "read" /\ c.far \in {"fin", "rst"}
  /\ IF c.far = "fin" /\ ~pretend_fail[c.from]
     THEN Ended(c.from, "fatal")
     ELSE /\ Becomes(c, [c EXCEPT !.near = "leaked"])
          /\ UNCHANGED <<process, accepting, outward, troubled>>
  /\ UNCHANGED <<pretend_fail, counters>>

-----------------------------------------------------------------------------
(* The completions of the far end: EVENT_ACCEPT, EVENT_READ with           *)
(* process(), EVENT_WRITE.                                                 *)

(* A server that has no accept armed has used up its descriptors.          *)
Accepts(s, still) ==
  /\ accepting' = [accepting EXCEPT ![s] = still]
  /\ troubled' = IF still THEN troubled ELSE troubled \cup {s}

(* The next accept is armed before the read; it fails at once, and is      *)
(* never armed again, when no descriptor is left.                          *)
Accept(c) ==
  LET s    == c.to
      left == Free(s) - 1
  IN
  /\ c.far = "backlog" /\ accepting[s] /\ left >= 0
  /\ Becomes(c, [c EXCEPT !.far = "read"])
  /\ Accepts(s, left > 0)
  /\ UNCHANGED <<process, pretend_fail, outward, counters>>

(* The descriptors were used up after the accept was armed.                *)
AcceptFails(s) ==
  /\ accepting[s] /\ Waiting(s) # {}
  /\ Free(s) <= 0
  /\ Accepts(s, FALSE)
  /\ UNCHANGED <<process, pretend_fail, conns, outward, counters>>

(* Faulty variant of Reaches, for mutation: a server that pretends to fail *)
(* does not hear Exit.                                                     *)
ReachesUnlessStopped(c) == c.msg \in {"Stop", "Resume"} \/ ~pretend_fail[c.to]

(* Commands are obeyed also by a server that pretends to fail. *)
Reaches(c) == c.msg \in {"Exit", "Stop", "Resume"} \/ ~pretend_fail[c.to]

(* Faulty variant of ReturnEarly, for mutation: the socket is closed.      *)
ReturnAndClose(c) == Becomes(c, [c EXCEPT !.far = "fin"]) /\ UNCHANGED lost

(* process() returns and leaves the socket as it is. *)
ReturnEarly(c) ==
  IF c.from = Outside
  THEN Becomes(c, [c EXCEPT !.far = "done"]) /\ lost' = [lost EXCEPT ![c.to] = @ + 1]
  ELSE Becomes(c, [c EXCEPT !.far = "leaked"]) /\ UNCHANGED lost

ReadCommand(c) ==
  /\ Readable(c) /\ Reaches(c)
  /\ c.msg \in {"Stop", "Resume"}
  /\ pretend_fail' = [pretend_fail EXCEPT ![c.to] = (c.msg = "Stop")]
  /\ troubled' = IF c.msg = "Stop" THEN troubled \cup {c.to} ELSE troubled
  /\ ReturnEarly(c)
  /\ UNCHANGED <<process, accepting, no_response, req_fd, counters>>

ReadExit(c) ==
  /\ Readable(c) /\ Reaches(c)
  /\ c.msg = "Exit"
  /\ Ended(c.to, "exited")
  /\ UNCHANGED <<pretend_fail, counters>>

(* executeReq of a peer's message writes a response on the socket.  The    *)
(* AppendEntries may truncate the log, and entries lose their req_fd.      *)
ReadRequest(c) ==
  /\ Readable(c) /\ Reaches(c)
  /\ c.msg = "request" /\ c.from \in Server
  /\ Becomes(c, [c EXCEPT !.far = "write"])
  /\ \E n \in 0 .. req_fd[c.to] :
       /\ req_fd' = [req_fd EXCEPT ![c.to] = @ - n]
       /\ lost' = [lost EXCEPT ![c.to] = @ + n]
  /\ UNCHANGED <<process, pretend_fail, accepting, no_response, counters, troubled>>

(* A request from outside is answered, or kept in an entry of the log      *)
(* until it commits; one for another cluster is left as it is.             *)
ReadOutside(c) ==
  /\ Readable(c) /\ Reaches(c)
  /\ c.msg = "request" /\ c.from = Outside
  /\ Becomes(c, [c EXCEPT !.far = "done"])
  /\ \/ /\ no_response' = [no_response EXCEPT ![c.to] = @ + 1]
        /\ UNCHANGED <<req_fd, lost>>
     \/ /\ req_fd' = [req_fd EXCEPT ![c.to] = @ + 1]
        /\ UNCHANGED <<no_response, lost>>
     \/ /\ lost' = [lost EXCEPT ![c.to] = @ + 1]
        /\ UNCHANGED <<no_response, req_fd>>
  /\ UNCHANGED <<process, pretend_fail, accepting, counters, troubled>>

(* 0 bytes are no message the server knows. *)
ReadNothing(c) ==
  /\ Readable(c) /\ Reaches(c)
  /\ c.msg = "nothing"
  /\ Ended(c.to, "fatal")
  /\ UNCHANGED <<pretend_fail, counters>>

Drop(c) ==
  /\ Readable(c) /\ ~Reaches(c)
  /\ ReturnEarly(c)
  /\ UNCHANGED <<process, pretend_fail, accepting, no_response, req_fd, counters, troubled>>

(* The response waits for no other: its socket is closed. *)
Responded(c) ==
  /\ c.far = "write"
  /\ Becomes(c, [c EXCEPT !.far = "done"])
  /\ UNCHANGED <<process, pretend_fail, accepting, outward, counters, troubled>>

-----------------------------------------------------------------------------

Near(c) == Connected(c) \/ Refused(c) \/ Written(c) \/ ReadResponse(c) \/ ReadEnd(c)

Read(c) ==
  ReadCommand(c) \/ ReadExit(c) \/ ReadRequest(c) \/ ReadOutside(c) \/ ReadNothing(c) \/ Drop(c)

Far(c) == Accept(c) \/ Read(c) \/ Responded(c)

Next ==
  \/ \E s \in Server :
       \/ Start(s) \/ Timeout(s) \/ Parted(s) \/ AcceptFails(s)
       \/ Killed(s) \/ SenderKilled(s)
       \/ \E msg \in {"request", "Stop", "Resume"} : Message(s, msg)
  \/ ExitCommand
  \/ \E c \in DOMAIN conns : Near(c) \/ Far(c)

Spec == Init /\ [][Next]_vars

(* The kernel completes what it can, and hands connections to accept in    *)
(* the order they came: a command waits for finitely many others, however  *)
(* often the descriptors run out meanwhile.                                *)
Fairness ==
  \A s \in Server :
    /\ WF_vars(Parted(s) \/ AcceptFails(s) \/ \E c \in DOMAIN conns : c.from = s /\ Near(c))
    /\ WF_vars(\E c \in DOMAIN conns : c.to = s /\ (Read(c) \/ Responded(c)))
    /\ SF_vars(\E c \in DOMAIN conns : c.to = s /\ c.from = Outside /\ Accept(c))

FairSpec == Spec /\ Fairness

=============================================================================
