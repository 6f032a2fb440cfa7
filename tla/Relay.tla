------------------------------- MODULE Relay --------------------------------
(***************************************************************************)
(* The two threads of gvhost and its SIGTERM handler around the one global *)
(* eth_sockfd.  The Ethernet thread reads requests of the tool and makes   *)
(* every new connection; the GVSPI thread sends the answers of the board.  *)
(* The mutex covers the parsing of a frame, and with it the send of an     *)
(* answer; neither recv nor eth_socket_init takes it, so a failed send     *)
(* closes the socket while the Ethernet thread may be replacing it.        *)
(*                                                                         *)
(* A descriptor names an open file (a socket).  A file lives on while a    *)
(* thread is blocked in recv on it, whatever happens to its descriptor.    *)
(* Every function call that reads eth_sockfd is a step of its own.         *)
(***************************************************************************)
EXTENDS Naturals, FiniteSets, FiniteSetsExt

CONSTANTS FdMax,     \* bound: descriptors (never exhausted, see LeaksArePaidFor)
          RespMax,   \* bound: frames of the board
          DownMax    \* bound: times the tool goes down

ASSUME RelayAssumption == FdMax \in Nat \ {0} /\ RespMax \in Nat /\ DownMax \in Nat

Actors == {"eth", "spi", "sig"}
Fds    == 1 .. FdMax            \* also the identities of the open files
None   == 0                     \* -1 of the code

VARIABLES sockfd,    \* eth_sockfd
          fds,       \* descriptor -> open file
          link,      \* open file -> state of its connection
          wire,      \* open files with a request of the tool to be read
          pc, closes, ret,   \* per actor: place, close_eth_socket calls left, return
          file,      \* the file recv of the Ethernet thread is blocked on
          mutex, continue,   \* GV_ETH_THREAD_CONTINUE and GVSPI_THREAD_CONTINUE
          toolUp, log

vars == <<sockfd, fds, link, wire, pc, closes, ret, file, mutex, continue, toolUp, log>>

Places == {"top", "recv", "blocked", "lock", "run", "retry", "socket", "connect", "done",
           "test", "send", "unlock", "wait", "c1", "c2", "c3", "c4"}

LogType == [read : 0 .. RespMax, delivered : 0 .. RespMax, failed : 0 .. RespMax,
            downs : 0 .. DownMax]

\* main has connected to the tool before it starts the threads.
Init ==
  /\ sockfd = 1
  /\ fds = [d \in Fds |-> IF d = 1 THEN 1 ELSE None]
  /\ link = [f \in Fds |-> IF f = 1 THEN "up" ELSE "free"]
  /\ wire = {} /\ file = None /\ mutex = "free" /\ continue = TRUE /\ toolUp = TRUE
  /\ pc = [a \in Actors |-> IF a = "sig" THEN "wait" ELSE "top"]
  /\ closes = [a \in Actors |-> 0] /\ ret = [a \in Actors |-> "top"]
  /\ log = [read |-> 0, delivered |-> 0, failed |-> 0, downs |-> 0]

Goto(a, p) == pc' = [pc EXCEPT ![a] = p]

\* The open file eth_sockfd names, None for EBADF.
Current == IF sockfd = None THEN None ELSE fds[sockfd]

-----------------------------------------------------------------------------
(***************************************************************************)
(* close_eth_socket, and error, which calls it behind each of three tests  *)
(* of err_num and once more at its end.  The three tests exclude each      *)
(* other, but err_num is one global that every failed or successful call   *)
(* and every delay of both threads overwrites without a lock, so each test *)
(* may see another value: up to four calls.                                *)
(***************************************************************************)
Call(a, n, p) ==
  /\ pc' = [pc EXCEPT ![a] = "c1"]
  /\ closes' = [closes EXCEPT ![a] = n]
  /\ ret' = [ret EXCEPT ![a] = p]

Error(a, p) == \E n \in 1 .. 4 : Call(a, n, p)

CloseTest(a) ==
  /\ pc[a] = "c1"
  /\ Goto(a, IF sockfd # None THEN "c2" ELSE "c4")
  /\ UNCHANGED <<sockfd, fds, link, wire, closes, ret, file, mutex, continue, toolUp, log>>

(* Mutant: no shutdown before the close. *)
CloseShutdown_Mutation(a) ==
  /\ pc[a] = "c2" /\ Goto(a, "c3")
  /\ UNCHANGED <<sockfd, fds, link, wire, closes, ret, file, mutex, continue, toolUp, log>>

\* shutdown(eth_sockfd): ends a connection, fails on anything else.
CloseShutdown(a) ==
  /\ pc[a] = "c2" /\ Goto(a, "c3")
  /\ link' = [f \in Fds |-> IF f = Current /\ link[f] = "up" THEN "dead" ELSE link[f]]
  /\ UNCHANGED <<sockfd, fds, wire, closes, ret, file, mutex, continue, toolUp, log>>

\* The file f has lost its last reference.
Released(f) == [link EXCEPT ![f] = "free"]

(* Mutant: the descriptor is not closed. *)
CloseClose_Mutation(a) ==
  /\ pc[a] = "c3" /\ Goto(a, "c4")
  /\ UNCHANGED <<sockfd, fds, link, wire, closes, ret, file, mutex, continue, toolUp, log>>

CloseClose(a) ==
  /\ pc[a] = "c3" /\ Goto(a, "c4")
  /\ \/ Current = None /\ UNCHANGED <<fds, link, wire>>
     \/ /\ Current # None
        /\ fds' = [fds EXCEPT ![sockfd] = None]
        /\ link' = IF file = Current THEN link ELSE Released(Current)
        /\ wire' = IF file = Current THEN wire ELSE wire \ {Current}
  /\ UNCHANGED <<sockfd, closes, ret, file, mutex, continue, toolUp, log>>

CloseAssign(a) ==
  /\ pc[a] = "c4" /\ sockfd' = None
  /\ closes' = [closes EXCEPT ![a] = @ - 1]
  /\ Goto(a, IF closes[a] > 1 THEN "c1" ELSE ret[a])
  /\ UNCHANGED <<fds, link, wire, ret, file, mutex, continue, toolUp, log>>

Close(a) == CloseTest(a) \/ CloseShutdown(a) \/ CloseClose(a) \/ CloseAssign(a)

-----------------------------------------------------------------------------
(***************************************************************************)
(* eth_socket_comm and eth_socket_init                                     *)
(***************************************************************************)
\* The loop condition, then recv(eth_sockfd) until it has to wait.
EthTop ==
  /\ pc["eth"] = "top"
  /\ \/ ~continue /\ Call("eth", 1, "done") /\ UNCHANGED file
     \/ continue /\ Current = None /\ Error("eth", "retry") /\ UNCHANGED file
     \/ /\ continue /\ Current # None
        /\ file' = Current /\ Goto("eth", "blocked") /\ UNCHANGED <<closes, ret>>
  /\ UNCHANGED <<sockfd, fds, link, wire, mutex, continue, toolUp, log>>

\* recv is done with its file, which goes if its descriptor has gone.
Unblock ==
  /\ file' = None
  /\ link' = IF \E d \in Fds : fds[d] = file THEN link ELSE Released(file)

(* Mutant: a foreign frame is taken for an error. *)
EthReadFrame_Mutation ==
  /\ pc["eth"] = "blocked" /\ file \in wire
  /\ Unblock /\ wire' = wire \ {file}
  /\ \/ Goto("eth", "lock") /\ UNCHANGED <<closes, ret>>
     \/ Error("eth", "retry")
  /\ UNCHANGED <<sockfd, fds, mutex, continue, toolUp, log>>

\* A frame: one of the tool's is parsed, any other ignored.
EthReadFrame ==
  /\ pc["eth"] = "blocked" /\ file \in wire
  /\ Unblock /\ wire' = wire \ {file}
  /\ \E p \in {"lock", "top"} : Goto("eth", p)
  /\ UNCHANGED <<sockfd, fds, closes, ret, mutex, continue, toolUp, log>>

(* Mutant: the end of the stream is not recognised. *)
EthReadEnd_Mutation ==
  /\ pc["eth"] = "blocked" /\ file \notin wire /\ link[file] # "up"
  /\ Unblock /\ Goto("eth", "top")
  /\ UNCHANGED <<sockfd, fds, wire, closes, ret, mutex, continue, toolUp, log>>

\* recv returns 0 or an error.
EthReadEnd ==
  /\ pc["eth"] = "blocked" /\ file \notin wire /\ link[file] # "up"
  /\ Unblock /\ Error("eth", "retry")
  /\ UNCHANGED <<sockfd, fds, wire, mutex, continue, toolUp, log>>

EthLock ==
  /\ pc["eth"] = "lock" /\ mutex = "free"
  /\ mutex' = "eth" /\ Goto("eth", "run")
  /\ UNCHANGED <<sockfd, fds, link, wire, closes, ret, file, continue, toolUp, log>>

\* run_through_state_machine on a request: SPI_CONNECT and send_Request, or
\* SPI_DISCONNECT; a failed ioctl drops the request without a word to the tool.
EthRun ==
  /\ pc["eth"] = "run" /\ mutex' = "free" /\ Goto("eth", "top")
  /\ UNCHANGED <<sockfd, fds, link, wire, closes, ret, file, continue, toolUp, log>>

\* The loop around eth_socket_init, which closes the old socket first.
EthRetry ==
  /\ pc["eth"] = "retry"
  /\ \/ ~continue /\ Goto("eth", "top") /\ UNCHANGED <<closes, ret>>
     \/ continue /\ Call("eth", 1, "socket")
  /\ UNCHANGED <<sockfd, fds, link, wire, file, mutex, continue, toolUp, log>>

\* socket(): the lowest free descriptor.
EthSocket ==
  /\ pc["eth"] = "socket" /\ Goto("eth", "connect")
  /\ LET free == {d \in Fds : fds[d] = None}
         new  == {f \in Fds : link[f] = "free"}
     IN /\ free # {} /\ new # {}
        /\ sockfd' = Min(free)
        /\ fds' = [fds EXCEPT ![Min(free)] = Min(new)]
        /\ link' = [link EXCEPT ![Min(new)] = "new"]
  /\ UNCHANGED <<wire, closes, ret, file, mutex, continue, toolUp, log>>

\* connect(eth_sockfd)
EthConnect ==
  /\ pc["eth"] = "connect"
  /\ \/ /\ Current # None /\ link[Current] = "new" /\ toolUp
        /\ link' = [link EXCEPT ![Current] = "up"]
        /\ Goto("eth", "top") /\ UNCHANGED <<closes, ret>>
     \/ /\ Current = None \/ ~toolUp
        /\ Error("eth", "retry") /\ UNCHANGED link
  /\ UNCHANGED <<sockfd, fds, wire, file, mutex, continue, toolUp, log>>

Eth == \/ EthTop \/ EthReadFrame \/ EthReadEnd \/ EthLock \/ EthRun
       \/ EthRetry \/ EthSocket \/ EthConnect \/ Close("eth")

-----------------------------------------------------------------------------
(***************************************************************************)
(* gvspi_sock_server, run_through_state_machine on an event or a response, *)
(* eth_socketSend                                                          *)
(***************************************************************************)
\* The loop condition.
SpiTop ==
  /\ pc["spi"] = "top" /\ Goto("spi", IF continue THEN "recv" ELSE "done")
  /\ UNCHANGED <<sockfd, fds, link, wire, closes, ret, file, mutex, continue, toolUp, log>>

\* recvfrom waits for ever when there is no frame and SIGTERM does not end it, so
\* one more frame is handled then.  A foreign frame, or an error, is ignored.
SpiRead ==
  /\ pc["spi"] = "recv"
  /\ \/ /\ log.read < RespMax /\ log' = [log EXCEPT !.read = @ + 1]
        /\ Goto("spi", "lock")
     \/ Goto("spi", "top") /\ UNCHANGED log
  /\ UNCHANGED <<sockfd, fds, link, wire, closes, ret, file, mutex, continue, toolUp>>

SpiLock ==
  /\ pc["spi"] = "lock" /\ mutex = "free"
  /\ mutex' = "spi" /\ Goto("spi", "test")
  /\ UNCHANGED <<sockfd, fds, link, wire, closes, ret, file, continue, toolUp, log>>

\* An answer that finds no socket is dropped.
SpiTest ==
  /\ pc["spi"] = "test"
  /\ Goto("spi", IF sockfd = None THEN "unlock" ELSE "send")
  /\ UNCHANGED <<sockfd, fds, link, wire, closes, ret, file, mutex, continue, toolUp, log>>

(* Mutant: a short send is an error. *)
SpiSend_Mutation ==
  /\ pc["spi"] = "send"
  /\ \/ /\ Current # None /\ link[Current] = "up"
        /\ log' = [log EXCEPT !.delivered = @ + 1]
        /\ Goto("spi", "unlock") /\ UNCHANGED <<closes, ret>>
     \/ /\ log' = [log EXCEPT !.failed = @ + 1] /\ Error("spi", "unlock")
  /\ UNCHANGED <<sockfd, fds, link, wire, file, mutex, continue, toolUp>>

\* send(eth_sockfd).  To a peer that has gone it may still succeed.
SpiSend ==
  /\ pc["spi"] = "send"
  /\ \/ /\ Current # None /\ link[Current] = "up"
        /\ log' = [log EXCEPT !.delivered = @ + 1]
        /\ Goto("spi", "unlock") /\ UNCHANGED <<closes, ret>>
     \/ /\ Current # None /\ link[Current] = "dead"
        /\ Goto("spi", "unlock") /\ UNCHANGED <<closes, ret, log>>
     \/ /\ Current # None => link[Current] # "up"
        /\ log' = [log EXCEPT !.failed = @ + 1] /\ Error("spi", "unlock")
  /\ UNCHANGED <<sockfd, fds, link, wire, file, mutex, continue, toolUp>>

SpiUnlock ==
  /\ pc["spi"] = "unlock" /\ mutex' = "free" /\ Goto("spi", "top")
  /\ UNCHANGED <<sockfd, fds, link, wire, closes, ret, file, continue, toolUp, log>>

Spi == SpiTop \/ SpiLock \/ SpiTest \/ SpiSend \/ SpiUnlock \/ Close("spi")

-----------------------------------------------------------------------------
\* SIGhandler, SIGTERM, in the main thread (which waits in pthread_join).
SigTerm ==
  /\ pc["sig"] = "wait" /\ continue' = FALSE /\ Call("sig", 1, "done")
  /\ UNCHANGED <<sockfd, fds, link, wire, file, mutex, toolUp, log>>

\* The tool (external): it is stopped and started, it sends requests.
ToolDown ==
  /\ toolUp /\ log.downs < DownMax /\ toolUp' = FALSE
  /\ log' = [log EXCEPT !.downs = @ + 1]
  /\ link' = [f \in Fds |-> IF link[f] = "up" THEN "dead" ELSE link[f]]
  /\ \E lost \in SUBSET wire : wire' = wire \ lost
  /\ UNCHANGED <<sockfd, fds, pc, closes, ret, file, mutex, continue>>

ToolStart ==
  /\ ~toolUp /\ toolUp' = TRUE
  /\ UNCHANGED <<sockfd, fds, link, wire, pc, closes, ret, file, mutex, continue, log>>

ToolSend ==
  /\ \E f \in Fds \ wire : link[f] = "up" /\ wire' = wire \cup {f}
  /\ UNCHANGED <<sockfd, fds, link, pc, closes, ret, file, mutex, continue, toolUp, log>>

Next == \/ Eth \/ Spi \/ SpiRead \/ SigTerm \/ Close("sig")
        \/ ToolDown \/ ToolStart \/ ToolSend

\* Threads are scheduled; the board, the tool and the signal are not obliged.
Spec == Init /\ [][Next]_vars /\ WF_vars(Eth) /\ WF_vars(Spi) /\ WF_vars(Close("sig"))

-----------------------------------------------------------------------------
(***************************************************************************)
(* Properties                                                              *)
(***************************************************************************)
TypeOK ==
  /\ sockfd \in Fds \cup {None} /\ file \in Fds \cup {None}
  /\ fds \in [Fds -> Fds \cup {None}]
  /\ link \in [Fds -> {"free", "new", "up", "dead"}] /\ wire \subseteq Fds
  /\ pc \in [Actors -> Places] /\ ret \in [Actors -> Places]
  /\ closes \in [Actors -> 0 .. 4]
  /\ mutex \in {"free", "eth", "spi"} /\ continue \in BOOLEAN /\ toolUp \in BOOLEAN
  /\ log \in LogType

Open == {d \in Fds : fds[d] # None}

\* recv waits on a live connection that eth_sockfd no longer names: a stale close
\* took or overwrote its descriptor, and no thread can reach it any more.
Stranded == pc["eth"] = "blocked" /\ link[file] = "up" /\ Current # file

Usable == Current # None /\ link[Current] = "up"

\* Descriptors leak only where another thread overwrites eth_sockfd: a failed
\* send leaks at most four and SIGTERM one.  Nothing else costs a descriptor, no
\* matter how often the tool goes away and eth_socket_init is retried.
LeaksArePaidFor ==
  /\ TypeOK
  /\ Cardinality(Open \ {sockfd}) =< 4 * log.failed + (IF continue THEN 0 ELSE 1)

\* The relay ends a live connection only for SIGTERM or inside the close of a
\* failed send: the Ethernet thread never hangs up on a tool that is there.
KilledOnlyByStaleClose ==
  [][\A f \in Fds : link[f] = "up" /\ link'[f] # "up" /\ toolUp' =>
       \/ ~continue
       \/ pc["spi"] \in {"c2", "c3"}
       \/ f = file /\ Stranded]_vars

\* An answer is lost only if the tool has been away before: while it is there the
\* GVSPI thread always finds the connection and its send does not fail.
AnswersReachTheTool ==
  log.downs = 0 /\ continue /\ pc["spi"] \in {"top", "recv"} => log.delivered = log.read

\* A tool that stays gets a connection again and again; the exception is the
\* Ethernet thread left stranded, which takes a failed send.
Reconnects ==
  <>[](toolUp /\ continue) => []<>(Usable \/ (Stranded /\ log.failed > 0))

\* SIGTERM ends the Ethernet thread, with the same exception.
TermEndsEth == ~continue ~> (pc["eth"] = "done" \/ (Stranded /\ log.failed > 0))

=============================================================================
