------------------------------- MODULE PfsdRpc -------------------------------
(***************************************************************************)
(* The calls of the pfsd client library (src/src/pfsd_client.c) and the    *)
(* poll loop that answers them (src/src/pfsd.c).  All clients share one    *)
(* System V semaphore and one shared-memory buffer with the daemon, and    *)
(* each has a stream socket to it.  A call takes the semaphore, copies its *)
(* data in, sends a request, waits for the reply, copies data out and      *)
(* gives the semaphore back.                                               *)
(*                                                                         *)
(* Clients exit or are killed anywhere (the kernel then applies SEM_UNDO   *)
(* and closes the socket); the daemon refuses connections, ends when a     *)
(* client hangs up, and is started again at any time.  A semop may fail (a *)
(* process stopped and continued, a set removed by CleanUp_Daemon): the    *)
(* library reports it and goes on, without the lock or without having      *)
(* given it back.                                                          *)
(***************************************************************************)
EXTENDS Integers, Sequences, FiniteSets

CONSTANTS
    Clients,       \* client processes
    NoClient,
    Calls,         \* library calls the clients make
    MaxCalls,      \* bound: calls per client
    MaxStarts,     \* bound: times a client process is started, in all
    MaxRestarts    \* bound: times the daemon is started again

(* The library's calls by what they move through the shared memory.          *)
PlainCalls == {"open", "lseek", "lseek64", "close", "dopen", "dclose", "mkdir",
               "rmdir", "chdir", "remove", "rename", "symlink", "sync", "umount",
               "setreadahead", "getreadahead"}
PutCalls == {"write", "chstat", "ioctl", "format", "mount"}
GetCalls == {"read", "dread", "getstat", "readlink", "getmountpoint"}
PutGetCalls == {"ioctl2", "hioctransfer", "devctl"}

CopiesIn(call) == call \in PutCalls \cup PutGetCalls
CopiesOut(call) == call \in GetCalls \cup PutGetCalls

ASSUME RpcAssumption ==
    /\ NoClient \notin Clients
    /\ Calls \subseteq PlainCalls \cup PutCalls \cup GetCalls \cup PutGetCalls
    /\ MaxCalls \in Nat
    /\ MaxStarts \in Nat
    /\ MaxRestarts \in Nat

VARIABLES
    pc,        \* where each client is in its call
    call,      \* the call it is making
    n,         \* how many calls it has begun: the number of its current call
    got,       \* the reply it received
    data,      \* what it copied out of the shared memory
    starts,    \* times a client was started
    sem,       \* the semaphore's value
    adj,       \* what the kernel adds to it when the client exits (SEM_UNDO)
    shm,       \* whose data the shared memory holds
    sock,      \* the state of the client's connection
    inq,       \* requests sent and not read by the daemon
    outq,      \* replies written and not read by the client
    dpc,       \* where the daemon is
    req,       \* the request it serves
    restarts,  \* times it was started again
    astray,    \* a request was executed after the death of its client
    unlocked   \* a call went on without the lock: its semop failed, or the
               \* daemon was started, and the semaphore reset, during it

client == <<pc, call, n, got, data, starts>>
link == <<sock, inq, outq>>
server == <<dpc, req, restarts, astray>>
lock == <<sem, adj, unlocked>>
vars == <<client, lock, shm, link, server>>

Requests == [call : Calls \cup {"none"}, n : Nat]
Served == [from : Clients \cup {NoClient}, call : Calls \cup {"none"}, n : Nat,
           ok : BOOLEAN]
NoRequest == [from |-> NoClient, call |-> "none", n |-> 0, ok |-> FALSE]

(* A reply names the call it answers; 0 stands for a value nobody wrote.     *)
Replies == [n : Nat, ok : BOOLEAN]
Garbage == [n |-> 0, ok |-> FALSE]

(* The data of a call, on its way in or on its way out.                      *)
Contents == [of : Clients \cup {NoClient}, n : Nat, dir : {"in", "out"}]
Blank == [of |-> NoClient, n |-> 0, dir |-> "out"]
DataIn(c) == [of |-> c, n |-> n[c], dir |-> "in"]
DataOut(c) == [of |-> c, n |-> n[c], dir |-> "out"]

(* Between RequireLock and ReleaseLock.                                      *)
Critical == {"locked", "filled", "sent", "got", "copied"}

TypeOK ==
    /\ pc \in [Clients -> {"out", "idle", "want"} \cup Critical]
    /\ call \in [Clients -> Calls \cup {"none"}]
    /\ n \in [Clients -> Nat]
    /\ got \in [Clients -> Replies]
    /\ data \in [Clients -> Contents]
    /\ starts \in Nat
    /\ sem \in Nat
    /\ adj \in [Clients -> Int]
    /\ shm \in Contents
    /\ sock \in [Clients -> {"none", "backlog", "open", "hup", "closed"}]
    /\ inq \in [Clients -> Seq(Requests)]
    /\ outq \in [Clients -> Seq(Replies)]
    /\ dpc \in {"poll", "execute", "reply", "down"}
    /\ req \in Served
    /\ restarts \in Nat
    /\ astray \in BOOLEAN
    /\ unlocked \in BOOLEAN

Init ==
    /\ pc = [c \in Clients |-> "out"]
    /\ call = [c \in Clients |-> "none"]
    /\ n = [c \in Clients |-> 0]
    /\ got = [c \in Clients |-> Garbage]
    /\ data = [c \in Clients |-> Blank]
    /\ starts = 0
    /\ sem = 1
    /\ adj = [c \in Clients |-> 0]
    /\ shm = Blank
    /\ sock = [c \in Clients |-> "none"]
    /\ inq = [c \in Clients |-> <<>>]
    /\ outq = [c \in Clients |-> <<>>]
    /\ dpc = "poll"
    /\ req = NoRequest
    /\ restarts = 0
    /\ astray = FALSE
    /\ unlocked = FALSE
------------------------------------------------------------------------------
(* The client library.                                                        *)

Goto(c, l) == pc' = [pc EXCEPT ![c] = l]

(* A connection stands in the daemon's backlog once connect() succeeds.       *)
StartUp(c) ==
    /\ pc[c] = "out"
    /\ sock[c] = "none"
    /\ dpc # "down"
    /\ starts < MaxStarts
    /\ starts' = starts + 1
    /\ Goto(c, "idle")
    /\ sock' = [sock EXCEPT ![c] = "backlog"]
    /\ UNCHANGED <<call, n, got, data, lock, shm, inq, outq, server>>

(* A call begins; the request is put together in local memory.                *)
Begin(c) ==
    /\ pc[c] = "idle"
    /\ n[c] < MaxCalls
    /\ n' = [n EXCEPT ![c] = @ + 1]
    /\ \E x \in Calls : call' = [call EXCEPT ![c] = x]
    /\ Goto(c, "want")
    /\ UNCHANGED <<got, data, starts, lock, shm, link, server>>

RequireLock(c) ==
    /\ pc[c] = "want"
    /\ sem > 0
    /\ sem' = sem - 1
    /\ adj' = [adj EXCEPT ![c] = @ + 1]
    /\ Goto(c, "locked")
    /\ UNCHANGED <<call, n, got, data, starts, unlocked, shm, link, server>>

(* Its semop fails: the call goes on all the same.                            *)
RequireLockFails(c) ==
    /\ pc[c] = "want"
    /\ unlocked' = TRUE
    /\ Goto(c, "locked")
    /\ UNCHANGED <<call, n, got, data, starts, sem, adj, shm, link, server>>

CopyIn(c) ==
    /\ pc[c] = "locked"
    /\ CopiesIn(call[c])
    /\ shm' = DataIn(c)
    /\ Goto(c, "filled")
    /\ UNCHANGED <<call, n, got, data, starts, lock, link, server>>

Max0(x) == IF x < 0 THEN 0 ELSE x

(* The process ends: SEM_UNDO is applied and its end of the socket closes.    *)
Die(c) ==
    /\ Goto(c, "out")
    /\ call' = [call EXCEPT ![c] = "none"]
    /\ got' = [got EXCEPT ![c] = Garbage]
    /\ data' = [data EXCEPT ![c] = Blank]
    /\ sem' = Max0(sem + adj[c])
    /\ adj' = [adj EXCEPT ![c] = 0]
    /\ sock' = [sock EXCEPT ![c] = IF @ = "closed" THEN "none" ELSE "hup"]
    /\ outq' = [outq EXCEPT ![c] = <<>>]
    /\ UNCHANGED <<n, unlocked, starts, shm, inq, server>>

(* Fault: the request is sent before the data is copied in.                   *)
ReadyToSend_early(c) == pc[c] \in {"locked", "filled"}

ReadyToSend(c) ==
    pc[c] = "filled" \/ (pc[c] = "locked" /\ ~CopiesIn(call[c]))

(* Fault: the message is sent without its command.                            *)
SendRequest_no_command(c) ==
    /\ ReadyToSend(c)
    /\ sock[c] # "closed"
    /\ inq' = [inq EXCEPT ![c] = Append(@, [call |-> "unset", n |-> n[c]])]
    /\ Goto(c, "sent")
    /\ UNCHANGED <<call, n, got, data, starts, lock, shm, sock, outq, server>>

(* Fault: the lock is given back once the request is sent.                    *)
SendRequest_unlocks(c) ==
    /\ ReadyToSend(c)
    /\ sock[c] # "closed"
    /\ inq' = [inq EXCEPT ![c] = Append(@, [call |-> call[c], n |-> n[c]])]
    /\ sem' = sem + 1
    /\ adj' = [adj EXCEPT ![c] = @ - 1]
    /\ Goto(c, "sent")
    /\ UNCHANGED <<call, n, got, data, starts, unlocked, shm, sock, outq, server>>

SendRequest(c) ==
    /\ ReadyToSend(c)
    /\ sock[c] # "closed"
    /\ inq' = [inq EXCEPT ![c] = Append(@, [call |-> call[c], n |-> n[c]])]
    /\ Goto(c, "sent")
    /\ UNCHANGED <<call, n, got, data, starts, lock, shm, sock, outq, server>>

(* The client library leaves SIGPIPE alone: writing to a closed connection    *)
(* ends the process.                                                          *)
SendFails(c) ==
    /\ ReadyToSend(c)
    /\ sock[c] = "closed"
    /\ Die(c)

(* Fault: the lock is given back before the data is copied out.               *)
ReceiveReply_unlocks(c) ==
    /\ pc[c] = "sent"
    /\ outq[c] # <<>>
    /\ got' = [got EXCEPT ![c] = Head(outq[c])]
    /\ outq' = [outq EXCEPT ![c] = Tail(@)]
    /\ sem' = sem + 1
    /\ adj' = [adj EXCEPT ![c] = @ - 1]
    /\ Goto(c, "got")
    /\ UNCHANGED <<call, n, data, starts, unlocked, shm, sock, inq, server>>

ReceiveReply(c) ==
    /\ pc[c] = "sent"
    /\ outq[c] # <<>>
    /\ got' = [got EXCEPT ![c] = Head(outq[c])]
    /\ outq' = [outq EXCEPT ![c] = Tail(@)]
    /\ Goto(c, "got")
    /\ UNCHANGED <<call, n, data, starts, lock, shm, sock, inq, server>>

(* Fault: at end of file the read is tried again.                             *)
ReceiveFails_retries(c) ==
    /\ pc[c] = "sent"
    /\ outq[c] = <<>>
    /\ sock[c] = "closed"
    /\ UNCHANGED vars

(* End of file: the variable that is returned was never written.              *)
ReceiveFails(c) ==
    /\ pc[c] = "sent"
    /\ outq[c] = <<>>
    /\ sock[c] = "closed"
    /\ got' = [got EXCEPT ![c] = Garbage]
    /\ Goto(c, "got")
    /\ UNCHANGED <<call, n, data, starts, lock, shm, link, server>>

CopyOut(c) ==
    /\ pc[c] = "got"
    /\ CopiesOut(call[c])
    /\ data' = [data EXCEPT ![c] = shm]
    /\ Goto(c, "copied")
    /\ UNCHANGED <<call, n, got, starts, lock, shm, link, server>>

(* What is left of the call: its result is returned.                          *)
Return(c) ==
    /\ pc[c] = "copied" \/ (pc[c] = "got" /\ ~CopiesOut(call[c]))
    /\ Goto(c, "idle")
    /\ call' = [call EXCEPT ![c] = "none"]
    /\ got' = [got EXCEPT ![c] = Garbage]
    /\ data' = [data EXCEPT ![c] = Blank]
    /\ UNCHANGED <<n, unlocked, starts, shm, link, server>>

(* Fault: the release lacks SEM_UNDO.                                         *)
ReleaseLock_no_undo(c) ==
    /\ Return(c)
    /\ sem' = sem + 1
    /\ UNCHANGED adj

ReleaseLock(c) ==
    /\ Return(c)
    /\ sem' = sem + 1
    /\ adj' = [adj EXCEPT ![c] = @ - 1]

(* Its semop fails: the call returns and the process keeps the lock.          *)
ReleaseLockFails(c) ==
    /\ Return(c)
    /\ UNCHANGED <<sem, adj>>

(* The end of the process, after scepfsdExit or, killed, anywhere.            *)
CleanUp(c) == pc[c] = "idle" /\ Die(c)
Killed(c) == pc[c] \in Critical \cup {"want"} /\ Die(c)
------------------------------------------------------------------------------
(* The daemon.                                                                *)

(* accept(), which may be followed by a refusal.                              *)
add_new_client(c) ==
    /\ dpc = "poll"
    /\ sock[c] = "backlog"
    /\ \E s \in {"open", "closed"} :
          /\ sock' = [sock EXCEPT ![c] = s]
          /\ inq' = IF s = "open" THEN inq ELSE [inq EXCEPT ![c] = <<>>]
    /\ UNCHANGED <<client, lock, shm, outq, server>>

(* The request is read.  poll() may have reported it before its client died.  *)
event_handler_func(c) ==
    /\ dpc = "poll"
    /\ sock[c] \in {"open", "hup"}
    /\ inq[c] # <<>>
    /\ req' = [from |-> c, call |-> Head(inq[c]).call, n |-> Head(inq[c]).n, ok |-> FALSE]
    /\ inq' = [inq EXCEPT ![c] = Tail(@)]
    /\ dpc' = "execute"
    /\ UNCHANGED <<client, lock, shm, sock, outq, restarts, astray>>

(* The driver call, on the shared memory as it is.                            *)
Execute ==
    /\ dpc = "execute"
    /\ \E ok \in BOOLEAN :
          /\ req' = [req EXCEPT !.ok = ok]
          /\ shm' = IF ok /\ CopiesOut(req.call)
                    THEN [of |-> req.from, n |-> req.n, dir |-> "out"] ELSE shm
    /\ astray' = (astray \/ sock[req.from] = "hup")
    /\ dpc' = "reply"
    /\ UNCHANGED <<client, lock, link, restarts>>

(* Fault: every handler falls through to the common reply.                    *)
Reply_twice ==
    /\ dpc = "reply"
    /\ LET c == req.from
       IN  outq' = IF sock[c] = "hup" THEN outq
                   ELSE [outq EXCEPT ![c] = @ \o <<[n |-> req.n, ok |-> req.ok], Garbage>>]
    /\ req' = NoRequest
    /\ dpc' = "poll"
    /\ UNCHANGED <<client, lock, shm, sock, inq, restarts, astray>>

(* The reply is written.  After rpc_command_getmountpoint has written its own *)
(* the switch is left with break, and rpcret is written a second time without *)
(* having been assigned.                                                      *)
Reply ==
    /\ dpc = "reply"
    /\ LET c == req.from
           answer == <<[n |-> req.n, ok |-> req.ok]>>
       IN  outq' = IF sock[c] = "hup" THEN outq
                   ELSE [outq EXCEPT ![c] = @ \o
                           (IF req.call = "getmountpoint" THEN answer \o <<Garbage>>
                            ELSE answer)]
    /\ req' = NoRequest
    /\ dpc' = "poll"
    /\ UNCHANGED <<client, lock, shm, sock, inq, restarts, astray>>

(* A client that hung up is forgotten, with the request it had pending; then  *)
(* errno decides whether the poll loop goes on or the process ends, which     *)
(* closes every connection.                                                   *)
cleanup_client(c) ==
    /\ dpc = "poll"
    /\ sock[c] = "hup"
    /\ \/ /\ dpc' = "poll"
          /\ sock' = [sock EXCEPT ![c] = "none"]
          /\ inq' = [inq EXCEPT ![c] = <<>>]
       \/ /\ dpc' = "down"
          /\ sock' = [b \in Clients |->
                         IF sock[b] \in {"none", "hup"} THEN "none" ELSE "closed"]
          /\ inq' = [b \in Clients |-> <<>>]
    /\ UNCHANGED <<client, lock, shm, outq, req, restarts, astray>>

(* A new daemon: SETVAL also discards what SEM_UNDO has recorded, so a call   *)
(* that is under way no longer has the lock.                                  *)
StartUp_Daemon ==
    /\ dpc = "down"
    /\ restarts < MaxRestarts
    /\ restarts' = restarts + 1
    /\ dpc' = "poll"
    /\ sem' = 1
    /\ adj' = [c \in Clients |-> 0]
    /\ unlocked' = \E c \in Clients : pc[c] \in Critical
    /\ UNCHANGED <<client, shm, link, req, astray>>
------------------------------------------------------------------------------
(* What every call does when the semaphore works.                            *)
CallStep(c) ==
    \/ RequireLock(c)
    \/ CopyIn(c)
    \/ SendRequest(c)
    \/ SendFails(c)
    \/ ReceiveReply(c)
    \/ ReceiveFails(c)
    \/ CopyOut(c)
    \/ ReleaseLock(c)

Next ==
    \/ \E c \in Clients : \/ StartUp(c)
                          \/ Begin(c)
                          \/ CallStep(c)
                          \/ RequireLockFails(c)
                          \/ ReleaseLockFails(c)
                          \/ CleanUp(c)
                          \/ Killed(c)
                          \/ add_new_client(c)
                          \/ event_handler_func(c)
                          \/ cleanup_client(c)
    \/ Execute
    \/ Reply
    \/ StartUp_Daemon

Spec == Init /\ [][Next]_vars

(* The scheduler runs every process and one pass of the poll loop looks at   *)
(* every connection; no semop has to fail.  That semop serves its waiters in *)
(* order is not needed: with the calls and starts bounded, nobody can be     *)
(* passed over for ever.                                                     *)
Fairness ==
    /\ \A c \in Clients : /\ WF_vars(CallStep(c))
                           /\ WF_vars(add_new_client(c))
                           /\ WF_vars(event_handler_func(c))
    /\ WF_vars(Execute \/ Reply)

FairSpec == Spec /\ Fairness
------------------------------------------------------------------------------
(* Properties.                                                                *)

(* Unless a call went on without the lock: no two clients are between         *)
(* RequireLock and ReleaseLock, whoever is killed, and the semaphore is taken *)
(* exactly while somebody is, or kept it because ReleaseLock's semop failed;  *)
(* what a process keeps comes back when it ends.                              *)
LockConserved ==
    ~unlocked =>
        /\ \A b, c \in Clients : pc[b] \in Critical /\ pc[c] \in Critical => b = c
        /\ sem = 0 <=> \E c \in Clients : pc[c] \in Critical \/ adj[c] > 0
        /\ sem \in {0, 1}
        /\ \A c \in Clients : pc[c] = "out" => adj[c] = 0

(* A reply the client takes from its socket answers the call it is making;    *)
(* it goes without one only when the daemon has closed the connection.        *)
ReplyAnswersCall ==
    \A c \in Clients : pc[c] \in {"got", "copied"} =>
        got[c].n = n[c] \/ (got[c] = Garbage /\ sock[c] = "closed")

(* The daemon executes a call on the data its client copied in, unless some   *)
(* call went on without the lock or the request of a dead client is executed. *)
ExecutesOwnData ==
    [][dpc = "execute" /\ dpc' = "reply" /\ CopiesIn(req.call)
          /\ ~astray' /\ ~unlocked =>
             shm = [of |-> req.from, n |-> req.n, dir |-> "in"]]_vars

(* What a successful call copies out is what the daemon put there for it,     *)
(* with the same exceptions.                                                  *)
CopiesOwnResult ==
    \A c \in Clients :
        pc[c] = "copied" /\ got[c].ok /\ ~astray /\ ~unlocked => data[c] = DataOut(c)

(* At most one request is under way in the whole system, counting those that  *)
(* dead clients left behind only while the daemon has not noticed them, and   *)
(* unless some call went on without the lock.                                 *)
OneRequestAtATime ==
    ~unlocked =>
        \A b, c \in Clients :
            /\ sock[b] # "hup" /\ inq[b] # <<>>
            /\ sock[c] # "hup" /\ (inq[c] # <<>> \/ outq[c] # <<>> \/ req.from = c)
            => b = c /\ Len(inq[c]) = 1 /\ outq[c] = <<>> /\ req.from # c

(* A client that asks for the lock gets its turn, is answered or told that   *)
(* it will not be, and gives the lock back, whatever becomes of the daemon   *)
(* and of the other clients, unless a process whose release failed keeps the *)
(* lock outside any call.                                                    *)
EveryCallEnds ==
    \A c \in Clients : pc[c] \in {"want"} \cup Critical ~>
        \/ pc[c] \notin {"want"} \cup Critical
        \/ \E b \in Clients : pc[b] \notin Critical /\ adj[b] > 0
==============================================================================
