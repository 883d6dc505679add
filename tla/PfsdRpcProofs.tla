--------------------------- MODULE PfsdRpcProofs ---------------------------
(***************************************************************************)
(* Proofs about PfsdRpc, for any number of clients and any bounds: type    *)
(* correctness; that the semaphore is a lock until a call goes on without  *)
(* it, from an inductive invariant that ties the kernel's SEM_UNDO record  *)
(* to where each client is in its call; that replies answer the call they  *)
(* are read for, with the lock or without, from an invariant over each     *)
(* connection and the daemon's place in its loop; and, where both hold,    *)
(* that a request is executed on its own data and a client copies its own  *)
(* result.  All that is said of replies and data leaves out getmountpoint, *)
(* which the daemon answers twice.                                         *)
(***************************************************************************)
EXTENDS PfsdRpc, SequenceTheorems, TLAPS

(* The values that stand for "nothing yet" are of the type of the real ones. *)
LEMMA InitialValues ==
    Garbage \in Replies /\ Blank \in Contents /\ NoRequest \in Served
<1>1. Garbage \in Replies
  BY Zenon DEF Garbage, Replies
<1>2. Blank \in Contents
  BY DEF Blank, Contents
<1>3. NoRequest \in Served
  BY DEF NoRequest, Served
<1> QED
  BY <1>1, <1>2, <1>3

(* Every step of a client, its death and each step of the daemon keeps every *)
(* variable in its type.                                                     *)
THEOREM TypeCorrect == Spec => []TypeOK
<1>1. Init => TypeOK
  <2> SUFFICES ASSUME Init
               PROVE  TypeOK
    OBVIOUS
  <2>1. astray \in BOOLEAN
    BY Zenon DEF Init
  <2>3. unlocked \in BOOLEAN
    BY Zenon DEF Init
  <2>2. inq \in [Clients -> Seq(Requests)] /\ outq \in [Clients -> Seq(Replies)]
    BY DEF Init
  <2> QED
    BY <2>1, <2>2, <2>3, InitialValues DEF Init, TypeOK, Critical
<1>2. TypeOK /\ [Next]_vars => TypeOK'
  <2> SUFFICES ASSUME TypeOK, [Next]_vars
               PROVE  TypeOK'
    OBVIOUS
  <2> USE DEF TypeOK, Critical
  <2>1. ASSUME NEW c \in Clients, StartUp(c)
        PROVE  TypeOK'
    BY <2>1 DEF StartUp, Goto, server, lock
  <2>2. ASSUME NEW c \in Clients, Begin(c)
        PROVE  TypeOK'
    BY <2>2 DEF Begin, Goto, link, server, lock
  <2>3. ASSUME NEW c \in Clients, RequireLock(c)
        PROVE  TypeOK'
    BY <2>3 DEF RequireLock, Goto, link, server
  <2>3a. ASSUME NEW c \in Clients, RequireLockFails(c)
         PROVE  TypeOK'
    <3>1. unlocked' \in BOOLEAN
      BY <2>3a, Zenon DEF RequireLockFails
    <3> QED
      BY <2>3a, <3>1 DEF RequireLockFails, Goto, link, server
  <2>4. ASSUME NEW c \in Clients, CopyIn(c)
        PROVE  TypeOK'
    BY <2>4 DEF CopyIn, Goto, link, server, DataIn, Contents, lock
  <2>5. ASSUME NEW c \in Clients, Die(c)
        PROVE  TypeOK'
    BY <2>5, InitialValues DEF Die, Goto, server, Max0
  <2>6. ASSUME NEW c \in Clients, SendRequest(c)
        PROVE  TypeOK'
    <3>1. [call |-> call[c], n |-> n[c]] \in Requests
      BY DEF Requests
    <3>2. inq' \in [Clients -> Seq(Requests)]
      BY <2>6, <3>1 DEF SendRequest
    <3> QED
      BY <2>6, <3>2 DEF SendRequest, Goto, server, lock
  <2>7. ASSUME NEW c \in Clients, ReceiveReply(c)
        PROVE  TypeOK'
    <3>1. Head(outq[c]) \in Replies /\ Tail(outq[c]) \in Seq(Replies)
      BY <2>7 DEF ReceiveReply
    <3> QED
      BY <2>7, <3>1 DEF ReceiveReply, Goto, server, lock
  <2>8. ASSUME NEW c \in Clients, ReceiveFails(c)
        PROVE  TypeOK'
    BY <2>8, InitialValues DEF ReceiveFails, Goto, link, server, lock
  <2>9. ASSUME NEW c \in Clients, CopyOut(c)
        PROVE  TypeOK'
    BY <2>9 DEF CopyOut, Goto, link, server, lock
  <2>10. ASSUME NEW c \in Clients, ReleaseLock(c)
         PROVE  TypeOK'
    BY <2>10, InitialValues DEF ReleaseLock, Return, Goto, link, server
  <2>10a. ASSUME NEW c \in Clients, ReleaseLockFails(c)
          PROVE  TypeOK'
    BY <2>10a, InitialValues DEF ReleaseLockFails, Return, Goto, link, server
  <2>11. ASSUME NEW c \in Clients, add_new_client(c)
         PROVE  TypeOK'
    BY <2>11 DEF add_new_client, client, server, lock
  <2>12. ASSUME NEW c \in Clients, event_handler_func(c)
         PROVE  TypeOK'
    <3>1. Head(inq[c]) \in Requests /\ Tail(inq[c]) \in Seq(Requests)
      BY <2>12 DEF event_handler_func
    <3> QED
      BY <2>12, <3>1 DEF event_handler_func, client, Requests, Served, lock
  <2>13. ASSUME NEW c \in Clients, cleanup_client(c)
         PROVE  TypeOK'
    <3>1. sock' \in [Clients -> {"none", "backlog", "open", "hup", "closed"}]
      BY <2>13 DEF cleanup_client
    <3>2. inq' \in [Clients -> Seq(Requests)]
      <4>1. <<>> \in Seq(Requests)
        OBVIOUS
      <4>2. \/ inq' = [inq EXCEPT ![c] = <<>>]
            \/ inq' = [b \in Clients |-> <<>>]
        BY <2>13, Zenon DEF cleanup_client
      <4>3. [b \in Clients |-> <<>>] \in [Clients -> Seq(Requests)]
        BY <4>1, Zenon
      <4>4. [inq EXCEPT ![c] = <<>>] \in [Clients -> Seq(Requests)]
        BY <4>1
      <4> QED
        BY <4>2, <4>3, <4>4, Zenon
    <3>3. dpc' \in {"poll", "down"}
      BY <2>13 DEF cleanup_client
    <3> QED
      BY <2>13, <3>1, <3>2, <3>3 DEF cleanup_client, client, lock
  <2>14. CASE Execute
    <3>1. PICK ok \in BOOLEAN : /\ req' = [req EXCEPT !.ok = ok]
                               /\ shm' = IF ok /\ CopiesOut(req.call)
                                         THEN [of |-> req.from, n |-> req.n, dir |-> "out"]
                                         ELSE shm
      BY <2>14 DEF Execute
    <3>2. req' \in Served
      BY <3>1, Zenon DEF Served
    <3>3. shm' \in Contents
      BY <3>1 DEF Contents, Served
    <3>4. astray' \in BOOLEAN
      BY <2>14, Zenon DEF Execute
    <3>5. dpc' = "reply" /\ UNCHANGED <<client, lock, link, restarts>>
      BY <2>14 DEF Execute
    <3> QED
      BY <3>2, <3>3, <3>4, <3>5 DEF client, link, lock
  <2>15. CASE Reply
    <3>1. [n |-> req.n, ok |-> req.ok] \in Replies /\ Garbage \in Replies
      BY InitialValues DEF Replies, Served
    <3>2. ASSUME NEW s \in Seq(Replies)
          PROVE  /\ s \o <<[n |-> req.n, ok |-> req.ok]>> \in Seq(Replies)
                 /\ s \o (<<[n |-> req.n, ok |-> req.ok]>> \o <<Garbage>>) \in Seq(Replies)
      BY <3>1
    <3>3. outq' \in [Clients -> Seq(Replies)]
      BY <2>15, <3>2 DEF Reply
    <3> QED
      BY <2>15, <3>3, InitialValues DEF Reply, client, lock
  <2>16. CASE StartUp_Daemon
    <3>1. unlocked' \in BOOLEAN
      BY <2>16, Zenon DEF StartUp_Daemon
    <3> QED
      BY <2>16, <3>1 DEF StartUp_Daemon, client, link
  <2>17. CASE UNCHANGED vars
    BY <2>17 DEF vars, client, link, server, lock
  <2> QED
    BY <2>1, <2>2, <2>3, <2>3a, <2>4, <2>5, <2>6, <2>7, <2>8, <2>9, <2>10, <2>10a, <2>11, <2>12,
       <2>13, <2>14, <2>15, <2>16, <2>17
       DEF Next, CallStep, SendFails, CleanUp, Killed
<1> QED
  BY <1>1, <1>2, PTL DEF Spec

(* While no call goes on without the lock: the record SEM_UNDO keeps of a    *)
(* process is what it has taken and not given back, a process in a call has  *)
(* taken it, and the semaphore is 0 exactly while somebody has.              *)
LockHeld ==
    /\ sem \in {0, 1}
    /\ \A c \in Clients : adj[c] \in {0, 1}
    /\ \A c \in Clients : pc[c] \in Critical => adj[c] = 1
    /\ \A c \in Clients : pc[c] = "out" => adj[c] = 0
    /\ \A b, c \in Clients : adj[b] = 1 /\ adj[c] = 1 => b = c
    /\ sem = 0 <=> \E c \in Clients : adj[c] = 1

LockInv == ~unlocked => LockHeld

(* A step that moves no client into its critical section or out of its       *)
(* process, and leaves the semaphore alone, keeps the lock.                  *)
LEMMA LockUntouched ==
    ASSUME LockHeld, UNCHANGED <<sem, adj>>,
           \A c \in Clients : pc'[c] \in Critical => pc[c] \in Critical,
           \A c \in Clients : pc'[c] = "out" => pc[c] = "out"
    PROVE  LockHeld'
BY DEF LockHeld

(* The death of a client, wherever it is in its call or outside, gives the   *)
(* lock back if and only if the client had it.                               *)
LEMMA LockOutlivesClients ==
    ASSUME TypeOK, LockHeld, NEW c \in Clients, Die(c)
    PROVE  LockHeld'
<1> USE DEF LockHeld, TypeOK, Critical
<1>1. /\ pc' = [pc EXCEPT ![c] = "out"]
      /\ adj' = [adj EXCEPT ![c] = 0]
      /\ sem' = Max0(sem + adj[c])
  BY DEF Die, Goto
<1>2. CASE adj[c] = 1
  <2>1. sem = 0 /\ \A b \in Clients \ {c} : adj[b] = 0
    BY <1>2
  <2>2. sem' = 1
    BY <1>1, <1>2, <2>1 DEF Max0
  <2> QED
    BY <1>1, <2>1, <2>2
<1>3. CASE adj[c] = 0
  <2>1. sem' = sem
    BY <1>1, <1>3 DEF Max0
  <2> QED
    BY <1>1, <1>3, <2>1
<1> QED
  BY <1>2, <1>3

(* Until a call goes on without the lock, and again from the next quiet      *)
(* start of the daemon: two clients are never in a call at once, and the     *)
(* semaphore is taken exactly while one is or failed to give it back,        *)
(* through every kill and every end of the daemon.                           *)
THEOREM LockSafe == Spec => []LockConserved
<1>1. Init => LockInv
  BY DEF Init, LockInv, LockHeld, Critical
<1>2. TypeOK /\ LockInv /\ [Next]_vars => LockInv'
  <2> SUFFICES ASSUME TypeOK, LockInv, [Next]_vars, ~unlocked'
               PROVE  LockHeld'
    BY DEF LockInv
  <2>1. CASE StartUp_Daemon
    <3>1. /\ sem' = 1 /\ adj' = [c \in Clients |-> 0] /\ pc' = pc
          /\ unlocked' = \E c \in Clients : pc[c] \in Critical
      BY <2>1 DEF StartUp_Daemon, client
    <3>2. \A c \in Clients : pc[c] \notin Critical
      BY <3>1
    <3> QED
      BY <3>1, <3>2 DEF LockHeld
  <2>2. ASSUME NEW c \in Clients, RequireLockFails(c)
        PROVE  LockHeld'
    BY <2>2 DEF RequireLockFails
  <2> SUFFICES ASSUME ~StartUp_Daemon, \A c \in Clients : ~RequireLockFails(c)
               PROVE  LockHeld'
    BY <2>1, <2>2
  <2>3. unlocked' = unlocked
    BY DEF Next, StartUp, Begin, CallStep, RequireLock, CopyIn, SendRequest, SendFails,
           ReceiveReply, ReceiveFails, CopyOut, ReleaseLock, ReleaseLockFails, Return,
           CleanUp, Killed, Die, add_new_client, event_handler_func, cleanup_client,
           Execute, Reply, vars, lock
  <2>4. LockHeld
    BY <2>3 DEF LockInv
  <2>5. ASSUME NEW c \in Clients, StartUp(c) \/ Begin(c) \/ CopyIn(c) \/ SendRequest(c)
                   \/ ReceiveReply(c) \/ ReceiveFails(c) \/ CopyOut(c)
                   \/ ReleaseLockFails(c)
        PROVE  LockHeld'
    <3>1. UNCHANGED <<sem, adj>>
      BY <2>5 DEF StartUp, Begin, CopyIn, SendRequest, ReceiveReply, ReceiveFails, CopyOut,
                  ReleaseLockFails, lock
    <3>2. \A b \in Clients : /\ pc'[b] \in Critical => pc[b] \in Critical
                             /\ pc'[b] = "out" => pc[b] = "out"
      BY <2>5 DEF StartUp, Begin, CopyIn, SendRequest, ReadyToSend, ReceiveReply,
                  ReceiveFails, CopyOut, ReleaseLockFails, Return, Goto, TypeOK, Critical
    <3> QED
      BY <2>4, <3>1, <3>2, LockUntouched
  <2>6. ASSUME NEW c \in Clients, RequireLock(c)
        PROVE  LockHeld'
    <3>1. /\ sem = 1 /\ sem' = 0
          /\ adj' = [adj EXCEPT ![c] = @ + 1]
          /\ pc' = [pc EXCEPT ![c] = "locked"]
      BY <2>4, <2>6 DEF RequireLock, Goto, LockHeld
    <3>2. \A b \in Clients : adj[b] = 0
      BY <2>4, <3>1 DEF LockHeld
    <3>a. adj[c] + 1 = 1
      BY <3>2
    <3>3. adj' = [adj EXCEPT ![c] = 1]
      BY <3>1, <3>a, Zenon
    <3> QED
      BY <2>4, <3>1, <3>2, <3>3 DEF LockHeld, TypeOK, Critical
  <2>7. ASSUME NEW c \in Clients, ReleaseLock(c)
        PROVE  LockHeld'
    <3>1. /\ pc[c] \in Critical
          /\ sem' = sem + 1
          /\ adj' = [adj EXCEPT ![c] = @ - 1]
          /\ pc' = [pc EXCEPT ![c] = "idle"]
      BY <2>7 DEF ReleaseLock, Return, Goto, Critical
    <3>2. adj[c] = 1 /\ sem = 0 /\ \A b \in Clients \ {c} : adj[b] = 0
      BY <2>4, <3>1 DEF LockHeld
    <3>3. adj' = [adj EXCEPT ![c] = 0] /\ sem' = 1
      BY <3>1, <3>2
    <3> QED
      BY <2>4, <3>1, <3>2, <3>3 DEF LockHeld, TypeOK, Critical
  <2>8. ASSUME NEW c \in Clients, Die(c)
        PROVE  LockHeld'
    BY <2>4, <2>8, LockOutlivesClients
  <2>9. ASSUME NEW c \in Clients,
               add_new_client(c) \/ event_handler_func(c) \/ cleanup_client(c)
        PROVE  LockHeld'
    BY <2>4, <2>9, LockUntouched
       DEF add_new_client, event_handler_func, cleanup_client, client, lock
  <2>10. CASE Execute \/ Reply
    BY <2>4, <2>10, LockUntouched DEF Execute, Reply, client, lock
  <2>11. CASE UNCHANGED vars
    BY <2>4, <2>11, LockUntouched DEF vars, client, lock
  <2> QED
    BY <2>5, <2>6, <2>7, <2>8, <2>9, <2>10, <2>11
       DEF Next, CallStep, SendFails, CleanUp, Killed
<1>3. LockInv => LockConserved
  <2> SUFFICES ASSUME LockHeld, ~unlocked
               PROVE  LockConserved
    BY DEF LockInv, LockConserved
  <2>1. sem = 0 <=> \E c \in Clients : pc[c] \in Critical \/ adj[c] > 0
    BY DEF LockHeld
  <2> QED
    BY <2>1 DEF LockHeld, LockConserved
<1> QED
  BY <1>1, <1>2, <1>3, TypeCorrect, PTL DEF Spec

-----------------------------------------------------------------------------
(* The protocol.  A request is in one place at a time: in the socket, in the *)
(* daemon's hands, answered in the socket, or dropped with the connection.   *)

Quiet(c) == inq[c] = <<>> /\ outq[c] = <<>> /\ req.from # c

Asked(c) ==
    /\ inq[c] = <<[call |-> call[c], n |-> n[c]]>>
    /\ outq[c] = <<>>
    /\ req.from # c

InService(c) ==
    /\ inq[c] = <<>>
    /\ outq[c] = <<>>
    /\ req.from = c
    /\ req.call = call[c]
    /\ req.n = n[c]

Answered(c) ==
    /\ inq[c] = <<>>
    /\ Len(outq[c]) = 1
    /\ outq[c][1].n = n[c]
    /\ req.from # c

(* One client: its connection and its request.  Of a dead one, whose         *)
(* connection the daemon has yet to clean up, the request may go on.         *)
ClientInv(c) ==
    /\ sock[c] \in {"none", "hup"} <=> pc[c] = "out"
    /\ sock[c] = "closed" => inq[c] = <<>>
    /\ sock[c] = "hup" => outq[c] = <<>>
    /\ sock[c] # "hup" /\ pc[c] # "sent" => Quiet(c)
    /\ sock[c] # "hup" /\ pc[c] = "sent" =>
          \/ Asked(c)
          \/ InService(c)
          \/ Answered(c)
          \/ Quiet(c) /\ sock[c] = "closed"
    /\ pc[c] \in {"got", "copied"} =>
          got[c].n = n[c] \/ (got[c] = Garbage /\ sock[c] = "closed")

DaemonInv ==
    /\ dpc \in {"poll", "down"} => req.from = NoClient
    /\ dpc \in {"execute", "reply"} =>
          req.from \in Clients /\ sock[req.from] \in {"open", "hup"}

ProtocolInv == DaemonInv /\ \A c \in Clients : ClientInv(c)

(* A queue of one: what is at its head, and what is left behind it.          *)
LEMMA LastOne ==
    ASSUME NEW T, NEW s \in Seq(T), Len(s) = 1
    PROVE  Head(s) = s[1] /\ Tail(s) = <<>>
<1>1. s # <<>>
  BY EmptySeq
<1>2. Head(s) = s[1] /\ Tail(s) \in Seq(T) /\ Len(Tail(s)) = 0
  BY <1>1, HeadTailProperties
<1> QED
  BY <1>2, EmptySeq

(* What a step does not touch of a client, it keeps in order.                *)
LEMMA ClientUntouched ==
    ASSUME NEW b \in Clients, ClientInv(b),
           pc'[b] = pc[b], call'[b] = call[b], n'[b] = n[b], got'[b] = got[b],
           sock'[b] = sock[b], inq'[b] = inq[b], outq'[b] = outq[b],
           \/ req'.from = req.from /\ req'.call = req.call /\ req'.n = req.n
           \/ req.from # b /\ req'.from # b
    PROVE  ClientInv(b)'
<1>1. /\ Quiet(b) => Quiet(b)'
      /\ Asked(b) => Asked(b)'
      /\ Answered(b) => Answered(b)'
      /\ InService(b) => InService(b)'
  BY DEF Quiet, Asked, Answered, InService
<1> QED
  BY <1>1 DEF ClientInv

(* The steps of a client that leave its socket and the daemon alone.         *)
LEMMA LocalSteps ==
    ASSUME TypeOK, ProtocolInv, NEW c \in Clients,
           StartUp(c) \/ Begin(c) \/ RequireLock(c) \/ CopyIn(c) \/ CopyOut(c)
              \/ ReleaseLock(c) \/ RequireLockFails(c) \/ ReleaseLockFails(c)
    PROVE  ProtocolInv'
<1>1. /\ UNCHANGED <<inq, outq, dpc, req>>
      /\ sock' = sock \/ (StartUp(c) /\ sock' = [sock EXCEPT ![c] = "backlog"])
  BY DEF StartUp, Begin, RequireLock, CopyIn, CopyOut, ReleaseLock, RequireLockFails,
         ReleaseLockFails, Return, link, server
<1>2. pc[c] # "sent" /\ pc'[c] \notin {"sent", "out"}
  BY DEF StartUp, Begin, RequireLock, CopyIn, CopyOut, ReleaseLock, RequireLockFails,
         ReleaseLockFails, Return, Goto, TypeOK
<1>3. DaemonInv'
  <2>1. DaemonInv /\ NoClient \notin Clients
    BY RpcAssumption DEF ProtocolInv
  <2>2. CASE sock' = sock
    BY <1>1, <2>1, <2>2 DEF DaemonInv
  <2>3. CASE StartUp(c) /\ sock' = [sock EXCEPT ![c] = "backlog"]
    BY <1>1, <2>1, <2>3 DEF DaemonInv, StartUp, TypeOK
  <2> QED
    BY <1>1, <2>2, <2>3
<1>4. ASSUME NEW b \in Clients, b # c
      PROVE  ClientInv(b)'
  <2>1. /\ pc'[b] = pc[b] /\ call'[b] = call[b] /\ n'[b] = n[b] /\ got'[b] = got[b]
        /\ sock'[b] = sock[b]
    BY <1>4, <1>1 DEF StartUp, Begin, RequireLock, CopyIn, CopyOut, ReleaseLock, RequireLockFails,
         ReleaseLockFails, Return, Goto,
                      TypeOK
  <2> QED
    BY <1>1, <2>1, ClientUntouched DEF ProtocolInv
<1>5. ClientInv(c)'
  <2>1. ClientInv(c)
    BY DEF ProtocolInv
  <2>2. sock[c] # "hup" /\ sock'[c] \notin {"hup", "none"}
    BY <1>1, <2>1 DEF ClientInv, StartUp, Begin, RequireLock, CopyIn, CopyOut, ReleaseLock,
         RequireLockFails, ReleaseLockFails, Return, TypeOK
  <2>3. Quiet(c) /\ Quiet(c)'
    BY <1>1, <1>2, <2>1, <2>2 DEF ClientInv, Quiet
  <2>4. pc'[c] \in {"got", "copied"} =>
           /\ pc[c] \in {"got", "copied"}
           /\ got'[c] = got[c] /\ n'[c] = n[c] /\ sock'[c] = sock[c]
    BY DEF StartUp, Begin, RequireLock, CopyIn, CopyOut, ReleaseLock, RequireLockFails,
         ReleaseLockFails, Return, Goto, TypeOK,
           link
  <2> QED
    BY <1>2, <2>1, <2>2, <2>3, <2>4 DEF ClientInv, Quiet
<1> QED
  BY <1>3, <1>4, <1>5 DEF ProtocolInv

LEMMA SendStep ==
    ASSUME TypeOK, ProtocolInv, NEW c \in Clients, SendRequest(c)
    PROVE  ProtocolInv'
<1> DEFINE r == [call |-> call[c], n |-> n[c]]
<1>1. /\ inq' = [inq EXCEPT ![c] = Append(@, r)]
      /\ pc' = [pc EXCEPT ![c] = "sent"]
      /\ UNCHANGED <<call, n, got, sock, outq, dpc, req>>
      /\ pc[c] \in {"filled", "locked"} /\ sock[c] # "closed"
  BY DEF SendRequest, Goto, server, ReadyToSend
<1>2. DaemonInv'
  BY <1>1 DEF ProtocolInv, DaemonInv
<1>3. ASSUME NEW b \in Clients, b # c
      PROVE  ClientInv(b)'
  BY <1>1, <1>3, ClientUntouched DEF ProtocolInv, TypeOK
<1>4. ClientInv(c)'
  <2>1. ClientInv(c)
    BY DEF ProtocolInv
  <2>2. sock[c] \notin {"hup", "none", "closed"} /\ Quiet(c)
    BY <1>1, <2>1 DEF ClientInv
  <2>3. inq'[c] = Append(<<>>, r)
    BY <1>1, <2>2 DEF TypeOK, Quiet
  <2>4. inq'[c] = <<r>>
    BY <2>3
  <2> HIDE DEF r
  <2>5. Asked(c)'
    BY <1>1, <2>2, <2>4 DEF Quiet, Asked, r
  <2>6. pc'[c] = "sent" /\ sock'[c] = sock[c]
    BY <1>1 DEF TypeOK
  <2> QED
    BY <2>2, <2>5, <2>6 DEF ClientInv
<1> QED
  BY <1>2, <1>3, <1>4 DEF ProtocolInv

LEMMA ReceiveSteps ==
    ASSUME TypeOK, ProtocolInv, NEW c \in Clients, ReceiveReply(c) \/ ReceiveFails(c)
    PROVE  ProtocolInv'
<1>1. /\ pc[c] = "sent" /\ pc' = [pc EXCEPT ![c] = "got"]
      /\ UNCHANGED <<call, n, sock, inq, dpc, req>>
  BY DEF ReceiveReply, ReceiveFails, Goto, server, link
<1>2. DaemonInv'
  BY <1>1 DEF ProtocolInv, DaemonInv
<1>3. ASSUME NEW b \in Clients, b # c
      PROVE  ClientInv(b)'
  <2>1. got'[b] = got[b] /\ outq'[b] = outq[b]
    BY <1>3 DEF ReceiveReply, ReceiveFails, link, TypeOK
  <2> QED
    BY <1>1, <1>3, <2>1, ClientUntouched DEF ProtocolInv, TypeOK
<1>4. ClientInv(c)'
  <2>1. ClientInv(c) /\ pc'[c] = "got"
    BY <1>1 DEF ProtocolInv, TypeOK
  <2>2. sock[c] \notin {"none", "hup"}
    BY <1>1, <2>1 DEF ClientInv
  <2>3. CASE ReceiveReply(c)
    <3>1. outq[c] # <<>> /\ got'[c] = Head(outq[c]) /\ outq'[c] = Tail(outq[c])
      BY <2>3 DEF ReceiveReply, TypeOK
    <3>2. Answered(c)
      BY <1>1, <2>1, <2>2, <3>1 DEF ClientInv, Asked, InService, Quiet
    <3>3. outq[c] \in Seq(Replies) /\ Len(outq[c]) = 1
      BY <3>2 DEF Answered, TypeOK
    <3>4. Head(outq[c]) = outq[c][1] /\ Tail(outq[c]) = <<>>
      BY <3>3, LastOne
    <3>5. got'[c].n = n[c] /\ Quiet(c)'
      BY <1>1, <3>1, <3>2, <3>4 DEF Answered, Quiet
    <3> QED
      BY <1>1, <2>1, <2>2, <3>5 DEF ClientInv
  <2>4. CASE ReceiveFails(c)
    <3>1. outq[c] = <<>> /\ sock[c] = "closed" /\ got'[c] = Garbage /\ outq' = outq
      BY <2>4 DEF ReceiveFails, link, TypeOK
    <3>2. req.from # c
      <4>1. req.from = c => sock[c] \in {"open", "hup"}
        BY RpcAssumption DEF ProtocolInv, DaemonInv, TypeOK
      <4> QED
        BY <3>1, <4>1
    <3>3. Quiet(c)'
      BY <1>1, <2>1, <3>1, <3>2 DEF ClientInv, Quiet
    <3> QED
      BY <1>1, <2>1, <2>2, <3>1, <3>3 DEF ClientInv
  <2> QED
    BY <2>3, <2>4
<1> QED
  BY <1>2, <1>3, <1>4 DEF ProtocolInv

(* A client that dies takes the reply it did not read with it; what it asked *)
(* for is still under way.                                                   *)
LEMMA DeathStep ==
    ASSUME TypeOK, ProtocolInv, NEW c \in Clients, Die(c), pc[c] # "out"
    PROVE  ProtocolInv'
<1>1. /\ pc' = [pc EXCEPT ![c] = "out"]
      /\ sock' = [sock EXCEPT ![c] = IF @ = "closed" THEN "none" ELSE "hup"]
      /\ outq' = [outq EXCEPT ![c] = <<>>]
      /\ UNCHANGED <<n, inq, dpc, req>>
  BY DEF Die, Goto, server
<1>2. ClientInv(c) /\ sock[c] \notin {"none", "hup"}
  BY DEF ProtocolInv, ClientInv
<1>3. req.from = c => sock[c] = "open"
  BY <1>2, RpcAssumption DEF ProtocolInv, DaemonInv, TypeOK
<1>4. DaemonInv'
  BY <1>1, <1>3 DEF ProtocolInv, DaemonInv, TypeOK
<1>5. ASSUME NEW b \in Clients, b # c
      PROVE  ClientInv(b)'
  <2>1. call'[b] = call[b] /\ got'[b] = got[b]
    BY <1>5 DEF Die, TypeOK
  <2> QED
    BY <1>1, <1>5, <2>1, ClientUntouched DEF ProtocolInv, TypeOK
<1>6. ClientInv(c)'
  <2>1. pc'[c] = "out" /\ outq'[c] = <<>> /\ inq'[c] = inq[c]
        /\ sock'[c] = IF sock[c] = "closed" THEN "none" ELSE "hup"
    BY <1>1 DEF TypeOK
  <2>2. CASE sock[c] = "closed"
    <3>1. Quiet(c)' /\ sock'[c] = "none"
      BY <1>1, <1>2, <1>3, <2>1, <2>2 DEF ClientInv, Quiet
    <3> QED
      BY <2>1, <3>1 DEF ClientInv
  <2>3. CASE sock[c] # "closed"
    BY <2>1, <2>3 DEF ClientInv
  <2> QED
    BY <2>2, <2>3
<1> QED
  BY <1>4, <1>5, <1>6 DEF ProtocolInv
-----------------------------------------------------------------------------
(* The steps of the daemon.                                                  *)

LEMMA AcceptStep ==
    ASSUME TypeOK, ProtocolInv, NEW c \in Clients, add_new_client(c)
    PROVE  ProtocolInv'
<1>1. PICK s \in {"open", "closed"} :
          /\ sock' = [sock EXCEPT ![c] = s]
          /\ inq' = IF s = "open" THEN inq ELSE [inq EXCEPT ![c] = <<>>]
  BY DEF add_new_client
<1>2. /\ UNCHANGED <<pc, call, n, got, outq, dpc, req>>
      /\ dpc = "poll" /\ sock[c] = "backlog" /\ req.from = NoClient
  BY DEF add_new_client, client, server, ProtocolInv, DaemonInv
<1>3. DaemonInv'
  BY <1>2 DEF ProtocolInv, DaemonInv
<1>4. ASSUME NEW b \in Clients, b # c
      PROVE  ClientInv(b)'
  BY <1>1, <1>2, <1>4, ClientUntouched DEF ProtocolInv, TypeOK
<1>5. ClientInv(c)'
  <2>1. ClientInv(c) /\ req.from # c
    BY <1>2, RpcAssumption DEF ProtocolInv
  <2>2. sock'[c] = s /\ inq'[c] = IF s = "open" THEN inq[c] ELSE <<>>
    BY <1>1 DEF TypeOK
  <2>3. Quiet(c) => Quiet(c)'
    BY <1>2, <2>1, <2>2 DEF Quiet
  <2>4. Asked(c) => IF s = "open" THEN Asked(c)' ELSE Quiet(c)'
    BY <1>2, <2>1, <2>2 DEF Asked, Quiet
  <2>5. Answered(c) => Answered(c)'
    BY <1>2, <2>1, <2>2 DEF Answered
  <2>6. ~InService(c)
    BY <2>1 DEF InService
  <2> QED
    BY <1>2, <2>1, <2>2, <2>3, <2>4, <2>5, <2>6 DEF ClientInv
<1> QED
  BY <1>3, <1>4, <1>5 DEF ProtocolInv

LEMMA ReadStep ==
    ASSUME TypeOK, ProtocolInv, NEW c \in Clients, event_handler_func(c)
    PROVE  ProtocolInv'
<1> DEFINE h == Head(inq[c])
<1>1. /\ req' = [from |-> c, call |-> h.call, n |-> h.n, ok |-> FALSE]
      /\ inq' = [inq EXCEPT ![c] = Tail(@)]
      /\ dpc = "poll" /\ dpc' = "execute"
      /\ sock[c] \in {"open", "hup"}
      /\ inq[c] # <<>>
      /\ UNCHANGED <<pc, call, n, got, sock, outq>>
  BY DEF event_handler_func, client
<1>2. req'.from = c /\ req'.call = h.call /\ req'.n = h.n /\ req.from = NoClient
  BY <1>1 DEF ProtocolInv, DaemonInv
<1> HIDE DEF h
<1>3. DaemonInv'
  BY <1>1, <1>2 DEF DaemonInv
<1>4. ASSUME NEW b \in Clients, b # c
      PROVE  ClientInv(b)'
  <2>1. req.from # b /\ req'.from # b /\ inq'[b] = inq[b]
    BY <1>1, <1>2, <1>4, RpcAssumption DEF TypeOK
  <2> QED
    BY <1>1, <1>4, <2>1, ClientUntouched DEF ProtocolInv
<1>5. ClientInv(c)'
  <2>1. ClientInv(c) /\ inq'[c] = Tail(inq[c])
    BY <1>1 DEF ProtocolInv, TypeOK
  <2>2. CASE sock[c] = "hup"
    BY <1>1, <2>1, <2>2 DEF ClientInv
  <2>3. CASE sock[c] = "open"
    <3>1. pc[c] = "sent" /\ Asked(c)
      BY <1>1, <2>1, <2>3 DEF ClientInv, Quiet, InService, Answered
    <3>a. inq[c] \in Seq(Requests) /\ inq[c] = <<[call |-> call[c], n |-> n[c]]>>
      BY <3>1 DEF Asked, TypeOK
    <3>2. /\ inq[c] \in Seq(Requests)
          /\ Len(inq[c]) = 1
          /\ inq[c][1] = [call |-> call[c], n |-> n[c]]
      BY <3>a
    <3>3. h = inq[c][1] /\ inq'[c] = <<>>
      BY <2>1, <3>2, LastOne DEF h
    <3>4. InService(c)'
      BY <1>1, <1>2, <3>1, <3>2, <3>3 DEF InService, Asked
    <3> QED
      BY <1>1, <2>1, <2>3, <3>1, <3>4 DEF ClientInv
  <2> QED
    BY <1>1, <2>2, <2>3
<1> QED
  BY <1>3, <1>4, <1>5 DEF ProtocolInv

LEMMA ExecuteStep ==
    ASSUME TypeOK, ProtocolInv, Execute
    PROVE  ProtocolInv'
<1>1. /\ UNCHANGED <<pc, call, n, got, sock, inq, outq>>
      /\ dpc = "execute" /\ dpc' = "reply"
  BY DEF Execute, client, link
<1>2. req'.from = req.from /\ req'.call = req.call /\ req'.n = req.n
  <2>1. PICK ok : req' = [req EXCEPT !.ok = ok]
    BY DEF Execute
  <2> QED
    BY <2>1 DEF TypeOK, Served
<1>3. DaemonInv'
  BY <1>1, <1>2 DEF ProtocolInv, DaemonInv
<1>4. \A b \in Clients : ClientInv(b)'
  BY <1>1, <1>2, ClientUntouched DEF ProtocolInv
<1> QED
  BY <1>3, <1>4 DEF ProtocolInv

(* One reply for each request, for every call but getmountpoint.             *)
LEMMA ReplyStep ==
    ASSUME "getmountpoint" \notin Calls, TypeOK, ProtocolInv, Reply
    PROVE  ProtocolInv'
<1> DEFINE a == [n |-> req.n, ok |-> req.ok]
<1>1. /\ UNCHANGED <<pc, call, n, got, sock, inq>>
      /\ dpc = "reply" /\ dpc' = "poll" /\ req' = NoRequest
  BY DEF Reply, client
<1>2. PICK c \in Clients : req.from = c /\ sock[c] \in {"open", "hup"}
  BY <1>1 DEF ProtocolInv, DaemonInv
<1>3. req.call # "getmountpoint"
  BY DEF TypeOK, Served
<1>4. outq' = IF sock[c] = "hup" THEN outq ELSE [outq EXCEPT ![c] = @ \o <<a>>]
  BY <1>2, <1>3 DEF Reply
<1>5. req'.from = NoClient /\ a.n = req.n
  BY <1>1 DEF NoRequest
<1>6. DaemonInv'
  BY <1>1, <1>5 DEF DaemonInv
<1> HIDE DEF a
<1>7. ASSUME NEW b \in Clients, b # c
      PROVE  ClientInv(b)'
  <2>1. req.from # b /\ req'.from # b /\ outq'[b] = outq[b]
    BY <1>2, <1>4, <1>5, <1>7, RpcAssumption DEF TypeOK
  <2> QED
    BY <1>1, <1>7, <2>1, ClientUntouched DEF ProtocolInv
<1>8. ClientInv(c)'
  <2>1. ClientInv(c) /\ req.from = c /\ req'.from # c
    BY <1>2, <1>5, RpcAssumption DEF ProtocolInv
  <2>2. CASE sock[c] = "hup"
    BY <1>1, <1>4, <2>1, <2>2 DEF ClientInv
  <2>3. CASE sock[c] = "open"
    <3>1. pc[c] = "sent" /\ InService(c)
      BY <2>1, <2>3 DEF ClientInv, Quiet, Asked, Answered
    <3>2. outq'[c] = <<>> \o <<a>>
      BY <1>2, <1>4, <2>3, <3>1 DEF InService, TypeOK
    <3>3. Len(outq'[c]) = 1 /\ outq'[c][1] = a
      BY <3>2
    <3>4. Answered(c)'
      BY <1>1, <1>5, <2>1, <3>1, <3>3 DEF InService, Answered
    <3> QED
      BY <1>1, <2>1, <2>3, <3>1, <3>4 DEF ClientInv
  <2> QED
    BY <1>2, <2>2, <2>3
<1> QED
  BY <1>6, <1>7, <1>8 DEF ProtocolInv

(* The end of a dead client's connection, or of all of them.                 *)
LEMMA CleanupStep ==
    ASSUME TypeOK, ProtocolInv, NEW c \in Clients, cleanup_client(c)
    PROVE  ProtocolInv'
<1>1. /\ UNCHANGED <<pc, call, n, got, outq, req>>
      /\ dpc = "poll" /\ dpc' \in {"poll", "down"} /\ sock[c] = "hup"
  BY DEF cleanup_client, client
<1>2. req.from = NoClient /\ \A b \in Clients : req.from # b
  BY <1>1, RpcAssumption DEF ProtocolInv, DaemonInv
<1>3. DaemonInv'
  BY <1>1, <1>2 DEF DaemonInv
<1>4. CASE /\ sock' = [sock EXCEPT ![c] = "none"]
           /\ inq' = [inq EXCEPT ![c] = <<>>]
  <2>1. ASSUME NEW b \in Clients, b # c
        PROVE  ClientInv(b)'
    BY <1>1, <1>4, <2>1, ClientUntouched DEF ProtocolInv, TypeOK
  <2>2. ClientInv(c)'
    <3>1. sock'[c] = "none" /\ inq'[c] = <<>> /\ ClientInv(c)
      BY <1>4 DEF TypeOK, ProtocolInv
    <3>2. Quiet(c)' /\ pc'[c] = "out"
      BY <1>1, <1>2, <3>1 DEF ClientInv, Quiet
    <3> QED
      BY <3>1, <3>2 DEF ClientInv
  <2> QED
    BY <1>3, <2>1, <2>2 DEF ProtocolInv
<1>5. CASE /\ sock' = [b \in Clients |->
                         IF sock[b] \in {"none", "hup"} THEN "none" ELSE "closed"]
           /\ inq' = [b \in Clients |-> <<>>]
  <2>1. ASSUME NEW b \in Clients
        PROVE  ClientInv(b)'
    <3>1. /\ ClientInv(b)
          /\ inq'[b] = <<>>
          /\ sock'[b] = IF sock[b] \in {"none", "hup"} THEN "none" ELSE "closed"
      BY <1>5 DEF ProtocolInv
    <3>2. Quiet(b) \/ Asked(b) \/ sock[b] = "hup" => Quiet(b)'
      BY <1>1, <1>2, <3>1 DEF Quiet, Asked, ClientInv
    <3>3. Answered(b) => Answered(b)'
      BY <1>1, <1>2, <3>1 DEF Answered
    <3>4. ~InService(b)
      BY <1>2 DEF InService
    <3> QED
      BY <1>1, <3>1, <3>2, <3>3, <3>4 DEF ClientInv
  <2> QED
    BY <1>3, <2>1 DEF ProtocolInv
<1> QED
  BY <1>4, <1>5 DEF cleanup_client

(* Requests and replies stay in step, whoever dies and however often the     *)
(* daemon ends and is started again: also with calls under way.              *)
LEMMA ProtocolInvariant ==
    "getmountpoint" \notin Calls => (Spec => []ProtocolInv)
<1> SUFFICES ASSUME "getmountpoint" \notin Calls
             PROVE  Spec => []ProtocolInv
  OBVIOUS
<1>1. Init => ProtocolInv
  BY RpcAssumption DEF Init, ProtocolInv, DaemonInv, ClientInv, Quiet, NoRequest
<1>2. TypeOK /\ ProtocolInv /\ [Next]_vars => ProtocolInv'
  <2> SUFFICES ASSUME TypeOK, ProtocolInv, [Next]_vars
               PROVE  ProtocolInv'
    OBVIOUS
  <2>1. ASSUME NEW c \in Clients, SendFails(c) \/ CleanUp(c) \/ Killed(c)
        PROVE  ProtocolInv'
    BY <2>1, DeathStep DEF SendFails, ReadyToSend, CleanUp, Killed, Critical
  <2>2. CASE StartUp_Daemon \/ UNCHANGED vars
    <3>1. UNCHANGED <<pc, call, n, got, sock, inq, outq, req>>
             /\ (dpc' = dpc \/ (dpc = "down" /\ dpc' = "poll"))
      BY <2>2 DEF StartUp_Daemon, vars, client, link, server
    <3>2. DaemonInv'
      BY <3>1 DEF ProtocolInv, DaemonInv
    <3> QED
      BY <3>1, <3>2, ClientUntouched DEF ProtocolInv
  <2> QED
    BY <2>1, <2>2, LocalSteps, SendStep, ReceiveSteps, AcceptStep, ReadStep,
       ExecuteStep, ReplyStep, CleanupStep DEF Next, CallStep
<1> QED
  BY <1>1, <1>2, TypeCorrect, PTL DEF Spec

(* No client is handed the reply to another call, its own or anybody's.      *)
THEOREM RepliesSafe == "getmountpoint" \notin Calls => (Spec => []ReplyAnswersCall)
<1>1. ProtocolInv => ReplyAnswersCall
  BY DEF ProtocolInv, ClientInv, ReplyAnswersCall
<1> QED
  BY <1>1, ProtocolInvariant, PTL

(* While the semaphore is a lock, there is one request under way in all.     *)
THEOREM RequestsSafe ==
    "getmountpoint" \notin Calls => (Spec => []OneRequestAtATime)
<1>1. TypeOK /\ LockConserved /\ ProtocolInv => OneRequestAtATime
  <2> SUFFICES ASSUME TypeOK, LockConserved, ProtocolInv, ~unlocked,
                      NEW b \in Clients, NEW c \in Clients,
                      sock[b] # "hup", inq[b] # <<>>, sock[c] # "hup",
                      inq[c] # <<>> \/ outq[c] # <<>> \/ req.from = c
               PROVE  b = c /\ Len(inq[c]) = 1 /\ outq[c] = <<>> /\ req.from # c
    BY DEF OneRequestAtATime
  <2>1. ClientInv(b) /\ ClientInv(c)
    BY DEF ProtocolInv
  <2>2. pc[b] = "sent" /\ pc[c] = "sent"
    BY <2>1 DEF ClientInv, Quiet
  <2>3. b = c
    BY <2>2 DEF LockConserved, Critical
  <2>4. Asked(c)
    BY <2>1, <2>2, <2>3 DEF ClientInv, InService, Answered, Quiet
  <2>5. Len(inq[c]) = 1
    BY <2>4 DEF Asked
  <2> QED
    BY <2>3, <2>4, <2>5 DEF Asked
<1> QED
  BY <1>1, TypeCorrect, LockSafe, ProtocolInvariant, PTL
-----------------------------------------------------------------------------
(* The shared memory.  It holds a call's data from the copy in to the        *)
(* execution, and its result from there to the copy out: unless the request  *)
(* of a dead client has been executed, or a call has gone on without the     *)
(* lock, in between.                                                         *)

DataInReady(c) ==
    \/ pc[c] = "filled"
    \/ /\ pc[c] = "sent"
       /\ CopiesIn(call[c])
       /\ inq[c] # <<>> \/ (req.from = c /\ dpc = "execute")

DataOutReady(c) ==
    /\ CopiesOut(call[c])
    /\ \/ pc[c] = "sent" /\ req.from = c /\ dpc = "reply" /\ req.ok
       \/ pc[c] = "sent" /\ outq[c] # <<>> /\ outq[c][1].ok
       \/ pc[c] = "got" /\ got[c].ok

DataOf(c) ==
    /\ DataInReady(c) => shm = DataIn(c)
    /\ DataOutReady(c) => shm = DataOut(c)
    /\ pc[c] = "copied" /\ got[c].ok => data[c] = DataOut(c)

DataInv == ~astray /\ ~unlocked => \A c \in Clients : DataOf(c)

(* Only a client in its call has anything in the shared memory.              *)
LEMMA NoCallNoData ==
    ASSUME NEW b \in Clients, pc'[b] \notin Critical
    PROVE  DataOf(b)'
BY DEF DataOf, DataInReady, DataOutReady, Critical

(* What a step leaves alone.                                                 *)
LEMMA DataUntouched ==
    ASSUME NEW b \in Clients, DataOf(b),
           pc'[b] = pc[b], call'[b] = call[b], n'[b] = n[b], got'[b] = got[b],
           data'[b] = data[b], inq'[b] \in {inq[b], <<>>}, outq'[b] = outq[b],
           shm' = shm,
           \/ UNCHANGED <<req, dpc>>
           \/ req.from # b /\ req'.from # b
    PROVE  DataOf(b)'
<1>1. DataIn(b)' = DataIn(b) /\ DataOut(b)' = DataOut(b)
  BY DEF DataIn, DataOut
<1>2. DataInReady(b)' => DataInReady(b)
  BY DEF DataInReady
<1>3. DataOutReady(b)' => DataOutReady(b)
  BY DEF DataOutReady
<1> QED
  BY <1>1, <1>2, <1>3 DEF DataOf

(* The steps of a client in its call.  The lock keeps all others out.        *)
LEMMA CallKeepsData ==
    ASSUME TypeOK, LockConserved, ~unlocked, ProtocolInv,
           \A b \in Clients : DataOf(b), NEW c \in Clients,
           (CallStep(c) /\ ~SendFails(c)) \/ ReleaseLockFails(c)
    PROVE  \A b \in Clients : DataOf(b)'
<1>1. DataOf(c) /\ ClientInv(c)
  BY DEF ProtocolInv
<1>2. UNCHANGED <<req, dpc>> /\ (shm' = shm \/ CopyIn(c))
  BY DEF CallStep, RequireLock, CopyIn, SendRequest, ReceiveReply, ReceiveFails,
         CopyOut, ReleaseLock, ReleaseLockFails, Return, server
<1>3. ASSUME NEW b \in Clients, b # c
      PROVE  DataOf(b)'
  <2>1. /\ pc'[b] = pc[b] /\ call'[b] = call[b] /\ n'[b] = n[b] /\ got'[b] = got[b]
        /\ data'[b] = data[b] /\ inq'[b] = inq[b] /\ outq'[b] = outq[b]
    BY <1>3 DEF CallStep, RequireLock, CopyIn, SendRequest, ReceiveReply, ReceiveFails,
                CopyOut, ReleaseLock, ReleaseLockFails, Return, Goto, TypeOK, link
  <2>2. CASE shm' = shm
    BY <1>2, <2>1, <2>2, DataUntouched
  <2>3. CASE CopyIn(c)
    <3>1. pc[b] \notin Critical
      BY <1>3, <2>3 DEF CopyIn, LockConserved, Critical
    <3> QED
      BY <2>1, <3>1, NoCallNoData
  <2> QED
    BY <1>2, <2>2, <2>3
<1>4. CASE RequireLock(c)
  <2>1. pc'[c] = "locked"
    BY <1>4 DEF RequireLock, Goto, TypeOK
  <2> QED
    BY <1>3, <2>1 DEF DataOf, DataInReady, DataOutReady
<1>5. CASE CopyIn(c)
  <2>1. pc'[c] = "filled" /\ shm' = DataIn(c) /\ n' = n
    BY <1>5 DEF CopyIn, Goto, TypeOK
  <2>2. DataOf(c)'
    BY <2>1 DEF DataOf, DataInReady, DataOutReady, DataIn
  <2> QED
    BY <1>3, <2>2
<1>6. CASE SendRequest(c)
  <2>1. /\ pc'[c] = "sent" /\ shm' = shm /\ n' = n /\ call' = call /\ outq' = outq
        /\ ReadyToSend(c)
    BY <1>6 DEF SendRequest, Goto, TypeOK
  <2>2. sock[c] # "hup" /\ Quiet(c)
    BY <1>1, <2>1 DEF ClientInv, ReadyToSend
  <2>3. DataInReady(c)' => shm' = DataIn(c)'
    BY <1>1, <2>1 DEF DataInReady, DataOf, ReadyToSend, DataIn
  <2>4. ~DataOutReady(c)'
    BY <1>2, <2>1, <2>2 DEF DataOutReady, Quiet
  <2>5. DataOf(c)'
    BY <2>1, <2>3, <2>4 DEF DataOf
  <2> QED
    BY <1>3, <2>5
<1>7. CASE ReceiveReply(c)
  <2>1. /\ pc[c] = "sent" /\ pc'[c] = "got" /\ shm' = shm /\ n' = n /\ call' = call
        /\ outq[c] # <<>> /\ got'[c] = Head(outq[c])
    BY <1>7 DEF ReceiveReply, Goto, TypeOK
  <2>2. Answered(c)
    BY <1>1, <2>1 DEF ClientInv, Asked, InService, Quiet
  <2>3. got'[c] = outq[c][1]
    BY <2>1, <2>2, LastOne DEF Answered, TypeOK
  <2>4. DataOutReady(c)' => DataOutReady(c)
    BY <2>1, <2>3 DEF DataOutReady
  <2>5. DataOf(c)'
    BY <1>1, <2>1, <2>4 DEF DataOf, DataInReady, DataOut
  <2> QED
    BY <1>3, <2>5
<1>8. CASE ReceiveFails(c)
  <2>1. pc'[c] = "got" /\ got'[c] = Garbage
    BY <1>8 DEF ReceiveFails, Goto, TypeOK
  <2>2. ~Garbage.ok
    BY DEF Garbage
  <2>3. ~DataInReady(c)' /\ ~DataOutReady(c)'
    BY <2>1, <2>2 DEF DataInReady, DataOutReady
  <2>4. DataOf(c)'
    BY <2>1, <2>3 DEF DataOf
  <2> QED
    BY <1>3, <2>4
<1>9. CASE CopyOut(c)
  <2>1. /\ pc[c] = "got" /\ pc'[c] = "copied" /\ CopiesOut(call[c])
        /\ data'[c] = shm /\ got' = got /\ n' = n
    BY <1>9 DEF CopyOut, Goto, TypeOK
  <2>2. got[c].ok => shm = DataOut(c)
    BY <1>1, <2>1 DEF DataOf, DataOutReady
  <2>3. DataOf(c)'
    BY <2>1, <2>2 DEF DataOf, DataInReady, DataOutReady, DataOut
  <2> QED
    BY <1>3, <2>3
<1>10. CASE ReleaseLock(c) \/ ReleaseLockFails(c)
  <2>1. pc'[c] = "idle"
    BY <1>10 DEF ReleaseLock, ReleaseLockFails, Return, Goto, TypeOK
  <2> QED
    BY <1>3, <2>1 DEF DataOf, DataInReady, DataOutReady
<1> QED
  BY <1>4, <1>5, <1>6, <1>7, <1>8, <1>9, <1>10 DEF CallStep

(* A client begins, ends or dies outside of the shared memory.               *)
LEMMA ClientsKeepData ==
    ASSUME TypeOK, \A b \in Clients : DataOf(b), NEW c \in Clients,
           StartUp(c) \/ Begin(c) \/ Die(c)
    PROVE  \A b \in Clients : DataOf(b)'
<1>1. UNCHANGED <<shm, req, dpc, inq>> /\ pc'[c] \in {"idle", "want", "out"}
  BY DEF StartUp, Begin, Die, Goto, TypeOK, server, link
<1>2. ASSUME NEW b \in Clients, b # c
      PROVE  DataOf(b)'
  <2>1. /\ pc'[b] = pc[b] /\ call'[b] = call[b] /\ n'[b] = n[b] /\ got'[b] = got[b]
        /\ data'[b] = data[b] /\ outq'[b] = outq[b]
    BY <1>2 DEF StartUp, Begin, Die, Goto, TypeOK, link
  <2> QED
    BY <1>1, <2>1, DataUntouched
<1>3. DataOf(c)'
  BY <1>1, NoCallNoData DEF Critical
<1> QED
  BY <1>2, <1>3

(* The request the daemon executes or answers for a live client is the one   *)
(* that client waits for.                                                    *)
LEMMA ServesTheWaiting ==
    ASSUME ProtocolInv, dpc \in {"execute", "reply"}, sock[req.from] # "hup"
    PROVE  req.from \in Clients /\ pc[req.from] = "sent" /\ InService(req.from)
<1>1. PICK c \in Clients : req.from = c /\ sock[c] = "open"
  BY DEF ProtocolInv, DaemonInv
<1>2. ClientInv(c)
  BY DEF ProtocolInv
<1> QED
  BY <1>1, <1>2 DEF ClientInv, Quiet, Asked, Answered

LEMMA ExecuteKeepsData ==
    ASSUME TypeOK, LockConserved, ~unlocked, ProtocolInv,
           \A b \in Clients : DataOf(b), Execute, ~astray'
    PROVE  \A b \in Clients : DataOf(b)'
<1>1. sock[req.from] # "hup" /\ dpc = "execute"
  BY Zenon DEF Execute
<1>2. PICK c \in Clients : req.from = c /\ pc[c] = "sent" /\ InService(c)
  BY <1>1, ServesTheWaiting
<1>3. UNCHANGED <<pc, call, n, got, inq, outq>> /\ dpc' = "reply"
  BY DEF Execute, client, link
<1>4. ASSUME NEW b \in Clients, b # c
      PROVE  DataOf(b)'
  <2>1. pc'[b] \notin Critical
    BY <1>2, <1>3, <1>4 DEF LockConserved, Critical
  <2> QED
    BY <2>1, NoCallNoData
<1>5. DataOf(c)'
  <2>1. inq'[c] = <<>> /\ outq'[c] = <<>> /\ pc'[c] = "sent"
    BY <1>2, <1>3 DEF InService
  <2>2. ~DataInReady(c)'
    BY <1>3, <2>1 DEF DataInReady
  <2>3. PICK ok \in BOOLEAN :
            /\ req' = [req EXCEPT !.ok = ok]
            /\ shm' = IF ok /\ CopiesOut(req.call)
                      THEN [of |-> req.from, n |-> req.n, dir |-> "out"] ELSE shm
    BY DEF Execute
  <2>4. req'.ok = ok
    BY <2>3 DEF TypeOK, Served
  <2>5. DataOutReady(c)' => ok /\ CopiesOut(call[c])
    BY <1>3, <2>1, <2>4 DEF DataOutReady
  <2>6. DataOutReady(c)' => shm' = DataOut(c)'
    BY <1>2, <1>3, <2>3, <2>5 DEF InService, DataOut
  <2> QED
    BY <2>1, <2>2, <2>6 DEF DataOf
<1> QED
  BY <1>4, <1>5

LEMMA ReplyKeepsData ==
    ASSUME "getmountpoint" \notin Calls, TypeOK, ProtocolInv,
           \A b \in Clients : DataOf(b), Reply
    PROVE  \A b \in Clients : DataOf(b)'
<1> DEFINE a == [n |-> req.n, ok |-> req.ok]
<1>1. /\ UNCHANGED <<pc, call, n, got, data, inq, shm, sock>>
      /\ dpc = "reply" /\ dpc' = "poll" /\ req' = NoRequest
  BY DEF Reply, client
<1>2. PICK c \in Clients : req.from = c /\ sock[c] \in {"open", "hup"}
  BY <1>1 DEF ProtocolInv, DaemonInv
<1>3. req.call # "getmountpoint"
  BY DEF TypeOK, Served
<1>4. outq' = IF sock[c] = "hup" THEN outq ELSE [outq EXCEPT ![c] = @ \o <<a>>]
  BY <1>2, <1>3 DEF Reply
<1>5. req'.from = NoClient /\ NoClient \notin Clients /\ a.ok = req.ok
  BY <1>1, RpcAssumption DEF NoRequest
<1> HIDE DEF a
<1>6. ASSUME NEW b \in Clients, b # c
      PROVE  DataOf(b)'
  <2>1. req.from # b /\ req'.from # b /\ outq'[b] = outq[b]
    BY <1>2, <1>4, <1>5, <1>6 DEF TypeOK
  <2> QED
    BY <1>1, <2>1, DataUntouched
<1>7. DataOf(c)'
  <2>1. CASE sock[c] = "hup"
    <3>1. pc'[c] = "out"
      BY <1>1, <2>1 DEF ProtocolInv, ClientInv
    <3> QED
      BY <3>1, NoCallNoData DEF Critical
  <2>2. CASE sock[c] = "open"
    <3>1. pc[c] = "sent" /\ InService(c)
      BY <1>1, <1>2, <2>2, ServesTheWaiting
    <3>2. outq'[c] = <<>> \o <<a>>
      BY <1>2, <1>4, <2>2, <3>1 DEF InService, TypeOK
    <3>3. outq'[c] # <<>> /\ outq'[c][1] = a
      BY <3>2
    <3>4. ~DataInReady(c)'
      BY <1>1, <1>5, <3>1 DEF DataInReady, InService
    <3>5. DataOutReady(c)' => DataOutReady(c)
      BY <1>1, <1>5, <3>1, <3>3 DEF DataOutReady, InService
    <3> QED
      BY <1>1, <3>1, <3>4, <3>5 DEF DataOf, DataOut
  <2> QED
    BY <1>2, <2>1, <2>2
<1> QED
  BY <1>6, <1>7

LEMMA PollKeepsData ==
    ASSUME TypeOK, ProtocolInv, \A b \in Clients : DataOf(b), NEW c \in Clients,
           add_new_client(c) \/ event_handler_func(c) \/ cleanup_client(c)
    PROVE  \A b \in Clients : DataOf(b)'
<1>1. UNCHANGED <<pc, call, n, got, data, outq, shm>> /\ dpc = "poll"
  BY DEF add_new_client, event_handler_func, cleanup_client, client
<1>2. \A b \in Clients : req.from # b
  BY <1>1, RpcAssumption DEF ProtocolInv, DaemonInv
<1>3. CASE add_new_client(c) \/ cleanup_client(c)
  <2>1. req' = req /\ \A b \in Clients : inq'[b] \in {inq[b], <<>>}
    BY <1>3 DEF add_new_client, cleanup_client, server, TypeOK
  <2> QED
    BY <1>1, <1>2, <2>1, DataUntouched
<1>4. CASE event_handler_func(c)
  <2>1. req'.from = c /\ dpc' = "execute" /\ inq[c] # <<>>
    BY <1>4 DEF event_handler_func
  <2>2. ASSUME NEW b \in Clients, b # c
        PROVE  DataOf(b)'
    <3>1. inq'[b] = inq[b] /\ req'.from # b
      BY <1>4, <2>1, <2>2 DEF event_handler_func, TypeOK
    <3> QED
      BY <1>1, <1>2, <3>1, DataUntouched
  <2>3. DataOf(c)'
    <3>1. DataInReady(c)' => DataInReady(c)
      BY <1>1, <2>1 DEF DataInReady
    <3>2. DataOutReady(c)' => DataOutReady(c)
      BY <1>1, <2>1 DEF DataOutReady
    <3> QED
      BY <1>1, <3>1, <3>2 DEF DataOf, DataIn, DataOut
  <2> QED
    BY <2>2, <2>3
<1> QED
  BY <1>3, <1>4

(* The shared memory is handed back and forth between a client and the       *)
(* daemon, and nobody else writes to it.                                     *)
LEMMA DataInvariant ==
    "getmountpoint" \notin Calls => (Spec => []DataInv)
<1> SUFFICES ASSUME "getmountpoint" \notin Calls
             PROVE  Spec => []DataInv
  OBVIOUS
<1>1. Init => DataInv
  BY DEF Init, DataInv, DataOf, DataInReady, DataOutReady
<1>2. TypeOK /\ LockConserved /\ ProtocolInv /\ DataInv /\ [Next]_vars => DataInv'
  <2> SUFFICES ASSUME TypeOK, LockConserved, ProtocolInv, DataInv, [Next]_vars,
                      ~astray', ~unlocked'
               PROVE  \A b \in Clients : DataOf(b)'
    BY DEF DataInv
  <2>1. CASE StartUp_Daemon
    <3>1. pc' = pc /\ unlocked' = \E c \in Clients : pc[c] \in Critical
      BY <2>1 DEF StartUp_Daemon, client
    <3>2. \A b \in Clients : pc'[b] \notin Critical
      BY <3>1
    <3> QED
      BY <3>2, NoCallNoData
  <2> SUFFICES ASSUME ~StartUp_Daemon
               PROVE  \A b \in Clients : DataOf(b)'
    BY <2>1
  <2>2. ~astray /\ ~unlocked /\ \A c \in Clients : ~RequireLockFails(c)
    <3>1. /\ astray' = astray \/ astray' = (astray \/ sock[req.from] = "hup")
          /\ unlocked' = unlocked \/ unlocked' = TRUE
      BY DEF Next, StartUp, Begin, CallStep, RequireLock, RequireLockFails, CopyIn,
             SendRequest, SendFails, ReceiveReply, ReceiveFails, CopyOut, ReleaseLock,
             ReleaseLockFails, Return, CleanUp, Killed, Die, add_new_client,
             event_handler_func, cleanup_client, Execute, Reply, vars, server, lock
    <3>2. ~astray
      BY <3>1, Zenon
    <3>3. ~unlocked
      BY <3>1
    <3> QED
      BY <3>2, <3>3 DEF RequireLockFails
  <2>3. \A b \in Clients : DataOf(b)
    BY <2>2 DEF DataInv
  <2>4. ASSUME NEW c \in Clients, SendFails(c) \/ CleanUp(c) \/ Killed(c)
        PROVE  \A b \in Clients : DataOf(b)'
    BY <2>3, <2>4, ClientsKeepData DEF SendFails, CleanUp, Killed
  <2>5. CASE UNCHANGED vars
    BY <2>3, <2>5, DataUntouched DEF vars, client, link, server
  <2> QED
    BY <2>2, <2>3, <2>4, <2>5, CallKeepsData, ClientsKeepData, ExecuteKeepsData,
       ReplyKeepsData, PollKeepsData DEF Next
<1> QED
  BY <1>1, <1>2, TypeCorrect, LockSafe, ProtocolInvariant, PTL DEF Spec

(* A successful call that returns data returns its own.                      *)
THEOREM ResultsSafe ==
    "getmountpoint" \notin Calls => (Spec => []CopiesOwnResult)
<1>1. DataInv => CopiesOwnResult
  BY DEF DataInv, DataOf, CopiesOwnResult
<1> QED
  BY <1>1, DataInvariant, PTL

(* The daemon works on the data of the call it executes.                     *)
THEOREM ExecutionsSafe ==
    "getmountpoint" \notin Calls => (Spec => ExecutesOwnData)
<1> SUFFICES ASSUME "getmountpoint" \notin Calls
             PROVE  Spec => ExecutesOwnData
  OBVIOUS
<1> DEFINE Step == dpc = "execute" /\ dpc' = "reply" /\ CopiesIn(req.call)
                      /\ ~astray' /\ ~unlocked =>
                      shm = [of |-> req.from, n |-> req.n, dir |-> "in"]
<1>1. TypeOK /\ ProtocolInv /\ DataInv /\ [Next]_vars => Step
  <2> SUFFICES ASSUME TypeOK, ProtocolInv, DataInv, [Next]_vars,
                      dpc = "execute", dpc' = "reply", CopiesIn(req.call), ~astray', ~unlocked
               PROVE  shm = [of |-> req.from, n |-> req.n, dir |-> "in"]
    OBVIOUS
  <2>1. Execute
    BY DEF Next, StartUp, Begin, CallStep, RequireLock, RequireLockFails, CopyIn, SendRequest,
           SendFails, ReceiveReply, ReceiveFails, CopyOut, ReleaseLock,
           ReleaseLockFails, Return, CleanUp, Killed, Die,
           add_new_client, event_handler_func, cleanup_client, Reply,
           StartUp_Daemon, vars, server
  <2>2. ~astray /\ sock[req.from] # "hup"
    BY <2>1, Zenon DEF Execute
  <2>3. req.from \in Clients /\ pc[req.from] = "sent" /\ InService(req.from)
    BY <2>2, ServesTheWaiting
  <2>4. DataInReady(req.from)
    BY <2>3 DEF DataInReady, InService
  <2> QED
    BY <2>2, <2>3, <2>4 DEF DataInv, DataOf, DataIn, InService
<1> HIDE DEF Step
<1>2. [](TypeOK /\ ProtocolInv /\ DataInv) /\ [][Next]_vars => [][Step]_vars
  BY <1>1, PTL
<1> QED
  BY <1>2, TypeCorrect, ProtocolInvariant, DataInvariant, PTL
     DEF Spec, ExecutesOwnData, Step
====
